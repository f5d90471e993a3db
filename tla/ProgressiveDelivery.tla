------------------------ MODULE ProgressiveDelivery ------------------------
(***************************************************************************)
(* The delivery manager of internal/operator/progressive: the guard and    *)
(* the risk engine before a rollout starts, the analysis and verification  *)
(* that promote, pause or abort it, the Argo rollout it drives, and the    *)
(* Helm rollback it asks the executor for.  One rollout name, for which    *)
(* CreateRollout may be called again and again.  What Prometheus answers   *)
(* may differ from one query to the next.                                  *)
(***************************************************************************)
EXTENDS SreSignals, IncidentFSM, FiniteSets

CONSTANTS
  Samples,             \* what a Prometheus query may answer
  Downstream,          \* the services each service depends on
  Monitors,            \* callers of MonitorRollout
  Weights,             \* what the Argo client may report as the weight
  MaxRuns,             \* bound on the rollouts started, for model checking
  MinRemainingBudget,  \* percent
  MaxAllowedBurnRate,  \* tenths
  MaxFailed            \* bound on the failed rollbacks of a service

ASSUME DeliveryAssumption ==
  /\ Samples \subseteq Readings
  /\ Downstream \in [Services -> SUBSET Services]
  /\ {MaxRuns, MinRemainingBudget, MaxAllowedBurnRate, MaxFailed} \subseteq Nat
  /\ Weights \subseteq Nat /\ 0 \in Weights

VARIABLES
  run,       \* the history: what was started, in order
  active,    \* activeRuns: the run of the rollout's name, or 0
  argo,      \* the rollout in the cluster
  monitor,   \* the record and the details each monitor has fetched
  recovery   \* the incident each aborted run hands to the executor

vars == <<run, active, argo, monitor, recovery>>

Ids == 1..MaxRuns
Started == {r \in Ids : run[r].result # "none"}

Runs == [service : Services, decision : {"Deploy", "Canary", "Pause"},
         state : {"Starting", "Promoting", "Paused", "Completed", "Aborted"},
         result : {"none", "Pending", "Promoted", "Aborted"}]
Details == [weight : Weights, paused : BOOLEAN, aborted : BOOLEAN]
Recoveries == {"none", "asked", "refused", "rolledBack"}

TypeOK ==
  /\ run \in [Ids -> Runs]
  /\ active \in 0..MaxRuns
  /\ argo \in Details
  /\ monitor \in [Monitors -> [run : 0..MaxRuns, seen : {{}} \cup {{d} : d \in Details}]]
  /\ recovery \in [Ids -> Recoveries]

Init ==
  /\ \E s \in Services :
       run = [r \in Ids |-> [service |-> s, decision |-> "Deploy",
                             state |-> "Starting", result |-> "none"]]
  /\ active = 0
  /\ argo = [weight |-> 0, paused |-> FALSE, aborted |-> FALSE]
  /\ monitor = [m \in Monitors |-> [run |-> 0, seen |-> {}]]
  /\ recovery = [r \in Ids |-> "none"]

-----------------------------------------------------------------------------
(* CreateRollout *)

\* EvaluateGuard; a downstream service without objectives passes.
GuardAllows(s, incident, sample, later, downstream) ==
  /\ ~incident
  /\ ~BudgetBelow(s, sample, MinRemainingBudget)
  /\ ~BurnAbove(s, later, MaxAllowedBurnRate)
  /\ \A d \in Downstream[s] : ~(HasSLO(d) /\ Violates(d, downstream[d]))

Smaller(a, b) == IF a < b THEN a ELSE b

RiskScore(s, sample, later, failed) ==
  LET ofBudget == CASE BudgetBelow(s, sample, 20) -> 30
                    [] ~BudgetBelow(s, sample, 20) /\ BudgetBelow(s, sample, 50) -> 15
                    [] OTHER -> 0
      ofBurnRate == CASE BurnAbove(s, later, 144) -> 40
                      [] ~BurnAbove(s, later, 144) /\ BurnAbove(s, later, 60) -> 20
                      [] OTHER -> 0
  IN  Smaller(100, 10 + ofBudget + ofBurnRate + Smaller(10 * failed, 30)
                     + 5 * Cardinality(Downstream[s]))

Decision(score) ==
  CASE score >= 85 -> "Reject"
    [] score \in 60..84 -> "Pause"
    [] score \in 30..59 -> "Canary"
    [] OTHER -> "Deploy"

\* A plausible mistake, for the checks of the properties: the decision is only
\* recorded.
StartsWithAny ==
  [s \in Services |->
     {decision \in {"Deploy", "Canary", "Pause", "Reject"} :
        \E first, second, third, fourth \in Samples, failed \in 0..MaxFailed :
          /\ \E incident \in BOOLEAN, downstream \in [Downstream[s] -> Samples] :
               GuardAllows(s, incident, first, second, downstream)
          /\ decision = Decision(RiskScore(s, third, fourth, failed))}]

\* The decisions a rollout of each service may start with: the guard and the
\* risk engine query one after the other, and the stores hold what they hold.
StartsWith ==
  [s \in Services |->
     {decision \in {"Deploy", "Canary", "Pause"} :
        \E first, second, third, fourth \in Samples, failed \in 0..MaxFailed :
          /\ \E incident \in BOOLEAN, downstream \in [Downstream[s] -> Samples] :
               GuardAllows(s, incident, first, second, downstream)
          /\ decision = Decision(RiskScore(s, third, fourth, failed))}]

\* Whatever keeps the rollout from starting leaves no trace, a query that
\* fails included, whose missing report the guard goes on to use.
CreateRollout(s) ==
  /\ \E r \in Ids, decision \in StartsWith[s] :
       /\ r = Cardinality(Started) + 1
       /\ run' = [run EXCEPT ![r] = [service |-> s, decision |-> decision,
                                    state |-> "Starting", result |-> "Pending"]]
       /\ active' = r
  /\ UNCHANGED <<argo, monitor, recovery>>

-----------------------------------------------------------------------------
(* MonitorRollout *)

Idle(m) == monitor[m].run = 0
Fetched(m) == ~Idle(m) /\ monitor[m].seen # {}
Return(m) == monitor' = [monitor EXCEPT ![m] = [run |-> 0, seen |-> {}]]

\* The record is fetched under the lock, the details from Argo without it.
FetchRecord(m) ==
  /\ Idle(m) /\ active # 0
  /\ monitor' = [monitor EXCEPT ![m].run = active]
  /\ UNCHANGED <<run, active, argo, recovery>>

FetchDetails(m) ==
  /\ ~Idle(m) /\ monitor[m].seen = {}
  /\ \/ monitor' = [monitor EXCEPT ![m].seen = {argo}]
     \/ Return(m)   \* an error of the API server
  /\ UNCHANGED <<run, active, argo, recovery>>

\* A plausible mistake, for the checks of the properties: a run that ends with
\* its rollout stays active.
DecideOnly(m, state, result) ==
  /\ run' = [run EXCEPT ![monitor[m].run].state = state,
                        ![monitor[m].run].result = result]
  /\ UNCHANGED active

Decide(m, state, result) ==
  /\ run' = [run EXCEPT ![monitor[m].run].state = state,
                        ![monitor[m].run].result = result]
  /\ active' = 0

\* ArgoClient reports the index of the current step as the weight, so that
\* only a canary of a hundred steps completes; the mock goes from 0 to 100.
Conclude(m) ==
  /\ Fetched(m)
  /\ \E d \in monitor[m].seen :
       \/ d.aborted /\ Decide(m, "Aborted", "Aborted")
       \/ ~d.aborted /\ d.weight >= 100 /\ Decide(m, "Completed", "Promoted")
  /\ Return(m)
  /\ UNCHANGED <<argo, recovery>>

Undecided(m) ==
  /\ Fetched(m)
  /\ \A d \in monitor[m].seen : ~d.aborted /\ d.weight < 100

ServiceOf(m) == run[monitor[m].run].service

\* AnalyzeDeployment, an error for a service without objectives; its engines
\* query one after the other, and so does VerifyRelease.
Healthy(s, ofSlo, ofBudget, ofBurn) ==
  ~Violates(s, ofSlo) /\ ~HighBurn(s, ofBurn) /\ ~BudgetBelow(s, ofBudget, 10)

MayBe(healthy) ==
  {s \in DOMAIN SLOs : \E a, b, c \in Samples : Healthy(s, a, b, c) = healthy}
MayBeVerified == {s \in DOMAIN SLOs : \E a \in Samples : ~Violates(s, a)}
MayBeHealthy == MayBe(TRUE)
MayBeUnhealthy == MayBe(FALSE)

AnalysisFails(m) ==
  /\ Undecided(m)
  /\ Return(m)
  /\ UNCHANGED <<run, active, argo, recovery>>

\* The executor is called in a goroutine; the calls to Argo may fail unnoticed.
Abort(m) ==
  /\ Undecided(m) /\ ServiceOf(m) \in MayBeUnhealthy
  /\ Decide(m, "Aborted", "Aborted")
  /\ argo' \in {argo, [argo EXCEPT !.paused = TRUE]}
  /\ recovery' = [recovery EXCEPT ![monitor[m].run] = "asked"]
  /\ Return(m)

Moves(m, state) == run' = [run EXCEPT ![monitor[m].run].state = state]

\* Verified: the pods are ready, or unknown, and the objectives met.
Promote(m) ==
  /\ Undecided(m) /\ ServiceOf(m) \in MayBeHealthy \cap MayBeVerified
  /\ Moves(m, "Promoting")
  /\ argo' \in {argo, [argo EXCEPT !.paused = FALSE]}
  /\ Return(m)
  /\ UNCHANGED <<active, recovery>>

Pause(m) ==
  /\ Undecided(m) /\ ServiceOf(m) \in MayBeHealthy
  /\ Moves(m, "Paused")
  /\ argo' \in {argo, [argo EXCEPT !.paused = TRUE]}
  /\ Return(m)
  /\ UNCHANGED <<active, recovery>>

\* Execute of the executor, which starts with the state machine.
ExecuteRollback(r) ==
  /\ recovery[r] = "asked"
  /\ LET incident == [state |-> "Warning"]
     IN  recovery' = [recovery EXCEPT ![r] =
           IF IsTransitionAllowed(incident.state, "ExecutingRollback")
           THEN "rolledBack" ELSE "refused"]
  /\ UNCHANGED <<run, active, argo, monitor>>

-----------------------------------------------------------------------------
\* The Argo controller takes a canary step by step, or aborts it; anyone may
\* pause and resume it, through PauseRollout and ResumeRollout too.
ArgoSteps ==
  /\ ~argo.paused /\ ~argo.aborted
  /\ \E w \in Weights : w > argo.weight /\ argo' = [argo EXCEPT !.weight = w]
  /\ UNCHANGED <<run, active, monitor, recovery>>

ArgoAborts ==
  /\ ~argo.aborted
  /\ argo' = [argo EXCEPT !.aborted = TRUE]
  /\ UNCHANGED <<run, active, monitor, recovery>>

PauseOrResume ==
  /\ argo' = [argo EXCEPT !.paused = ~@]
  /\ UNCHANGED <<run, active, monitor, recovery>>

\* A new revision starts over.
ArgoRestarts ==
  /\ argo' = [weight |-> 0, paused |-> FALSE, aborted |-> FALSE]
  /\ argo' # argo
  /\ UNCHANGED <<run, active, monitor, recovery>>

Next ==
  \/ \E s \in Services : CreateRollout(s)
  \/ \E m \in Monitors :
       \/ FetchRecord(m) \/ FetchDetails(m) \/ Conclude(m)
       \/ AnalysisFails(m) \/ Abort(m) \/ Promote(m) \/ Pause(m)
  \/ \E r \in Ids : ExecuteRollback(r)
  \/ ArgoSteps \/ ArgoAborts \/ PauseOrResume \/ ArgoRestarts

Spec == Init /\ [][Next]_vars

-----------------------------------------------------------------------------
\* The run that MonitorRollout finds is the latest that was started and is
\* not decided, however many monitors decide runs they fetched long before
\* (manager.go:118-119, 155-171, 200).
ActiveRunIsOpen ==
  active # 0 => Started = 1..active /\ run[active].result = "Pending"

\* A run that is promoted or aborted stays as it is, and no monitor promotes
\* or pauses it any more (manager.go:158-233).
DecidedOnce ==
  [][\A r \in Started : run[r].result # "Pending" => run'[r] = run[r]]_vars

\* docs/progressive-delivery.md:18-23 has an unhealthy canary "Trigger Helm
\* Rollback": the executor that was asked for one does not refuse.
AbortRollsBack == \A r \in Ids : recovery[r] # "refused"
=============================================================================
