-------------------------- MODULE IncidentManager --------------------------
(***************************************************************************)
(* The incident manager of internal/operator/incident/manager.go: one      *)
(* handler goroutine per delivered alert (ProcessAlert) and, once a plan   *)
(* exists, one pipeline goroutine (runRecoveryPipeline) that works on the  *)
(* SAME incident record as its handler, while the store keeps copies.      *)
(* A step is what happens between two accesses to state other goroutines   *)
(* see: the store, the cooldown map, the rollback history, the gauge.      *)
(*                                                                         *)
(* Time is abstracted: a cooldown window may end, a back-off elapse and a  *)
(* verification time out at any moment, so the operators of Cooldown are   *)
(* used with 0 for now.  How the windows relate to time is ExecutionGate's *)
(* subject, what Helm does with the releases RollbackPipeline's.           *)
(***************************************************************************)
EXTENDS Integers, IncidentFSM, Cooldown, DecisionEngine

CONSTANTS
  Fingerprints,     \* the alerts Alertmanager can send
  AlertOf,          \* fingerprint -> [service, name, policy]
  Suspects,         \* service -> what root-cause analysis may answer for it
  Peers,            \* service -> its neighbours in the dependency graph
  Handlers,         \* deliveries; a new incident is named after its creator
  DurableStore,     \* Postgres (TRUE) or the in-memory stores (FALSE)
  StoreMayFail,     \* can a call of a store return an error?
  PriorRollbacks,   \* histories that earlier incidents may have left
  LeaderElection,   \* does the replica take part in leader election?
  MaxRestarts       \* bound on restarts, for model checking

Policies == [action : RecoveryActions, cooldown : Nat \ {0},
             maxRetries : Nat \ {0}]
Rollback == [service : Services, success : BOOLEAN]

ASSUME AlertAssumption ==
  AlertOf \in [Fingerprints -> [service : Services, name : AlertNames,
                                policy : Policies \cup {NoPolicy}]]
ASSUME GraphAssumption == /\ Suspects \in [Services -> SUBSET Services]
                          /\ Peers \in [Services -> SUBSET Services]
ASSUME HandlersAssumption == Handlers \subseteq Nat /\ IsFiniteSet(Handlers)
ASSUME StoreAssumption == /\ {DurableStore, StoreMayFail, LeaderElection}
                                \subseteq BOOLEAN
                          /\ PriorRollbacks \subseteq Seq(Rollback)

GateWindow == 1     \* the coordinator's window; any open window is alike here

VARIABLES
  leadership,       \* "standby" before, "leading" and "stopped" after a term
  store,            \* the incident store: a set of records, one per id
  rollbackLog,      \* the rollback history store, oldest entry first
  cooldown,         \* the cooldown map
  activeIncidents,  \* the operator_active_incidents gauge
  hpc,              \* where each handler stands
  alert,            \* the alert each handler was given
  incident,         \* the record each handler and its pipeline share
  decision,         \* what the handler decided, for which service
  ppc,              \* where each pipeline stands
  attempt,          \* the pipeline's attempt counter
  restarts          \* restarts so far (bounded)

shared == <<store, rollbackLog, cooldown, activeIncidents>>
vars == <<leadership, shared, hpc, alert, incident, decision, ppc, attempt,
          restarts>>

Incidents == [id : Handlers, fp : Fingerprints,
              status : {"firing", "resolved"}, state : States, attempts : Nat]
Decisions == [action : Actions, service : Services, peers : SUBSET Services]

HandlerDone == {"skipped", "ignored", "dropped", "refused", "done", "killed"}
PipelineDone == {"suppressed", "recovered", "failed", "killed"}

TypeOK ==
  /\ leadership \in {"standby", "leading", "stopped"}
  /\ store \subseteq Incidents
  /\ rollbackLog \in Seq(Rollback)
  /\ cooldown \in [Keys -> Nat]
  /\ activeIncidents \in Int
  /\ hpc \in [Handlers -> {"idle", "lookup", "create", "resolve", "evaluate",
                           "decide", "plan", "persist"} \cup HandlerDone]
  /\ alert \in [Handlers -> [fp : Fingerprints, status : {"firing", "resolved"}]]
  /\ incident \in [Handlers -> Incidents]
  /\ decision \in [Handlers -> Decisions]
  /\ ppc \in [Handlers -> {"none", "gate", "suppress", "execute", "rollback",
                           "complete", "verify", "retry", "backoff", "peers",
                           "exhausted", "giveup"} \cup PipelineDone]
  /\ attempt \in [Handlers -> Nat]
  /\ restarts \in Nat

Service(fp) == AlertOf[fp].service
Policy(h) == AlertOf[alert[h].fp].policy

\* Mistake to be noticed: the initial state is left empty.
NewIncidentWithoutState(h, fp) ==
  [id |-> h, fp |-> fp, status |-> "firing", state |-> "", attempts |-> 0]

NewIncident(h, fp) == [id |-> h, fp |-> fp, status |-> "firing",
                       state |-> "Healthy", attempts |-> 0]

FirstLeadership == IF LeaderElection THEN "standby" ELSE "leading"

Init ==
  /\ leadership = FirstLeadership
  /\ store = {}
  /\ rollbackLog \in PriorRollbacks
  /\ cooldown = NoWindows
  /\ activeIncidents = 0
  /\ hpc = [h \in Handlers |-> "idle"]
  /\ alert \in [Handlers -> [fp : Fingerprints, status : {"firing", "resolved"}]]
  /\ incident = [h \in Handlers |-> NewIncident(h, alert[h].fp)]
  /\ decision = [h \in Handlers |-> [action |-> "Ignore", peers |-> {},
                                     service |-> Service(alert[h].fp)]]
  /\ ppc = [h \in Handlers |-> "none"]
  /\ attempt = [h \in Handlers |-> 0]
  /\ restarts = 0

-----------------------------------------------------------------------------
(* The stores.                                                             *)

\* GetByFingerprint: any of the records of that alert, closed ones included.
StoredFor(fp) == {i \in store : i.fp = fp}

\* Mistake to be noticed: a resolved incident is not kept.
UpdatedOrDropped(i) == {IF j.id = i.id THEN i ELSE j : j \in store} \
                         {j \in {i} : j.status = "resolved"}

Updated(i) == {IF j.id = i.id THEN i ELSE j : j \in store}

\* An Update whose error, if there is one, the caller discards.
Save(i) == \/ store' = Updated(i)
           \/ StoreMayFail /\ UNCHANGED store

Goto(h, at) == hpc' = [hpc EXCEPT ![h] = at]
Continue(h, at) == ppc' = [ppc EXCEPT ![h] = at]
SetIncident(h, i) == incident' = [incident EXCEPT ![h] = i]
SetDecision(h, action, service) ==
  decision' = [decision EXCEPT ![h] = [action |-> action, service |-> service,
                                       peers |-> {}]]

-----------------------------------------------------------------------------
(* ProcessAlert                                                            *)

\* The webhook starts a goroutine per alert and the leader check passes.
\* Handlers start in the order of their names, which are only names.
Deliverable(h) == /\ hpc[h] = "idle"
                  /\ \A g \in Handlers : g < h => hpc[g] # "idle"

Deliver(h) ==
  /\ Deliverable(h)
  /\ leadership = "leading"
  /\ Goto(h, "lookup")
  /\ UNCHANGED <<leadership, shared, alert, incident, decision, ppc, attempt,
                 restarts>>

SkipAsStandby(h) ==
  /\ Deliverable(h)
  /\ leadership # "leading"
  /\ Goto(h, "skipped")
  /\ UNCHANGED <<leadership, shared, alert, incident, decision, ppc, attempt,
                 restarts>>

FindIncident(h) ==
  /\ hpc[h] = "lookup"
  /\ \E i \in StoredFor(alert[h].fp) : SetIncident(h, i)
  /\ Goto(h, IF alert[h].status = "firing" THEN "evaluate" ELSE "resolve")
  /\ UNCHANGED <<leadership, shared, alert, decision, ppc, attempt, restarts>>

\* Not found, or any error of the store, which the code takes for the same.
FindNothing(h) ==
  /\ hpc[h] = "lookup"
  /\ StoredFor(alert[h].fp) = {} \/ StoreMayFail
  /\ Goto(h, IF alert[h].status = "firing" THEN "create" ELSE "ignored")
  /\ UNCHANGED <<leadership, shared, alert, incident, decision, ppc, attempt,
                 restarts>>

CreateIncident(h) ==
  /\ hpc[h] = "create"
  /\ store' = store \cup {NewIncident(h, alert[h].fp)}
  /\ SetIncident(h, NewIncident(h, alert[h].fp))
  /\ activeIncidents' = activeIncidents + 1
  /\ Goto(h, "evaluate")
  /\ UNCHANGED <<leadership, rollbackLog, cooldown, alert, decision, ppc,
                 attempt, restarts>>

CreateFails(h) ==
  /\ hpc[h] = "create"
  /\ StoreMayFail
  /\ Goto(h, "dropped")
  /\ UNCHANGED <<leadership, shared, alert, incident, decision, ppc, attempt,
                 restarts>>

\* Both transitions may be refused; the incident is resolved all the same.
Closed(i) == Transition(Transition([i EXCEPT !.status = "resolved"],
                                   "Recovered"), "Healthy")

ResolveIncident(h) ==
  /\ hpc[h] = "resolve"
  /\ incident[h].status # "resolved"
  /\ SetIncident(h, Closed(incident[h]))
  /\ Save(Closed(incident[h]))
  /\ activeIncidents' = activeIncidents - 1
  /\ Goto(h, "done")
  /\ UNCHANGED <<leadership, rollbackLog, cooldown, alert, decision, ppc,
                 attempt, restarts>>

AlreadyResolved(h) ==
  /\ hpc[h] = "resolve"
  /\ incident[h].status = "resolved"
  /\ Goto(h, "ignored")
  /\ UNCHANGED <<leadership, shared, alert, incident, decision, ppc, attempt,
                 restarts>>

\* Healthy -> Warning first; then Investigating, from which it may be refused.
Woken(i) == IF i.state = "Healthy" THEN Transition(i, "Warning") ELSE i
MayInvestigate(i) == IsTransitionAllowed(Woken(i).state, "Investigating")

Refuse(h) ==
  /\ hpc[h] = "evaluate"
  /\ ~MayInvestigate(incident[h])
  /\ Goto(h, "refused")
  /\ UNCHANGED <<leadership, shared, alert, incident, decision, ppc, attempt,
                 restarts>>

\* The advisory cooldown check.  What needs no look at the SRE state is
\* answered on the spot: no policy, cooling down, retries used up.
CheckCooldown(h) ==
  LET fp == alert[h].fp
      cooling == IsCoolingDown(cooldown, 0, Service(fp), AlertOf[fp].name)
      answer == ShortCircuit(Policy(h), cooling, incident[h].attempts)
  IN  /\ hpc[h] = "evaluate"
      /\ MayInvestigate(incident[h])
      /\ SetIncident(h, Transition(Woken(incident[h]), "Investigating"))
      /\ IF answer = "Evaluate"
         THEN Goto(h, "decide") /\ UNCHANGED decision
         ELSE Goto(h, "persist") /\ SetDecision(h, answer, Service(fp))
      /\ UNCHANGED <<leadership, shared, alert, ppc, attempt, restarts>>

\* ListRollbacks: on an error the engine goes on as if there were no failures.
ListedFailures(service) ==
  {ConsecutiveFailures(rollbackLog, service, DurableStore)}
    \cup {n \in {0} : StoreMayFail}

\* Root cause, SRE signals and rollback history.
Decide(h) ==
  /\ hpc[h] = "decide"
  /\ \E target \in Suspects[Service(alert[h].fp)] \cup {Service(alert[h].fp)} :
       \E signal \in Signals, failures \in ListedFailures(target) :
         LET action == WeighSignals(Policy(h), failures, signal)
         IN  /\ SetDecision(h, action, target)
             /\ Goto(h, IF action \in RecoveryActions THEN "plan" ELSE "persist")
  /\ UNCHANGED <<leadership, shared, alert, incident, ppc, attempt, restarts>>

\* The plan: one more attempt, the advisory window, and the pipeline started.
Planned(i) == Transition(Transition([i EXCEPT !.attempts = @ + 1],
                                    "DecisionMade"), "RecoveryPlanned")

PlanRecovery(h) ==
  LET fp == alert[h].fp
  IN  /\ hpc[h] = "plan"
      /\ SetIncident(h, Planned(incident[h]))
      /\ cooldown' = Recorded(cooldown, 0, Service(fp), AlertOf[fp].name,
                              Policy(h).cooldown)
      /\ Continue(h, "gate")
      /\ Goto(h, "persist")
      /\ UNCHANGED <<leadership, store, rollbackLog, activeIncidents, alert,
                     decision, attempt, restarts>>

\* The incident when ProcessAlert writes it: the pipeline's, if there is one.
Outcome(h) ==
  LET decided == Transition(incident[h], "DecisionMade")
  IN  CASE decision[h].action = "Ignore"   -> decided
        [] decision[h].action = "Wait"     -> Transition(decided, "Waiting")
        [] decision[h].action = "Escalate" -> Transition(decided, "Failed")
        [] decision[h].action \in RecoveryActions -> incident[h]

Persist(h) ==
  /\ hpc[h] = "persist"
  /\ SetIncident(h, Outcome(h))
  /\ Save(Outcome(h))
  /\ Goto(h, "done")
  /\ UNCHANGED <<leadership, rollbackLog, cooldown, activeIncidents, alert,
                 decision, ppc, attempt, restarts>>

HandlerStep(h) ==
  \/ FindIncident(h) \/ FindNothing(h) \/ CreateIncident(h) \/ CreateFails(h)
  \/ ResolveIncident(h) \/ AlreadyResolved(h) \/ Refuse(h) \/ CheckCooldown(h)
  \/ Decide(h) \/ PlanRecovery(h) \/ Persist(h)

-----------------------------------------------------------------------------
(* runRecoveryPipeline                                                     *)

\* A transition whose refusal the pipeline ignores, followed by an Update.
MoveTo(h, state) ==
  /\ SetIncident(h, Transition(incident[h], state))
  /\ Save(Transition(incident[h], state))

ClaimSlot(h) ==
  /\ ppc[h] = "gate"
  /\ SlotIsFree(cooldown, 0, decision[h].service)
  /\ cooldown' = SlotClaimed(cooldown, 0, decision[h].service,
                             Policy(h).cooldown)
  /\ Continue(h, "execute")
  /\ UNCHANGED <<leadership, store, rollbackLog, activeIncidents, hpc, alert,
                 incident, decision, attempt, restarts>>

SlotIsTaken(h) ==
  /\ ppc[h] = "gate"
  /\ ~SlotIsFree(cooldown, 0, decision[h].service)
  /\ Continue(h, "suppress")
  /\ UNCHANGED <<leadership, shared, hpc, alert, incident, decision, attempt,
                 restarts>>

Suppress(h) ==
  /\ ppc[h] = "suppress"
  /\ MoveTo(h, "Waiting")
  /\ Continue(h, "suppressed")
  /\ UNCHANGED <<leadership, rollbackLog, cooldown, activeIncidents, hpc,
                 alert, decision, attempt, restarts>>

\* The executor moves the incident and calls Helm; a refusal would end the
\* attempt with an error before Helm is called.
\* Mistake to be noticed: the attempts are not counted.
BeginRollbackUncounted(h) ==
  /\ ppc[h] \in {"execute", "backoff"}
  /\ SetIncident(h, Transition(incident[h], "ExecutingRollback"))
  /\ Continue(h, "rollback")
  /\ UNCHANGED <<leadership, shared, hpc, alert, decision, attempt, restarts>>

BeginRollback(h) ==
  /\ ppc[h] \in {"execute", "backoff"}
  /\ attempt' = [attempt EXCEPT ![h] = @ + 1]
  /\ SetIncident(h, Transition(incident[h], "ExecutingRollback"))
  /\ Continue(h, "rollback")
  /\ UNCHANGED <<leadership, shared, hpc, alert, decision, restarts>>

RollbackDone(h) ==
  /\ ppc[h] = "rollback"
  /\ MoveTo(h, "RollbackComplete")
  /\ Continue(h, "complete")
  /\ UNCHANGED <<leadership, rollbackLog, cooldown, activeIncidents, hpc,
                 alert, decision, attempt, restarts>>

\* Mistake to be noticed: one attempt too many.
AttemptsLeftOrOne(h) == attempt[h] <= Policy(h).maxRetries

AttemptsLeft(h) == attempt[h] < Policy(h).maxRetries

\* A transient error goes on to the next attempt, any other ends the loop.
RollbackFailed(h) ==
  /\ ppc[h] = "rollback"
  /\ Save(incident[h])
  /\ \E transient \in BOOLEAN :
       Continue(h, IF transient /\ AttemptsLeft(h) THEN "retry" ELSE "exhausted")
  /\ UNCHANGED <<leadership, rollbackLog, cooldown, activeIncidents, hpc,
                 alert, incident, decision, attempt, restarts>>

StartVerifying(h) ==
  /\ ppc[h] = "complete"
  /\ MoveTo(h, "Verifying")
  /\ Continue(h, "verify")
  /\ UNCHANGED <<leadership, rollbackLog, cooldown, activeIncidents, hpc,
                 alert, decision, attempt, restarts>>

\* Mistake to be noticed: the incident is not moved when its verification fails.
VerificationFailedInPlace(h) ==
  /\ ppc[h] = "verify"
  /\ Continue(h, IF AttemptsLeft(h) THEN "retry" ELSE "exhausted")
  /\ UNCHANGED <<leadership, shared, hpc, alert, incident, decision, attempt,
                 restarts>>

VerificationFailed(h) ==
  /\ ppc[h] = "verify"
  /\ MoveTo(h, "VerificationFailed")
  /\ Continue(h, IF AttemptsLeft(h) THEN "retry" ELSE "exhausted")
  /\ UNCHANGED <<leadership, rollbackLog, cooldown, activeIncidents, hpc,
                 alert, decision, attempt, restarts>>

Retry(h) ==
  /\ ppc[h] = "retry"
  /\ MoveTo(h, "Retrying")
  /\ Continue(h, "backoff")
  /\ UNCHANGED <<leadership, rollbackLog, cooldown, activeIncidents, hpc,
                 alert, decision, attempt, restarts>>

\* RecordRollback, whose error is discarded.
LogRollback(h, ok) ==
  \/ rollbackLog' = Append(rollbackLog,
                           [service |-> decision[h].service, success |-> ok])
  \/ StoreMayFail /\ UNCHANGED rollbackLog

Verified(h) ==
  /\ ppc[h] = "verify"
  /\ LogRollback(h, TRUE)
  /\ decision' = [decision EXCEPT ![h].peers =
                    IF decision[h].action = "PrepareRollback"
                    THEN Peers[decision[h].service] ELSE {}]
  /\ Continue(h, "peers")
  /\ UNCHANGED <<leadership, store, cooldown, activeIncidents, hpc, alert,
                 incident, attempt, restarts>>

\* One peer of the batch: not co-released (or no release at all), gated, or
\* rolled back, which its own slot records whether Helm succeeds or not.
ConsiderPeer(h) ==
  /\ ppc[h] = "peers"
  /\ \E p \in decision[h].peers :
       /\ decision' = [decision EXCEPT ![h].peers = @ \ {p}]
       /\ \/ UNCHANGED cooldown
          \/ /\ SlotIsFree(cooldown, 0, p)
             /\ cooldown' = SlotClaimed(cooldown, 0, p, GateWindow)
  /\ UNCHANGED <<leadership, store, rollbackLog, activeIncidents, hpc, alert,
                 incident, ppc, attempt, restarts>>

\* The success path closes the incident whatever state it is in.
Archived(i) == [Transition(Transition(i, "Recovered"), "Healthy")
                  EXCEPT !.status = "resolved"]

\* Mistake to be noticed: the gauge forgets the incidents the pipeline closes.
RecoverUncounted(h) ==
  /\ ppc[h] = "peers"
  /\ decision[h].peers = {}
  /\ SetIncident(h, Archived(incident[h]))
  /\ Save(Archived(incident[h]))
  /\ Continue(h, "recovered")
  /\ UNCHANGED <<leadership, rollbackLog, cooldown, activeIncidents, hpc,
                 alert, decision, attempt, restarts>>

Recover(h) ==
  /\ ppc[h] = "peers"
  /\ decision[h].peers = {}
  /\ SetIncident(h, Archived(incident[h]))
  /\ Save(Archived(incident[h]))
  /\ activeIncidents' = activeIncidents - 1
  /\ Continue(h, "recovered")
  /\ UNCHANGED <<leadership, rollbackLog, cooldown, hpc, alert, decision,
                 attempt, restarts>>

Exhaust(h) ==
  /\ ppc[h] = "exhausted"
  /\ SetIncident(h, Transition(incident[h], "Failed"))
  /\ LogRollback(h, FALSE)
  /\ Continue(h, "giveup")
  /\ UNCHANGED <<leadership, store, cooldown, activeIncidents, hpc, alert,
                 decision, attempt, restarts>>

GiveUp(h) ==
  /\ ppc[h] = "giveup"
  /\ Save(incident[h])
  /\ Continue(h, "failed")
  /\ UNCHANGED <<leadership, rollbackLog, cooldown, activeIncidents, hpc,
                 alert, incident, decision, attempt, restarts>>

PipelineStep(h) ==
  \/ ClaimSlot(h) \/ SlotIsTaken(h) \/ Suppress(h) \/ BeginRollback(h)
  \/ RollbackDone(h) \/ RollbackFailed(h) \/ StartVerifying(h)
  \/ VerificationFailed(h) \/ Retry(h) \/ Verified(h) \/ ConsiderPeer(h)
  \/ Recover(h) \/ Exhaust(h) \/ GiveUp(h)

-----------------------------------------------------------------------------
(* The surroundings: time, leadership and restarts.                        *)

WindowEnds ==
  /\ \E k \in Keys : cooldown[k] > 0 /\ cooldown' = [cooldown EXCEPT ![k] = 0]
  /\ UNCHANGED <<leadership, store, rollbackLog, activeIncidents, hpc, alert,
                 incident, decision, ppc, attempt, restarts>>

\* RunOrDie returns when the lease is lost: the replica never leads again.
OnStartedLeading ==
  /\ LeaderElection
  /\ leadership = "standby"
  /\ leadership' = "leading"
  /\ UNCHANGED <<shared, hpc, alert, incident, decision, ppc, attempt, restarts>>

OnStoppedLeading ==
  /\ LeaderElection
  /\ leadership = "leading"
  /\ leadership' = "stopped"
  /\ UNCHANGED <<shared, hpc, alert, incident, decision, ppc, attempt, restarts>>

\* A crash or a shutdown, which waits for no goroutine, and the next start.
Restart ==
  /\ restarts < MaxRestarts
  /\ restarts' = restarts + 1
  /\ leadership' = FirstLeadership
  /\ store' = IF DurableStore THEN store ELSE {}
  /\ rollbackLog' = IF DurableStore THEN rollbackLog ELSE <<>>
  /\ cooldown' = NoWindows
  /\ activeIncidents' = 0
  /\ hpc' = [h \in Handlers |-> IF hpc[h] \in {"idle"} \cup HandlerDone
                                THEN hpc[h] ELSE "killed"]
  /\ ppc' = [h \in Handlers |-> IF ppc[h] \in {"none"} \cup PipelineDone
                                THEN ppc[h] ELSE "killed"]
  /\ UNCHANGED <<alert, incident, decision, attempt>>

Next == \/ \E h \in Handlers : \/ Deliver(h) \/ SkipAsStandby(h)
                               \/ HandlerStep(h) \/ PipelineStep(h)
        \/ WindowEnds
        \/ OnStartedLeading \/ OnStoppedLeading
        \/ Restart

\* A goroutine that can run does run, and back-offs and time-outs end.
Fairness == \A h \in Handlers : /\ WF_vars(HandlerStep(h))
                                /\ WF_vars(PipelineStep(h))

Spec == Init /\ [][Next]_vars /\ Fairness

-----------------------------------------------------------------------------
(* Properties                                                              *)

\* What the state of a pipeline's incident must be at each of its steps.
Expected ==
  [gate |-> {"RecoveryPlanned"}, suppress |-> {"RecoveryPlanned"},
   suppressed |-> {"Waiting"}, execute |-> {"RecoveryPlanned"},
   rollback |-> {"ExecutingRollback"}, complete |-> {"RollbackComplete"},
   verify |-> {"Verifying"}, retry |-> {"ExecutingRollback", "VerificationFailed"},
   backoff |-> {"Retrying"}, peers |-> {"Verifying"}, recovered |-> {"Healthy"},
   exhausted |-> {"ExecutingRollback", "VerificationFailed"},
   giveup |-> {"Failed"}, failed |-> {"Failed"}, none |-> States, killed |-> States]

\* The pipeline discards the errors of Transition (manager.go:331-527), so a
\* hole in the transition table, or a handler moving the record they share,
\* would silently leave an incident behind.  None does: at every step the
\* incident is in the state the pipeline last asked for.
StateTracksPipeline ==
  \A h \in Handlers : incident[h].state \in Expected[ppc[h]]

\* RecoveryAttempts survives re-fires and resolutions and is what stops the
\* operator for good (engine.go:97): no copy of an incident, stored or in use,
\* counts more recoveries than its policy allows, and no pipeline exceeds them.
AttemptsBounded ==
  /\ \A i \in store \cup {incident[h] : h \in Handlers} :
       LET policy == AlertOf[i.fp].policy
       IN  i.attempts <= IF policy = NoPolicy THEN 0 ELSE policy.maxRetries
  /\ \A h \in Handlers :
       ppc[h] # "none" => /\ Policy(h) # NoPolicy
                          /\ attempt[h] <= Policy(h).maxRetries

\* A firing alert the leader took in has an incident once its handler is past
\* the lookup, whatever became of the handler ("each firing alert generates an
\* incident", docs/architecture.md:109; manager.go:129-157).
AcknowledgedAlertHasIncident ==
  \A h \in Handlers :
    /\ alert[h].status = "firing"
    /\ hpc[h] \notin {"idle", "lookup", "create", "skipped", "killed"}
    /\ restarts = 0
    => StoredFor(alert[h].fp) # {}

\* The operator_active_incidents gauge, moved at three places of two
\* goroutines (manager.go:156, 181, 502), never claims more active incidents
\* than the store holds.
Active == {i \in store : i.status = "firing"}
GaugeNeverOverstates == activeIncidents <= Cardinality(Active)

\* After two failed recoveries of a service in a row no further one is planned
\* for it: "overrides action to Escalate to prevent infinite retry loops"
\* (docs/sre-decision-engine.md:77; decision/engine.go:123-156).
TwoFailures(s) ==
  LET Of == {i \in DOMAIN rollbackLog : rollbackLog[i].service = s}
  IN  \E i, j \in Of : /\ i < j
                       /\ \A k \in Of : k <= i \/ k = j
                       /\ ~rollbackLog[i].success /\ ~rollbackLog[j].success

EscalatesAfterTwoFailures ==
  [][\A h \in Handlers : hpc[h] = "decide" /\ hpc'[h] = "plan"
                           => ~TwoFailures(decision'[h].service)]_vars

\* Every pipeline that starts comes to an end, whatever Helm and the
\* verification answer: recovered, failed or suppressed.
PipelinesEnd ==
  \A h \in Handlers : ppc[h] = "gate" ~> ppc[h] \in PipelineDone
=============================================================================
