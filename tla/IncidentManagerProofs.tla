----------------------- MODULE IncidentManagerProofs -----------------------
(***************************************************************************)
(* For any alerts, policies, dependency graph, number of deliveries and    *)
(* restarts, reliable or failing stores: the incident manager keeps its    *)
(* types, every pipeline finds its incident in the state it left it in,    *)
(* and what the manager counts is right: the recoveries of an incident and *)
(* the attempts of a pipeline against the policy, the failures of a        *)
(* service against the history, the gauge against the store.  With stores  *)
(* that answer, every alert that is taken in has its incident.             *)
(***************************************************************************)
EXTENDS IncidentManager, FiniteSetTheorems, TLAPS

\* Who has a policy: a handler that looked at one, and every pipeline.
PolicyKnown ==
  \A h \in Handlers :
    hpc[h] \in {"decide", "plan"} \/ ppc[h] # "none" => Policy(h) # NoPolicy

\* The handler hands its incident over: it is Investigating until the plan
\* is made, and once the pipeline runs the handler writes it but does not
\* move it, because what it decided is a recovery.
Handover ==
  \A h \in Handlers :
    /\ hpc[h] \in {"decide", "plan"} => incident[h].state = "Investigating"
    /\ hpc[h] = "plan" => decision[h].action \in RecoveryActions
    /\ ppc[h] # "none" => /\ hpc[h] \in {"persist", "done", "killed"}
                          /\ decision[h].action \in RecoveryActions

-----------------------------------------------------------------------------
\* Transition changes nothing but the state, and moves it only where asked.
LEMMA TransitionSound ==
  ASSUME NEW i \in Incidents, NEW to \in States
  PROVE  /\ Transition(i, to) \in Incidents
         /\ Transition(i, to).id = i.id
         /\ Transition(i, to).fp = i.fp
         /\ Transition(i, to).status = i.status
         /\ Transition(i, to).attempts = i.attempts
         /\ Transition(i, to).state \in {i.state, to}
         /\ IsTransitionAllowed(i.state, to) => Transition(i, to).state = to
  BY DEF Transition, Incidents

\* The moves a pipeline relies on are all in the table.
LEMMA TableAllows ==
  /\ IsTransitionAllowed("Healthy", "Warning")
  /\ IsTransitionAllowed("Investigating", "DecisionMade")
  /\ IsTransitionAllowed("DecisionMade", "RecoveryPlanned")
  /\ IsTransitionAllowed("RecoveryPlanned", "Waiting")
  /\ IsTransitionAllowed("RecoveryPlanned", "ExecutingRollback")
  /\ IsTransitionAllowed("Retrying", "ExecutingRollback")
  /\ IsTransitionAllowed("ExecutingRollback", "RollbackComplete")
  /\ IsTransitionAllowed("ExecutingRollback", "Retrying")
  /\ IsTransitionAllowed("ExecutingRollback", "Failed")
  /\ IsTransitionAllowed("RollbackComplete", "Verifying")
  /\ IsTransitionAllowed("Verifying", "VerificationFailed")
  /\ IsTransitionAllowed("Verifying", "Recovered")
  /\ IsTransitionAllowed("VerificationFailed", "Retrying")
  /\ IsTransitionAllowed("VerificationFailed", "Failed")
  /\ IsTransitionAllowed("Recovered", "Healthy")
  BY DEF IsTransitionAllowed, Targets

\* What an alert says, and the policy that matches it, are well typed.
LEMMA AlertTypes ==
  ASSUME TypeOK, NEW h \in Handlers
  PROVE  /\ alert[h].fp \in Fingerprints
         /\ alert[h].status \in {"firing", "resolved"}
         /\ Service(alert[h].fp) \in Services
         /\ AlertOf[alert[h].fp].name \in AlertNames
         /\ Policy(h) # NoPolicy => /\ Policy(h) \in Policies
                                    /\ Policy(h).action \in RecoveryActions
                                    /\ Policy(h).cooldown \in Nat
                                    /\ Policy(h).maxRetries \in Nat
                                    /\ Policy(h).maxRetries > 0
<1>1. alert[h].fp \in Fingerprints /\ alert[h].status \in {"firing", "resolved"}
  BY DEF TypeOK
<1>2. AlertOf[alert[h].fp] \in [service : Services, name : AlertNames,
                                policy : Policies \cup {NoPolicy}]
  BY <1>1, AlertAssumption
<1>3. Policy(h) \in Policies \cup {NoPolicy}
  BY <1>2 DEF Policy
<1> QED
  BY <1>1, <1>2, <1>3 DEF Service, Policies

\* The failures that are counted are a finite number.
LEMMA FailuresAreCounted ==
  ASSUME TypeOK, NEW s \in Services
  PROVE  ConsecutiveFailures(rollbackLog, s, DurableStore) \in Nat
<1> DEFINE Of == {i \in DOMAIN rollbackLog : rollbackLog[i].service = s}
           NotAfter(i) == IF DurableStore THEN {j \in Of : j <= i}
                                          ELSE {j \in Of : j >= i}
           Failures == {i \in Of : \A j \in NotAfter(i) : ~rollbackLog[j].success}
<1>1. DOMAIN rollbackLog = 1..Len(rollbackLog) /\ Len(rollbackLog) \in Nat
  BY DEF TypeOK
<1>2. IsFiniteSet(DOMAIN rollbackLog)
  BY <1>1, FS_Interval
<1>3. Failures \in SUBSET DOMAIN rollbackLog
  OBVIOUS
<1>4. Cardinality(Failures) \in Nat
  BY <1>2, <1>3, FS_Subset, FS_CardinalityType
<1> QED
  BY <1>4 DEF ConsecutiveFailures

\* The engine answers with an action, and plans no recovery after two
\* failures.
LEMMA SignalsGiveAction ==
  ASSUME NEW policy \in Policies, NEW failures \in Nat, NEW signal \in Signals
  PROVE  /\ WeighSignals(policy, failures, signal) \in Actions
         /\ failures >= 2
              => WeighSignals(policy, failures, signal) \notin RecoveryActions
<1>1. failures >= 2 \/ failures < 2
  OBVIOUS
<1>2. policy.action \in RecoveryActions
  BY DEF Policies
<1> QED
  BY <1>1, <1>2 DEF WeighSignals, Signals, Actions, RecoveryActions

\* The short circuits answer with no recovery, and let only a policy with
\* attempts left through.
LEMMA ShortCircuitAnswers ==
  ASSUME NEW policy \in Policies \cup {NoPolicy}, NEW cooling \in BOOLEAN,
         NEW n \in Nat
  PROVE  LET answer == ShortCircuit(policy, cooling, n)
         IN  /\ answer \in {"Ignore", "Wait", "Escalate", "Evaluate"}
             /\ answer = "Evaluate" => policy # NoPolicy /\ n < policy.maxRetries
<1>1. CASE policy = NoPolicy
  BY <1>1 DEF ShortCircuit
<1>2. CASE policy # NoPolicy
  <2>1. policy.maxRetries \in Nat
    BY <1>2 DEF Policies
  <2> QED
    BY <1>2, <2>1 DEF ShortCircuit
<1> QED
  BY <1>1, <1>2

-----------------------------------------------------------------------------
(* Type correctness.                                                       *)

\* What is sent to the stores and to the history is well typed, so what they
\* hold afterwards is.
LEMMA StoreTypes ==
  ASSUME TypeOK, NEW i \in Incidents
  PROVE  /\ Updated(i) \subseteq Incidents
         /\ Save(i) => store' \subseteq Incidents
  BY DEF TypeOK, Updated, Save

\* Whatever a handler or a pipeline makes of its incident is an incident.
LEMMA IncidentTypes ==
  ASSUME TypeOK, NEW h \in Handlers
  PROVE  /\ incident[h] \in Incidents
         /\ Closed(incident[h]) \in Incidents
         /\ Woken(incident[h]) \in Incidents
         /\ Planned(incident[h]) \in Incidents
         /\ Archived(incident[h]) \in Incidents
         /\ Outcome(h) \in Incidents
         /\ NewIncident(h, alert[h].fp) \in Incidents
<1> DEFINE i == incident[h]
<1>1. i \in Incidents
  BY DEF TypeOK
<1>2. [i EXCEPT !.status = "resolved"] \in Incidents
  BY <1>1 DEF Incidents
<1>3. [i EXCEPT !.attempts = @ + 1] \in Incidents
  BY <1>1 DEF Incidents
<1>4. {"Recovered", "Healthy", "Warning", "DecisionMade", "RecoveryPlanned",
       "Waiting", "Failed"} \subseteq States
  BY DEF States
<1> HIDE DEF i
<1>5. Closed(i) \in Incidents
  BY <1>2, <1>4, TransitionSound DEF Closed
<1>6. Woken(i) \in Incidents
  BY <1>1, <1>4, TransitionSound DEF Woken
<1>7. Planned(i) \in Incidents
  BY <1>3, <1>4, TransitionSound DEF Planned
<1>8. Archived(i) \in Incidents
  <2>1. Transition(Transition(i, "Recovered"), "Healthy") \in Incidents
    BY <1>1, <1>4, TransitionSound
  <2> QED
    BY <2>1 DEF Archived, Incidents
<1>9. Outcome(h) \in Incidents
  <2>1. decision[h].action \in Actions
    BY DEF TypeOK, Decisions
  <2>2. Transition(i, "DecisionMade") \in Incidents
    BY <1>1, <1>4, TransitionSound
  <2>3. /\ Transition(Transition(i, "DecisionMade"), "Waiting") \in Incidents
        /\ Transition(Transition(i, "DecisionMade"), "Failed") \in Incidents
    BY <2>2, <1>4, TransitionSound
  <2> QED
    BY <1>1, <2>1, <2>2, <2>3 DEF Outcome, Actions, RecoveryActions, i
<1>10. NewIncident(h, alert[h].fp) \in Incidents
  BY AlertTypes DEF NewIncident, Incidents, States
<1> QED
  BY <1>1, <1>5, <1>6, <1>7, <1>8, <1>9, <1>10 DEF i

\* The stores start out empty, the history with what earlier incidents left.
LEMMA TypeInit == Init => TypeOK
<1> SUFFICES ASSUME Init PROVE TypeOK
  OBVIOUS
<1>1. ASSUME NEW h \in Handlers
      PROVE  /\ NewIncident(h, alert[h].fp) \in Incidents
             /\ [action |-> "Ignore", peers |-> {}, service |-> Service(alert[h].fp)]
                  \in Decisions
  <2>1. alert[h].fp \in Fingerprints
    BY DEF Init
  <2>2. Service(alert[h].fp) \in Services
    BY <2>1, AlertAssumption DEF Service
  <2> QED
    BY <2>1, <2>2 DEF NewIncident, Incidents, States, Decisions, Actions
<1> QED
  BY <1>1, StoreAssumption DEF Init, TypeOK, FirstLeadership, NoWindows

\* The short circuits as CheckCooldown applies them: their answer is one of
\* the four, and the SRE state is only looked at for a policy with recoveries
\* left (decision/engine.go:67-103).
LEMMA ShortCircuitHere ==
  ASSUME TypeOK, NEW h \in Handlers
  PROVE  LET fp == alert[h].fp
             cooling == IsCoolingDown(cooldown, 0, Service(fp), AlertOf[fp].name)
             answer == ShortCircuit(Policy(h), cooling, incident[h].attempts)
         IN  /\ answer \in {"Ignore", "Wait", "Escalate", "Evaluate"}
             /\ answer = "Evaluate" =>
                  /\ Policy(h) # NoPolicy
                  /\ incident[h].attempts < Policy(h).maxRetries
<1>1. Policy(h) \in Policies \cup {NoPolicy}
  BY AlertTypes
<1>2. incident[h].attempts \in Nat
  BY DEF TypeOK, Incidents
<1>3. IsCoolingDown(cooldown, 0, Service(alert[h].fp), AlertOf[alert[h].fp].name)
        \in BOOLEAN
  BY DEF IsCoolingDown
<1> QED
  BY <1>1, <1>2, <1>3, ShortCircuitAnswers

\* What Decide comes to: an action for a service, a plan where the action is
\* a recovery, which two failures that were listed rule out.
LEMMA DecisionHere ==
  ASSUME TypeOK, PolicyKnown, NEW h \in Handlers, Decide(h)
  PROVE  \E target \in Services, action \in Actions :
           /\ decision' = [decision EXCEPT ![h] =
                [action |-> action, service |-> target, peers |-> {}]]
           /\ hpc' = [hpc EXCEPT ![h] =
                IF action \in RecoveryActions THEN "plan" ELSE "persist"]
           /\ ~StoreMayFail
              /\ ConsecutiveFailures(rollbackLog, target, DurableStore) >= 2
                => action \notin RecoveryActions
<1>1. Policy(h) \in Policies
  BY AlertTypes DEF Decide, PolicyKnown
<1>2. Suspects[Service(alert[h].fp)] \cup {Service(alert[h].fp)} \subseteq Services
  BY AlertTypes, GraphAssumption
<1>3. PICK target \in Services :
        \E signal \in Signals, failures \in ListedFailures(target) :
          LET action == WeighSignals(Policy(h), failures, signal)
          IN  /\ SetDecision(h, action, target)
              /\ Goto(h, IF action \in RecoveryActions THEN "plan" ELSE "persist")
  BY <1>2 DEF Decide
<1>4. PICK signal \in Signals, failures \in ListedFailures(target) :
        LET action == WeighSignals(Policy(h), failures, signal)
        IN  /\ SetDecision(h, action, target)
            /\ Goto(h, IF action \in RecoveryActions THEN "plan" ELSE "persist")
  BY <1>3
<1> DEFINE action == WeighSignals(Policy(h), failures, signal)
<1>5. /\ failures \in Nat
      /\ ~StoreMayFail
           => failures = ConsecutiveFailures(rollbackLog, target, DurableStore)
  BY FailuresAreCounted DEF ListedFailures
<1>6. action \in Actions /\ (failures >= 2 => action \notin RecoveryActions)
  BY <1>1, <1>5, SignalsGiveAction
<1> QED
  BY <1>4, <1>5, <1>6 DEF SetDecision, Goto

\* Each step of a handler keeps the types.
LEMMA TypeHandler ==
  ASSUME TypeOK, PolicyKnown, NEW h \in Handlers,
         Deliver(h) \/ SkipAsStandby(h) \/ HandlerStep(h)
  PROVE  TypeOK'
<1> USE DEF Goto, SetIncident, HandlerDone
<1>1. CASE Deliver(h)
  BY <1>1 DEF Deliver, TypeOK, shared
<1>2. CASE SkipAsStandby(h)
  BY <1>2 DEF SkipAsStandby, TypeOK, shared
<1>3. CASE FindIncident(h)
  BY <1>3 DEF FindIncident, TypeOK, shared, StoredFor
<1>4. CASE FindNothing(h)
  BY <1>4 DEF FindNothing, TypeOK, shared
<1>5. CASE CreateIncident(h)
  BY <1>5, IncidentTypes DEF CreateIncident, TypeOK
<1>6. CASE CreateFails(h)
  BY <1>6 DEF CreateFails, TypeOK, shared
<1>7. CASE ResolveIncident(h)
  <2>1. store' \subseteq Incidents
    BY <1>7, IncidentTypes, StoreTypes DEF ResolveIncident
  <2> QED
    BY <1>7, <2>1, IncidentTypes DEF ResolveIncident, TypeOK
<1>8. CASE AlreadyResolved(h)
  BY <1>8 DEF AlreadyResolved, TypeOK, shared
<1>9. CASE Refuse(h)
  BY <1>9 DEF Refuse, TypeOK, shared
<1>10. CASE CheckCooldown(h)
  <2> DEFINE fp == alert[h].fp
             cooling == IsCoolingDown(cooldown, 0, Service(fp), AlertOf[fp].name)
             answer == ShortCircuit(Policy(h), cooling, incident[h].attempts)
             moved == Transition(Woken(incident[h]), "Investigating")
  <2>1. answer \in {"Ignore", "Wait", "Escalate", "Evaluate"}
    BY ShortCircuitHere
  <2>2. moved \in Incidents
    BY IncidentTypes, TransitionSound DEF States
  <2>3. Service(fp) \in Services
    BY AlertTypes
  <2>4. answer # "Evaluate" => [action |-> answer, service |-> Service(fp),
                                peers |-> {}] \in Decisions
    BY <2>1, <2>3 DEF Decisions, Actions
  <2>5. /\ incident' = [incident EXCEPT ![h] = moved]
        /\ \/ answer = "Evaluate" /\ hpc' = [hpc EXCEPT ![h] = "decide"]
              /\ decision' = decision
           \/ /\ answer # "Evaluate" /\ hpc' = [hpc EXCEPT ![h] = "persist"]
              /\ decision' = [decision EXCEPT ![h] = [action |-> answer,
                                service |-> Service(fp), peers |-> {}]]
        /\ UNCHANGED <<leadership, store, rollbackLog, cooldown,
                       activeIncidents, alert, ppc, attempt, restarts>>
    BY <1>10 DEF CheckCooldown, shared, SetDecision
  <2> HIDE DEF fp, answer, moved
  <2> QED
    BY <2>2, <2>4, <2>5 DEF TypeOK
<1>11. CASE Decide(h)
  <2>1. PICK target \in Services, action \in Actions :
          /\ decision' = [decision EXCEPT ![h] =
               [action |-> action, service |-> target, peers |-> {}]]
          /\ hpc' = [hpc EXCEPT ![h] =
               IF action \in RecoveryActions THEN "plan" ELSE "persist"]
    BY <1>11, DecisionHere
  <2>2. [action |-> action, service |-> target, peers |-> {}] \in Decisions
    BY DEF Decisions
  <2> QED
    BY <1>11, <2>1, <2>2 DEF Decide, TypeOK, shared
<1>12. CASE PlanRecovery(h)
  <2>1. 0 + Policy(h).cooldown \in Nat
    BY <1>12, AlertTypes DEF PlanRecovery, PolicyKnown
  <2>2. cooldown' \in [Keys -> Nat]
    BY <1>12, <2>1 DEF PlanRecovery, Recorded, TypeOK
  <2> QED
    BY <1>12, <2>2, IncidentTypes DEF PlanRecovery, TypeOK, Continue
<1>13. CASE Persist(h)
  <2>1. store' \subseteq Incidents
    BY <1>13, IncidentTypes, StoreTypes DEF Persist
  <2> QED
    BY <1>13, <2>1, IncidentTypes DEF Persist, TypeOK
<1> QED
  BY <1>1, <1>2, <1>3, <1>4, <1>5, <1>6, <1>7, <1>8, <1>9, <1>10, <1>11,
     <1>12, <1>13 DEF HandlerStep

\* A transition followed by an Update keeps the types of record and store.
LEMMA MoveTypes ==
  ASSUME TypeOK, NEW h \in Handlers, NEW to \in States, MoveTo(h, to)
  PROVE  /\ store' \subseteq Incidents
         /\ incident' \in [Handlers -> Incidents]
<1>1. Transition(incident[h], to) \in Incidents
  BY IncidentTypes, TransitionSound
<1> QED
  BY <1>1, StoreTypes DEF MoveTo, SetIncident, TypeOK

\* Each step of a pipeline keeps the types.
LEMMA TypePipeline ==
  ASSUME TypeOK, PolicyKnown, NEW h \in Handlers, PipelineStep(h)
  PROVE  TypeOK'
<1> USE DEF Continue, PipelineDone
<1>1. CASE ClaimSlot(h)
  <2>1. 0 + Policy(h).cooldown \in Nat
    BY <1>1, AlertTypes DEF ClaimSlot, PolicyKnown
  <2>2. cooldown' \in [Keys -> Nat]
    BY <1>1, <2>1 DEF ClaimSlot, SlotClaimed, TypeOK
  <2> QED
    BY <1>1, <2>2 DEF ClaimSlot, TypeOK
<1>2. CASE SlotIsTaken(h)
  BY <1>2 DEF SlotIsTaken, TypeOK, shared
<1>3. CASE Suppress(h)
  <2>1. store' \subseteq Incidents /\ incident' \in [Handlers -> Incidents]
    BY <1>3, MoveTypes DEF Suppress, States
  <2> QED
    BY <1>3, <2>1 DEF Suppress, TypeOK
<1>4. CASE BeginRollback(h)
  <2>1. Transition(incident[h], "ExecutingRollback") \in Incidents
    BY IncidentTypes, TransitionSound DEF States
  <2> QED
    BY <1>4, <2>1 DEF BeginRollback, SetIncident, TypeOK, shared
<1>5. CASE RollbackDone(h)
  <2>1. store' \subseteq Incidents /\ incident' \in [Handlers -> Incidents]
    BY <1>5, MoveTypes DEF RollbackDone, States
  <2> QED
    BY <1>5, <2>1 DEF RollbackDone, TypeOK
<1>6. CASE RollbackFailed(h)
  <2>1. store' \subseteq Incidents
    BY <1>6, IncidentTypes, StoreTypes DEF RollbackFailed
  <2> QED
    BY <1>6, <2>1 DEF RollbackFailed, TypeOK
<1>7. CASE StartVerifying(h)
  <2>1. store' \subseteq Incidents /\ incident' \in [Handlers -> Incidents]
    BY <1>7, MoveTypes DEF StartVerifying, States
  <2> QED
    BY <1>7, <2>1 DEF StartVerifying, TypeOK
<1>8. CASE VerificationFailed(h)
  <2>1. store' \subseteq Incidents /\ incident' \in [Handlers -> Incidents]
    BY <1>8, MoveTypes DEF VerificationFailed, States
  <2> QED
    BY <1>8, <2>1 DEF VerificationFailed, TypeOK
<1>9. CASE Retry(h)
  <2>1. store' \subseteq Incidents /\ incident' \in [Handlers -> Incidents]
    BY <1>9, MoveTypes DEF Retry, States
  <2> QED
    BY <1>9, <2>1 DEF Retry, TypeOK
<1>10. ASSUME NEW ok \in BOOLEAN, LogRollback(h, ok)
       PROVE  rollbackLog' \in Seq(Rollback)
  <2> DEFINE entry == [service |-> decision[h].service, success |-> ok]
  <2>1. entry \in Rollback
    BY <1>10 DEF TypeOK, Decisions, Rollback
  <2>2. rollbackLog' = Append(rollbackLog, entry) \/ rollbackLog' = rollbackLog
    BY <1>10 DEF LogRollback
  <2>3. rollbackLog \in Seq(Rollback)
    BY DEF TypeOK
  <2> HIDE DEF entry
  <2>4. Append(rollbackLog, entry) \in Seq(Rollback)
    BY <2>1, <2>3
  <2> QED
    BY <2>2, <2>3, <2>4
<1>11. CASE Verified(h)
  <2>1. rollbackLog' \in Seq(Rollback)
    BY <1>10, <1>11 DEF Verified
  <2>2. decision[h] \in Decisions /\ Peers[decision[h].service] \subseteq Services
    BY GraphAssumption DEF TypeOK, Decisions
  <2> QED
    BY <1>11, <2>1, <2>2 DEF Verified, TypeOK, Decisions
<1>12. CASE ConsiderPeer(h)
  <2>1. PICK p \in decision[h].peers :
          /\ decision' = [decision EXCEPT ![h].peers = @ \ {p}]
          /\ \/ UNCHANGED cooldown
             \/ cooldown' = [cooldown EXCEPT ![ExecKey(p)] = 0 + GateWindow]
    BY <1>12 DEF ConsiderPeer, SlotClaimed
  <2>2. cooldown' \in [Keys -> Nat]
    <3>1. cooldown \in [Keys -> Nat] /\ 0 + GateWindow \in Nat
      BY DEF TypeOK, GateWindow
    <3> QED
      BY <2>1, <3>1
  <2>3. decision[h] \in Decisions
    BY DEF TypeOK
  <2>4. [decision[h] EXCEPT !.peers = @ \ {p}] \in Decisions
    BY <2>3 DEF Decisions
  <2>5. decision' \in [Handlers -> Decisions]
    BY <2>1, <2>4 DEF TypeOK
  <2> QED
    BY <1>12, <2>2, <2>5 DEF ConsiderPeer, TypeOK
<1>13. CASE Recover(h)
  <2>1. store' \subseteq Incidents
    BY <1>13, IncidentTypes, StoreTypes DEF Recover
  <2> QED
    BY <1>13, <2>1, IncidentTypes DEF Recover, SetIncident, TypeOK
<1>14. CASE Exhaust(h)
  <2>1. rollbackLog' \in Seq(Rollback)
    BY <1>10, <1>14 DEF Exhaust
  <2>2. Transition(incident[h], "Failed") \in Incidents
    BY IncidentTypes, TransitionSound DEF States
  <2> QED
    BY <1>14, <2>1, <2>2 DEF Exhaust, SetIncident, TypeOK
<1>15. CASE GiveUp(h)
  <2>1. store' \subseteq Incidents
    BY <1>15, IncidentTypes, StoreTypes DEF GiveUp
  <2> QED
    BY <1>15, <2>1 DEF GiveUp, TypeOK
<1> QED
  BY <1>1, <1>2, <1>3, <1>4, <1>5, <1>6, <1>7, <1>8, <1>9, <1>11, <1>12,
     <1>13, <1>14, <1>15 DEF PipelineStep

\* Time, leadership and restarts keep the types.
LEMMA TypeSurroundings ==
  ASSUME TypeOK,
         WindowEnds \/ OnStartedLeading \/ OnStoppedLeading \/ Restart
           \/ UNCHANGED vars
  PROVE  TypeOK'
<1>1. CASE WindowEnds
  BY <1>1 DEF WindowEnds, TypeOK
<1>2. CASE OnStartedLeading
  BY <1>2 DEF OnStartedLeading, TypeOK, shared
<1>3. CASE OnStoppedLeading
  BY <1>3 DEF OnStoppedLeading, TypeOK, shared
<1>4. CASE Restart
  BY <1>4 DEF Restart, TypeOK, FirstLeadership, NoWindows, HandlerDone,
     PipelineDone
<1>5. CASE UNCHANGED vars
  BY <1>5 DEF vars, shared, TypeOK
<1> QED
  BY <1>1, <1>2, <1>3, <1>4, <1>5

-----------------------------------------------------------------------------
(* The state of the incident, step by step.                                *)

IInv == TypeOK /\ PolicyKnown /\ Handover /\ StateTracksPipeline

\* A step of h leaves the handlers, pipelines and incidents of others alone.
OthersUnmoved(h) ==
  \A g \in Handlers \ {h} : /\ hpc'[g] = hpc[g] /\ ppc'[g] = ppc[g]
                            /\ incident'[g] = incident[g]
                            /\ decision'[g] = decision[g]

\* What the invariant says of one handler and its pipeline.
Local(h) ==
  /\ hpc[h] \in {"decide", "plan"} \/ ppc[h] # "none" => Policy(h) # NoPolicy
  /\ hpc[h] \in {"decide", "plan"} => incident[h].state = "Investigating"
  /\ hpc[h] = "plan" => decision[h].action \in RecoveryActions
  /\ ppc[h] # "none" => /\ hpc[h] \in {"persist", "done", "killed"}
                        /\ decision[h].action \in RecoveryActions
  /\ incident[h].state \in Expected[ppc[h]]

\* The invariant says of each handler, on its own, what Local says.
LEMMA LocalIsEnough ==
  IInv <=> TypeOK /\ \A h \in Handlers : Local(h)
  BY DEF IInv, PolicyKnown, Handover, StateTracksPipeline, Local

\* A step of a handler keeps what the invariant says of it and leaves the
\* others alone: once the pipeline runs, the handler writes the incident it
\* shares with it but does not move it.
LEMMA HandlerLocal ==
  ASSUME TypeOK, NEW h \in Handlers, Local(h), PolicyKnown,
         Deliver(h) \/ SkipAsStandby(h) \/ HandlerStep(h)
  PROVE  Local(h)' /\ OthersUnmoved(h) /\ alert' = alert
<1> USE DEF Goto, SetIncident, Local, OthersUnmoved, Policy
<1>0. ppc[h] = "none" => Expected[ppc[h]] = States
  BY DEF Expected
<1>1. CASE Deliver(h)
  BY <1>1 DEF Deliver, Deliverable, TypeOK, shared
<1>2. CASE SkipAsStandby(h)
  BY <1>2 DEF SkipAsStandby, Deliverable, TypeOK, shared
<1>3. CASE FindIncident(h)
  BY <1>0, <1>3 DEF FindIncident, TypeOK, shared, StoredFor, Incidents
<1>4. CASE FindNothing(h)
  BY <1>4 DEF FindNothing, TypeOK, shared
<1>5. CASE CreateIncident(h)
  BY <1>0, <1>5 DEF CreateIncident, TypeOK, NewIncident, States
<1>6. CASE CreateFails(h)
  BY <1>6 DEF CreateFails, TypeOK, shared
<1>7. CASE ResolveIncident(h)
  <2>1. Closed(incident[h]).state \in States
    BY IncidentTypes DEF Incidents
  <2> QED
    BY <1>0, <1>7, <2>1 DEF ResolveIncident, TypeOK
<1>8. CASE AlreadyResolved(h)
  BY <1>8 DEF AlreadyResolved, TypeOK, shared
<1>9. CASE Refuse(h)
  BY <1>9 DEF Refuse, TypeOK, shared
<1>10. CASE CheckCooldown(h)
  <2>1. Transition(Woken(incident[h]), "Investigating").state = "Investigating"
    BY <1>10, IncidentTypes, TransitionSound DEF CheckCooldown, MayInvestigate, States
  <2>2. "Investigating" \in States
    BY DEF States
  <2>3. \/ hpc'[h] = "persist"
        \/ hpc'[h] = "decide" /\ Policy(h) # NoPolicy
    BY <1>10, ShortCircuitHere DEF CheckCooldown, TypeOK
  <2>4. ppc[h] = "none"
    BY <1>10 DEF CheckCooldown
  <2> QED
    BY <1>0, <1>10, <2>1, <2>2, <2>3, <2>4 DEF CheckCooldown, SetDecision, TypeOK, shared
<1>11. CASE Decide(h)
  <2>1. PICK target \in Services, action \in Actions :
          /\ decision' = [decision EXCEPT ![h] =
               [action |-> action, service |-> target, peers |-> {}]]
          /\ hpc' = [hpc EXCEPT ![h] =
               IF action \in RecoveryActions THEN "plan" ELSE "persist"]
    BY <1>11, DecisionHere
  <2> QED
    BY <1>11, <2>1 DEF Decide, TypeOK, shared
<1>12. CASE PlanRecovery(h)
  <2>1. Planned(incident[h]).state = "RecoveryPlanned"
    <3> DEFINE counted == [incident[h] EXCEPT !.attempts = @ + 1]
    <3>1. incident[h] \in Incidents /\ incident[h].state = "Investigating"
      BY <1>12, IncidentTypes DEF PlanRecovery
    <3>2. counted \in Incidents /\ counted.state = "Investigating"
      BY <3>1 DEF Incidents
    <3> HIDE DEF counted
    <3>3. /\ Transition(counted, "DecisionMade") \in Incidents
          /\ Transition(counted, "DecisionMade").state = "DecisionMade"
      BY <3>2, TransitionSound, TableAllows DEF States
    <3> QED
      BY <3>3, TransitionSound, TableAllows DEF Planned, States, counted
  <2>2. Expected["gate"] = {"RecoveryPlanned"}
    BY DEF Expected
  <2> QED
    BY <1>12, <2>1, <2>2 DEF PlanRecovery, TypeOK, Continue
<1>13. CASE Persist(h)
  <2>1. decision[h].action \in RecoveryActions => Outcome(h) = incident[h]
    BY DEF Outcome, RecoveryActions
  <2>2. Outcome(h).state \in States
    BY IncidentTypes DEF Incidents
  <2> QED
    BY <1>0, <1>13, <2>1, <2>2 DEF Persist, TypeOK
<1> QED
  BY <1>1, <1>2, <1>3, <1>4, <1>5, <1>6, <1>7, <1>8, <1>9, <1>10, <1>11,
     <1>12, <1>13 DEF HandlerStep

\* The state MoveTo leaves behind, where the table allows the move.
LEMMA MoveArrives ==
  ASSUME TypeOK, NEW h \in Handlers, NEW to \in States, MoveTo(h, to),
         IsTransitionAllowed(incident[h].state, to)
  PROVE  /\ incident'[h].state = to
         /\ \A g \in Handlers \ {h} : incident'[g] = incident[g]
  BY IncidentTypes, TransitionSound DEF MoveTo, SetIncident, TypeOK

\* A step of a pipeline takes its incident to the state the next step expects
\* and leaves the others alone.
LEMMA PipelineLocal ==
  ASSUME TypeOK, NEW h \in Handlers, Local(h), PipelineStep(h)
  PROVE  Local(h)' /\ OthersUnmoved(h) /\ alert' = alert
<1> USE DEF Continue, Local, OthersUnmoved, Policy
<1>0. /\ Expected["gate"] = {"RecoveryPlanned"}
      /\ Expected["suppress"] = {"RecoveryPlanned"}
      /\ Expected["suppressed"] = {"Waiting"}
      /\ Expected["execute"] = {"RecoveryPlanned"}
      /\ Expected["rollback"] = {"ExecutingRollback"}
      /\ Expected["complete"] = {"RollbackComplete"}
      /\ Expected["verify"] = {"Verifying"}
      /\ Expected["retry"] = {"ExecutingRollback", "VerificationFailed"}
      /\ Expected["backoff"] = {"Retrying"}
      /\ Expected["peers"] = {"Verifying"}
      /\ Expected["recovered"] = {"Healthy"}
      /\ Expected["exhausted"] = {"ExecutingRollback", "VerificationFailed"}
      /\ Expected["giveup"] = {"Failed"}
      /\ Expected["failed"] = {"Failed"}
  BY DEF Expected
<1>1. CASE ClaimSlot(h)
  BY <1>0, <1>1 DEF ClaimSlot, TypeOK
<1>2. CASE SlotIsTaken(h)
  BY <1>0, <1>2 DEF SlotIsTaken, TypeOK, shared
<1>3. CASE Suppress(h)
  <2>1. incident[h].state = "RecoveryPlanned"
    BY <1>0, <1>3 DEF Suppress
  <2>2. /\ incident'[h].state = "Waiting"
        /\ \A g \in Handlers \ {h} : incident'[g] = incident[g]
    BY <1>3, <2>1, MoveArrives, TableAllows DEF Suppress, States
  <2> QED
    BY <1>0, <1>3, <2>2 DEF Suppress, TypeOK
<1>4. CASE BeginRollback(h)
  <2>1. incident[h].state \in {"RecoveryPlanned", "Retrying"}
    BY <1>0, <1>4 DEF BeginRollback
  <2>2. Transition(incident[h], "ExecutingRollback").state = "ExecutingRollback"
    BY <2>1, IncidentTypes, TransitionSound, TableAllows DEF States
  <2> QED
    BY <1>0, <1>4, <2>2 DEF BeginRollback, SetIncident, TypeOK, shared
<1>5. CASE RollbackDone(h)
  <2>1. incident[h].state = "ExecutingRollback"
    BY <1>0, <1>5 DEF RollbackDone
  <2>2. /\ incident'[h].state = "RollbackComplete"
        /\ \A g \in Handlers \ {h} : incident'[g] = incident[g]
    BY <1>5, <2>1, MoveArrives, TableAllows DEF RollbackDone, States
  <2> QED
    BY <1>0, <1>5, <2>2 DEF RollbackDone, TypeOK
<1>6. CASE RollbackFailed(h)
  BY <1>0, <1>6 DEF RollbackFailed, TypeOK
<1>7. CASE StartVerifying(h)
  <2>1. incident[h].state = "RollbackComplete"
    BY <1>0, <1>7 DEF StartVerifying
  <2>2. /\ incident'[h].state = "Verifying"
        /\ \A g \in Handlers \ {h} : incident'[g] = incident[g]
    BY <1>7, <2>1, MoveArrives, TableAllows DEF StartVerifying, States
  <2> QED
    BY <1>0, <1>7, <2>2 DEF StartVerifying, TypeOK
<1>8. CASE VerificationFailed(h)
  <2>1. incident[h].state = "Verifying"
    BY <1>0, <1>8 DEF VerificationFailed
  <2>2. /\ incident'[h].state = "VerificationFailed"
        /\ \A g \in Handlers \ {h} : incident'[g] = incident[g]
    BY <1>8, <2>1, MoveArrives, TableAllows DEF VerificationFailed, States
  <2> QED
    BY <1>0, <1>8, <2>2 DEF VerificationFailed, TypeOK
<1>9. CASE Retry(h)
  <2>1. incident[h].state \in {"ExecutingRollback", "VerificationFailed"}
    BY <1>0, <1>9 DEF Retry
  <2>2. /\ incident'[h].state = "Retrying"
        /\ \A g \in Handlers \ {h} : incident'[g] = incident[g]
    BY <1>9, <2>1, MoveArrives, TableAllows DEF Retry, States
  <2> QED
    BY <1>0, <1>9, <2>2 DEF Retry, TypeOK
<1>10. CASE Verified(h)
  BY <1>0, <1>10 DEF Verified, TypeOK, Decisions
<1>11. CASE ConsiderPeer(h)
  <2>1. decision[h] \in Decisions
    BY DEF TypeOK
  <2>2. /\ decision'[h].action = decision[h].action
        /\ \A g \in Handlers \ {h} : decision'[g] = decision[g]
    BY <1>11, <2>1 DEF ConsiderPeer, TypeOK, Decisions
  <2> QED
    BY <1>0, <1>11, <2>2 DEF ConsiderPeer, TypeOK
<1>12. CASE Recover(h)
  <2>1. incident[h] \in Incidents /\ incident[h].state = "Verifying"
    BY <1>0, <1>12, IncidentTypes DEF Recover
  <2>2. /\ Transition(incident[h], "Recovered") \in Incidents
        /\ Transition(incident[h], "Recovered").state = "Recovered"
    BY <2>1, TransitionSound, TableAllows DEF States
  <2>3. /\ Transition(Transition(incident[h], "Recovered"), "Healthy") \in Incidents
        /\ Transition(Transition(incident[h], "Recovered"), "Healthy").state = "Healthy"
    BY <2>2, TransitionSound, TableAllows DEF States
  <2>4. Archived(incident[h]).state = "Healthy"
    BY <2>3 DEF Archived, Incidents
  <2> QED
    BY <1>0, <1>12, <2>4 DEF Recover, SetIncident, TypeOK
<1>13. CASE Exhaust(h)
  <2>1. incident[h].state \in {"ExecutingRollback", "VerificationFailed"}
    BY <1>0, <1>13 DEF Exhaust
  <2>2. Transition(incident[h], "Failed").state = "Failed"
    BY <2>1, IncidentTypes, TransitionSound, TableAllows DEF States
  <2> QED
    BY <1>0, <1>13, <2>2 DEF Exhaust, SetIncident, TypeOK
<1>14. CASE GiveUp(h)
  BY <1>0, <1>14 DEF GiveUp, TypeOK
<1> QED
  BY <1>1, <1>2, <1>3, <1>4, <1>5, <1>6, <1>7, <1>8, <1>9, <1>10, <1>11,
     <1>12, <1>13, <1>14 DEF PipelineStep

\* Time, leadership and restarts move no incident.
LEMMA SurroundingsLocal ==
  ASSUME TypeOK, NEW h \in Handlers, Local(h),
         WindowEnds \/ OnStartedLeading \/ OnStoppedLeading \/ Restart
           \/ UNCHANGED vars
  PROVE  Local(h)'
<1> USE DEF Local, Policy
<1>1. CASE WindowEnds
  BY <1>1 DEF WindowEnds
<1>2. CASE OnStartedLeading
  BY <1>2 DEF OnStartedLeading, shared
<1>3. CASE OnStoppedLeading
  BY <1>3 DEF OnStoppedLeading, shared
<1>4. CASE Restart
  <2>1. incident[h].state \in States
    BY IncidentTypes DEF Incidents
  <2> QED
    BY <1>4, <2>1 DEF Restart, HandlerDone, PipelineDone, Expected
<1>5. CASE UNCHANGED vars
  BY <1>5 DEF vars, shared
<1> QED
  BY <1>1, <1>2, <1>3, <1>4, <1>5

\* The invariant holds at the start, when nothing has been delivered.
LEMMA IInvInit == Init => IInv
<1> SUFFICES ASSUME Init PROVE IInv
  OBVIOUS
<1>1. ASSUME NEW h \in Handlers PROVE Local(h)
  BY DEF Init, Local, NewIncident, Expected, States
<1> QED
  BY <1>1, TypeInit, LocalIsEnough

\* Every step keeps the invariant: the one that steps by the lemmas of its
\* kind, the others because they are left alone.
LEMMA IInvNext == IInv /\ [Next]_vars => IInv'
<1> SUFFICES ASSUME IInv, [Next]_vars PROVE IInv'
  OBVIOUS
<1>1. TypeOK /\ PolicyKnown /\ \A h \in Handlers : Local(h)
  BY LocalIsEnough DEF IInv
<1>2. ASSUME NEW g \in Handlers,
             Deliver(g) \/ SkipAsStandby(g) \/ HandlerStep(g) \/ PipelineStep(g)
      PROVE  TypeOK' /\ \A h \in Handlers : Local(h)'
  <2>1. TypeOK'
    BY <1>1, <1>2, TypeHandler, TypePipeline
  <2>2. Local(g)' /\ OthersUnmoved(g) /\ alert' = alert
    BY <1>1, <1>2, HandlerLocal, PipelineLocal
  <2>3. ASSUME NEW h \in Handlers, h # g PROVE Local(h)'
    BY <1>1, <2>2, <2>3 DEF OthersUnmoved, Local, Policy
  <2> QED
    BY <2>1, <2>2, <2>3
<1>3. ASSUME \/ WindowEnds \/ OnStartedLeading \/ OnStoppedLeading \/ Restart
             \/ UNCHANGED vars
      PROVE  TypeOK' /\ \A h \in Handlers : Local(h)'
  <2>1. TypeOK'
    BY <1>1, <1>3, TypeSurroundings
  <2>2. ASSUME NEW h \in Handlers PROVE Local(h)'
    BY <1>1, <1>3, SurroundingsLocal
  <2> QED
    BY <2>1, <2>2
<1>4. TypeOK' /\ (\A h \in Handlers : Local(h)') => IInv'
  BY DEF IInv, PolicyKnown, Handover, StateTracksPipeline, Local
<1> QED
  BY <1>2, <1>3, <1>4 DEF Next

\* The stores, the cooldown map, the gauge, the incidents and the control
\* points of every goroutine keep their types.
THEOREM TypeCorrect == Spec => []TypeOK
<1>1. IInv => TypeOK
  BY DEF IInv
<1> QED
  BY <1>1, IInvInit, IInvNext, PTL DEF Spec

\* No Transition a pipeline asks for is refused: at each step its incident is
\* in the state of the step before, whatever the handlers of other deliveries
\* do to their copies (manager.go:299-547, state/machine.go:82-145).
THEOREM PipelineOwnsItsIncident == Spec => []StateTracksPipeline
<1>1. IInv => StateTracksPipeline
  BY DEF IInv
<1> QED
  BY <1>1, IInvInit, IInvNext, PTL DEF Spec

-----------------------------------------------------------------------------
(* What the helpers do to the fields of an incident.                       *)

\* Same incident, same alert, so many more recoveries.
SameBut(i, j, more) ==
  /\ i \in Incidents
  /\ i.id = j.id /\ i.fp = j.fp /\ i.attempts = j.attempts + more

\* Whatever a handler or a pipeline makes of its incident, it stays that
\* incident; only a plan counts a recovery, only a resolution or a verified
\* recovery closes it.
LEMMA IncidentFields ==
  ASSUME TypeOK, NEW h \in Handlers
  PROVE  LET i == incident[h]
             woken == Transition(Woken(i), "Investigating")
         IN  /\ SameBut(i, i, 0)
             /\ SameBut(Closed(i), i, 0) /\ Closed(i).status = "resolved"
             /\ SameBut(woken, i, 0) /\ woken.status = i.status
             /\ SameBut(Planned(i), i, 1) /\ Planned(i).status = i.status
             /\ SameBut(Archived(i), i, 0) /\ Archived(i).status = "resolved"
             /\ SameBut(Outcome(h), i, 0) /\ Outcome(h).status = i.status
             /\ \A to \in States : /\ SameBut(Transition(i, to), i, 0)
                                   /\ Transition(i, to).status = i.status
<1> DEFINE i == incident[h]
           resolved == [i EXCEPT !.status = "resolved"]
           counted == [i EXCEPT !.attempts = @ + 1]
<1>1. i \in Incidents /\ i.attempts \in Nat
  BY DEF TypeOK, Incidents
<1>2. SameBut(resolved, i, 0) /\ resolved.status = "resolved"
  BY <1>1 DEF Incidents, SameBut
<1>3. SameBut(counted, i, 1) /\ counted.status = i.status
  BY <1>1 DEF Incidents, SameBut
<1>4. {"Recovered", "Healthy", "Warning", "DecisionMade", "RecoveryPlanned",
       "Waiting", "Failed", "Investigating"} \subseteq States
  BY DEF States
<1> HIDE DEF i, resolved, counted
<1>5. ASSUME NEW n \in Nat, NEW j, SameBut(j, i, n), NEW to \in States
      PROVE  SameBut(Transition(j, to), i, n) /\ Transition(j, to).status = j.status
  BY <1>5, TransitionSound DEF SameBut
<1>6. SameBut(i, i, 0)
  BY <1>1 DEF SameBut
<1>7. SameBut(Closed(i), i, 0) /\ Closed(i).status = "resolved"
  BY <1>2, <1>4, <1>5 DEF Closed, resolved
<1>8. SameBut(Woken(i), i, 0) /\ Woken(i).status = i.status
  BY <1>4, <1>5, <1>6 DEF Woken
<1>9. /\ SameBut(Transition(Woken(i), "Investigating"), i, 0)
      /\ Transition(Woken(i), "Investigating").status = i.status
  BY <1>4, <1>5, <1>8
<1>10. SameBut(Planned(i), i, 1) /\ Planned(i).status = i.status
  <2> DEFINE decided == Transition(counted, "DecisionMade")
  <2>1. SameBut(decided, i, 1) /\ decided.status = i.status
    BY <1>3, <1>4, <1>5
  <2>2. Planned(i) = Transition(decided, "RecoveryPlanned")
    BY DEF Planned, counted
  <2> HIDE DEF decided
  <2>3. /\ SameBut(Transition(decided, "RecoveryPlanned"), i, 1)
        /\ Transition(decided, "RecoveryPlanned").status = decided.status
    BY <2>1, <1>4, <1>5
  <2> QED
    BY <2>1, <2>2, <2>3
<1>11. SameBut(Archived(i), i, 0) /\ Archived(i).status = "resolved"
  <2>1. SameBut(Transition(Transition(i, "Recovered"), "Healthy"), i, 0)
    BY <1>4, <1>5, <1>6
  <2> QED
    BY <2>1 DEF Archived, SameBut, Incidents
<1>12. SameBut(Outcome(h), i, 0) /\ Outcome(h).status = i.status
  <2>1. decision[h].action \in Actions
    BY DEF TypeOK, Decisions
  <2> DEFINE decided == Transition(i, "DecisionMade")
  <2>2. SameBut(decided, i, 0) /\ decided.status = i.status
    BY <1>4, <1>5, <1>6
  <2>3. /\ SameBut(Transition(decided, "Waiting"), i, 0)
        /\ Transition(decided, "Waiting").status = i.status
        /\ SameBut(Transition(decided, "Failed"), i, 0)
        /\ Transition(decided, "Failed").status = i.status
    BY <1>4, <1>5, <2>2
  <2> QED
    BY <1>6, <2>1, <2>2, <2>3 DEF Outcome, Actions, RecoveryActions, i
<1> QED
  BY <1>5, <1>6, <1>7, <1>9, <1>10, <1>11, <1>12 DEF i

\* One step, as the accounting sees it: who moves, what becomes of its
\* incident, and whether the store is told.
Writes(h, i) ==
  /\ incident' = [incident EXCEPT ![h] = i]
  /\ store' \in {store, Updated(i)}

\* The five ways in which a handler's step touches store, record and gauge.
LEMMA HandlerWrites ==
  ASSUME TypeOK, NEW h \in Handlers, HandlerStep(h)
  PROVE  \/ FindIncident(h) \/ CreateIncident(h)
         \/ /\ PlanRecovery(h) /\ Writes(h, Planned(incident[h]))
            /\ UNCHANGED <<store, activeIncidents>>
         \/ /\ ResolveIncident(h) /\ Writes(h, Closed(incident[h]))
            /\ activeIncidents' = activeIncidents - 1
         \/ /\ UNCHANGED activeIncidents
            /\ hpc'[h] # "plan" \/ hpc[h] = "decide"
            /\ \E i : /\ SameBut(i, incident[h], 0)
                      /\ i.status = incident[h].status
                      /\ Writes(h, i)
<1> USE DEF Writes, Goto, SetIncident
<1>0. SameBut(incident[h], incident[h], 0)
  BY IncidentFields
<1>1. CASE FindNothing(h) \/ CreateFails(h) \/ AlreadyResolved(h) \/ Refuse(h)
             \/ Decide(h)
  BY <1>0, <1>1 DEF FindNothing, CreateFails, AlreadyResolved, Refuse, Decide,
     TypeOK, shared
<1>2. CASE PlanRecovery(h)
  BY <1>2 DEF PlanRecovery
<1>3. CASE ResolveIncident(h)
  BY <1>3 DEF ResolveIncident, Save
<1>4. CASE CheckCooldown(h)
  BY <1>4, IncidentFields DEF CheckCooldown, TypeOK, shared
<1>5. CASE Persist(h)
  BY <1>5, IncidentFields DEF Persist, Save, TypeOK
<1> QED
  BY <1>1, <1>2, <1>3, <1>4, <1>5 DEF HandlerStep

\* A pipeline's step writes its own incident back with nothing counted; only
\* the one that recovers moves the gauge.
LEMMA PipelineWrites ==
  ASSUME TypeOK, NEW h \in Handlers, PipelineStep(h)
  PROVE  /\ hpc' = hpc /\ alert' = alert
         /\ \/ /\ Recover(h) /\ Writes(h, Archived(incident[h]))
               /\ activeIncidents' = activeIncidents - 1
            \/ /\ UNCHANGED activeIncidents
               /\ \E i : /\ SameBut(i, incident[h], 0)
                         /\ i.status = incident[h].status
                         /\ Writes(h, i)
<1> USE DEF Writes, SetIncident
<1>0. /\ SameBut(incident[h], incident[h], 0)
      /\ incident = [incident EXCEPT ![h] = incident[h]]
      /\ \A to \in States : /\ SameBut(Transition(incident[h], to), incident[h], 0)
                            /\ Transition(incident[h], to).status = incident[h].status
  BY IncidentFields DEF TypeOK
<1>1. CASE ClaimSlot(h) \/ SlotIsTaken(h) \/ Verified(h) \/ ConsiderPeer(h)
  BY <1>0, <1>1 DEF ClaimSlot, SlotIsTaken, Verified, ConsiderPeer, shared
<1>2. CASE RollbackFailed(h) \/ GiveUp(h)
  BY <1>0, <1>2 DEF RollbackFailed, GiveUp, Save
<1>3. CASE BeginRollback(h) \/ Exhaust(h)
  BY <1>0, <1>3 DEF BeginRollback, Exhaust, shared, States
<1>4. ASSUME NEW to \in States, MoveTo(h, to)
      PROVE  \E i : /\ SameBut(i, incident[h], 0)
                    /\ i.status = incident[h].status
                    /\ Writes(h, i)
  BY <1>0, <1>4 DEF MoveTo, Save
<1>5. CASE Suppress(h) \/ RollbackDone(h) \/ StartVerifying(h)
             \/ VerificationFailed(h) \/ Retry(h)
  BY <1>4, <1>5 DEF Suppress, RollbackDone, StartVerifying, VerificationFailed,
     Retry, States
<1>6. CASE Recover(h)
  BY <1>6 DEF Recover, Save
<1> QED
  BY <1>1, <1>2, <1>3, <1>5, <1>6 DEF PipelineStep

-----------------------------------------------------------------------------
(* Recoveries and attempts against the policy.                             *)

Allowance(fp) == IF AlertOf[fp].policy = NoPolicy THEN 0
                 ELSE AlertOf[fp].policy.maxRetries
Sane(i) == i.attempts <= Allowance(i.fp)

\* A handler that gets as far as a decision has a recovery left; a pipeline
\* that is to try again has an attempt left.
AttemptsOf(h) ==
  /\ incident[h].fp = alert[h].fp
  /\ Sane(incident[h])
  /\ hpc[h] \in {"decide", "plan"} => incident[h].attempts < Policy(h).maxRetries
  /\ ppc[h] \in {"none", "gate", "suppress", "execute"} => attempt[h] = 0
  /\ ppc[h] \in {"retry", "backoff"} => attempt[h] < Policy(h).maxRetries
  /\ ppc[h] # "none" => attempt[h] <= Policy(h).maxRetries

AInv == /\ IInv
        /\ \A i \in store : Sane(i)
        /\ \A h \in Handlers : AttemptsOf(h)

\* An incident that keeps its alert and its count stays within the allowance.
LEMMA SaneStays ==
  ASSUME NEW i, NEW j \in Incidents, Sane(j), SameBut(i, j, 0)
  PROVE  Sane(i)
<1>1. j.attempts \in Nat
  BY DEF Incidents
<1> QED
  BY <1>1 DEF Sane, SameBut

\* A plan stays within it because it is made with a recovery left.
LEMMA PlannedIsSane ==
  ASSUME AInv, NEW h \in Handlers, hpc[h] = "plan"
  PROVE  Sane(Planned(incident[h]))
<1>1. /\ Policy(h) # NoPolicy /\ Policy(h).maxRetries \in Nat
      /\ incident[h].attempts \in Nat
      /\ incident[h].fp = alert[h].fp
      /\ incident[h].attempts < Policy(h).maxRetries
  BY AlertTypes DEF AInv, IInv, PolicyKnown, TypeOK, Incidents, AttemptsOf
<1>2. SameBut(Planned(incident[h]), incident[h], 1)
  BY IncidentFields DEF AInv, IInv
<1> QED
  BY <1>1, <1>2 DEF Sane, Allowance, SameBut, Policy

\* Writing an incident within its allowance leaves the store within it.
LEMMA StoreStaysSane ==
  ASSUME AInv, NEW h \in Handlers, NEW i, Sane(i), Writes(h, i)
  PROVE  \A j \in store' : Sane(j)
  BY DEF AInv, Writes, Updated

\* A handler keeps every copy of an incident within its allowance: the count
\* rises in a plan only, which a check of the same record came before.
LEMMA HandlerAttempts ==
  ASSUME AInv, NEW h \in Handlers,
         Deliver(h) \/ SkipAsStandby(h) \/ HandlerStep(h)
  PROVE  (\A i \in store' : Sane(i)) /\ AttemptsOf(h)'
<1>0. TypeOK /\ Local(h) /\ AttemptsOf(h) /\ incident[h] \in Incidents
  BY LocalIsEnough, IncidentTypes DEF AInv, IInv
<1>1. alert' = alert /\ attempt' = attempt
  BY DEF Deliver, SkipAsStandby, HandlerStep, FindIncident, FindNothing,
     CreateIncident, CreateFails, ResolveIncident, AlreadyResolved, Refuse,
     CheckCooldown, Decide, PlanRecovery, Persist
<1>2. CASE Deliver(h) \/ SkipAsStandby(h)
  <2>1. hpc'[h] \in {"lookup", "skipped"} /\ UNCHANGED <<store, incident, ppc>>
    BY <1>0, <1>2 DEF Deliver, SkipAsStandby, Goto, TypeOK, shared
  <2> QED
    BY <1>0, <1>1, <2>1 DEF AInv, AttemptsOf, Sane, Policy
<1>3. CASE FindIncident(h)
  <2>1. /\ incident'[h] \in store /\ incident'[h].fp = alert[h].fp
        /\ hpc'[h] \in {"evaluate", "resolve"} /\ UNCHANGED <<store, ppc>>
    BY <1>0, <1>3 DEF FindIncident, StoredFor, SetIncident, Goto, TypeOK, shared
  <2> QED
    BY <1>0, <1>1, <2>1 DEF AInv, AttemptsOf, Sane, Policy
<1>4. CASE CreateIncident(h)
  <2> DEFINE new == NewIncident(h, alert[h].fp)
  <2>1. /\ incident'[h] = new /\ store' = store \cup {new}
        /\ hpc'[h] = "evaluate" /\ UNCHANGED ppc
    BY <1>0, <1>4 DEF CreateIncident, SetIncident, Goto, TypeOK
  <2>2. Allowance(alert[h].fp) >= 0
    BY <1>0, AlertTypes DEF Allowance, Policy
  <2>3. Sane(new) /\ new.fp = alert[h].fp
    BY <2>2 DEF NewIncident, Sane
  <2> HIDE DEF new
  <2> QED
    BY <1>0, <1>1, <2>1, <2>3 DEF AInv, AttemptsOf, Sane, Policy
<1>5. CASE CheckCooldown(h)
  <2> DEFINE i == Transition(Woken(incident[h]), "Investigating")
  <2>1. SameBut(i, incident[h], 0)
    BY <1>0, IncidentFields
  <2>2. incident'[h] = i /\ UNCHANGED <<store, ppc>>
    BY <1>0, <1>5 DEF CheckCooldown, SetIncident, TypeOK, shared
  <2>3. \/ hpc'[h] = "persist"
        \/ hpc'[h] = "decide" /\ incident[h].attempts < Policy(h).maxRetries
    BY <1>0, <1>5, ShortCircuitHere DEF CheckCooldown, Goto, TypeOK
  <2>4. Sane(i) /\ i.fp = incident[h].fp /\ i.attempts = incident[h].attempts
    BY <1>0, <2>1, SaneStays DEF AttemptsOf, SameBut, Incidents
  <2> HIDE DEF i
  <2> QED
    BY <1>0, <1>1, <2>2, <2>3, <2>4 DEF AInv, AttemptsOf, Sane, Policy
<1>6. CASE PlanRecovery(h)
  <2> DEFINE i == Planned(incident[h])
  <2>1. Sane(i) /\ i.fp = incident[h].fp
    BY <1>0, <1>6, PlannedIsSane, IncidentFields DEF PlanRecovery, SameBut
  <2>2. /\ incident'[h] = i /\ UNCHANGED store
        /\ hpc'[h] = "persist" /\ ppc[h] = "none" /\ ppc'[h] = "gate"
    BY <1>0, <1>6 DEF PlanRecovery, SetIncident, Goto, Continue, TypeOK, Local
  <2>3. Policy(h) # NoPolicy /\ Policy(h).maxRetries >= 0
    BY <1>0, <1>6, AlertTypes DEF PlanRecovery, Local
  <2> HIDE DEF i
  <2> QED
    BY <1>0, <1>1, <2>1, <2>2, <2>3 DEF AInv, AttemptsOf, Sane, Policy
<1>7. CASE ResolveIncident(h) \/ Persist(h)
  <2>1. PICK i : SameBut(i, incident[h], 0) /\ Writes(h, i)
    BY <1>0, <1>7, IncidentFields
       DEF ResolveIncident, Persist, Writes, SetIncident, Save
  <2>2. Sane(i) /\ i.fp = incident[h].fp
    BY <1>0, <2>1, SaneStays DEF AttemptsOf, SameBut
  <2>3. \A j \in store' : Sane(j)
    BY <2>1, <2>2, StoreStaysSane
  <2>4. hpc'[h] = "done" /\ incident'[h] = i /\ UNCHANGED ppc
    BY <1>0, <1>7, <2>1 DEF ResolveIncident, Persist, Writes, Goto, TypeOK
  <2> QED
    BY <1>0, <1>1, <2>2, <2>3, <2>4 DEF AttemptsOf, Sane, Policy
<1>8. CASE Decide(h)
  <2>1. hpc[h] = "decide" /\ UNCHANGED <<store, incident, ppc>>
    BY <1>8 DEF Decide, shared
  <2> QED
    BY <1>0, <1>1, <2>1 DEF AInv, AttemptsOf, Sane, Policy
<1>9. CASE FindNothing(h) \/ CreateFails(h) \/ AlreadyResolved(h) \/ Refuse(h)
  <2>1. /\ hpc'[h] \in {"create", "ignored", "dropped", "refused"}
        /\ UNCHANGED <<store, incident, ppc>>
    BY <1>0, <1>9 DEF FindNothing, CreateFails, AlreadyResolved, Refuse, Goto,
       TypeOK, shared
  <2> QED
    BY <1>0, <1>1, <2>1 DEF AInv, AttemptsOf, Sane, Policy
<1> QED
  BY <1>2, <1>3, <1>4, <1>5, <1>6, <1>7, <1>8, <1>9 DEF HandlerStep

\* The pipeline's own counter: 0 until it first executes, one more for each
\* execution, and no back-off without an attempt left.
LEMMA PipelineCounter ==
  ASSUME AInv, NEW h \in Handlers, PipelineStep(h)
  PROVE  /\ ppc'[h] # "none"
         /\ ppc'[h] \in {"gate", "suppress", "execute"} => attempt'[h] = 0
         /\ ppc'[h] \in {"retry", "backoff"} => attempt'[h] < Policy(h).maxRetries
         /\ attempt'[h] <= Policy(h).maxRetries
<1> USE DEF Continue, AttemptsLeft
<1>1. /\ ppc[h] # "none" /\ TypeOK /\ AttemptsOf(h)
      /\ attempt[h] \in Nat
  BY DEF PipelineStep, ClaimSlot, SlotIsTaken, Suppress, BeginRollback,
     RollbackDone, RollbackFailed, StartVerifying, VerificationFailed, Retry,
     Verified, ConsiderPeer, Recover, Exhaust, GiveUp, AInv, IInv, TypeOK
<1>2. Policy(h).maxRetries \in Nat /\ Policy(h).maxRetries > 0
  BY <1>1, AlertTypes DEF AInv, IInv, PolicyKnown
<1>3. CASE BeginRollback(h)
  <2>1. attempt[h] < Policy(h).maxRetries
    BY <1>1, <1>2, <1>3 DEF BeginRollback, AttemptsOf
  <2>2. attempt'[h] = attempt[h] + 1 /\ ppc'[h] = "rollback"
    BY <1>1, <1>3 DEF BeginRollback, TypeOK
  <2> QED
    BY <1>1, <1>2, <2>1, <2>2
<1>4. CASE ClaimSlot(h) \/ SlotIsTaken(h) \/ Suppress(h) \/ RollbackDone(h)
             \/ StartVerifying(h) \/ Verified(h) \/ ConsiderPeer(h) \/ Recover(h)
             \/ Exhaust(h) \/ GiveUp(h)
  <2>1. attempt' = attempt
    BY <1>4 DEF ClaimSlot, SlotIsTaken, Suppress, RollbackDone, StartVerifying,
       Verified, ConsiderPeer, Recover, Exhaust, GiveUp
  <2>2. /\ ppc'[h] \in {"execute", "suppress", "suppressed", "complete", "verify",
                        "peers", "recovered", "giveup", "failed"}
        /\ ppc'[h] \in {"execute", "suppress"} => ppc[h] = "gate"
    BY <1>1, <1>4 DEF ClaimSlot, SlotIsTaken, Suppress, RollbackDone,
       StartVerifying, Verified, ConsiderPeer, Recover, Exhaust, GiveUp, TypeOK
  <2> QED
    BY <1>1, <2>1, <2>2 DEF AttemptsOf
<1>5. CASE RollbackFailed(h) \/ VerificationFailed(h)
  <2>1. /\ attempt' = attempt
        /\ \/ ppc'[h] = "exhausted"
           \/ ppc'[h] = "retry" /\ attempt[h] < Policy(h).maxRetries
    BY <1>1, <1>5 DEF RollbackFailed, VerificationFailed, TypeOK
  <2> QED
    BY <1>1, <2>1 DEF AttemptsOf
<1>6. CASE Retry(h)
  <2>1. attempt' = attempt /\ ppc[h] = "retry" /\ ppc'[h] = "backoff"
    BY <1>1, <1>6 DEF Retry, TypeOK
  <2> QED
    BY <1>1, <2>1 DEF AttemptsOf
<1> QED
  BY <1>3, <1>4, <1>5, <1>6 DEF PipelineStep

\* A pipeline keeps every copy of an incident, and its own counter, within
\* their bounds.
LEMMA PipelineAttempts ==
  ASSUME AInv, NEW h \in Handlers, PipelineStep(h)
  PROVE  (\A i \in store' : Sane(i)) /\ AttemptsOf(h)'
<1>0. TypeOK /\ Local(h) /\ AttemptsOf(h) /\ incident[h] \in Incidents
  BY LocalIsEnough, IncidentTypes DEF AInv, IInv
<1>1. PICK i : SameBut(i, incident[h], 0) /\ Writes(h, i)
  BY <1>0, PipelineWrites, IncidentFields
<1>2. Sane(i) /\ i.fp = incident[h].fp /\ i.attempts = incident[h].attempts
  BY <1>0, <1>1, SaneStays DEF AttemptsOf, SameBut, Incidents
<1>3. \A j \in store' : Sane(j)
  BY <1>1, <1>2, StoreStaysSane
<1>4. incident'[h] = i
  BY <1>0, <1>1 DEF Writes, TypeOK
<1>5. hpc' = hpc /\ alert' = alert
  BY <1>0, PipelineWrites
<1> QED
  BY <1>0, <1>2, <1>3, <1>4, <1>5, PipelineCounter DEF AttemptsOf, Sane, Policy

\* The counts of the handlers that do not step are left alone.
LEMMA OthersAttempts ==
  ASSUME AInv, NEW h \in Handlers, NEW g \in Handlers, g # h,
         Deliver(h) \/ SkipAsStandby(h) \/ HandlerStep(h) \/ PipelineStep(h)
  PROVE  AttemptsOf(g)'
<1>1. OthersUnmoved(h) /\ alert' = alert
  BY LocalIsEnough, HandlerLocal, PipelineLocal DEF AInv, IInv
<1>2. attempt'[g] = attempt[g]
  <2>1. CASE BeginRollback(h)
    BY <2>1 DEF BeginRollback, AInv, IInv, TypeOK
  <2>2. CASE ~BeginRollback(h)
    BY <2>2 DEF Deliver, SkipAsStandby, HandlerStep, FindIncident, FindNothing,
       CreateIncident, CreateFails, ResolveIncident, AlreadyResolved, Refuse,
       CheckCooldown, Decide, PlanRecovery, Persist, PipelineStep, ClaimSlot,
       SlotIsTaken, Suppress, RollbackDone, RollbackFailed, StartVerifying,
       VerificationFailed, Retry, Verified, ConsiderPeer, Recover, Exhaust, GiveUp
  <2> QED
    BY <2>1, <2>2
<1> QED
  BY <1>1, <1>2 DEF AInv, AttemptsOf, OthersUnmoved, Sane, Policy

\* Time, leadership and restarts count nothing.
LEMMA SurroundingsAttempts ==
  ASSUME AInv, WindowEnds \/ OnStartedLeading \/ OnStoppedLeading \/ Restart
                 \/ UNCHANGED vars
  PROVE  /\ \A i \in store' : Sane(i)
         /\ \A h \in Handlers : AttemptsOf(h)'
<1> USE DEF AInv, AttemptsOf, Sane, Policy
<1>1. CASE WindowEnds
  BY <1>1 DEF WindowEnds
<1>2. CASE OnStartedLeading \/ OnStoppedLeading
  BY <1>2 DEF OnStartedLeading, OnStoppedLeading, shared
<1>3. CASE Restart
  BY <1>3 DEF Restart, HandlerDone, PipelineDone
<1>4. CASE UNCHANGED vars
  BY <1>4 DEF vars, shared
<1> QED
  BY <1>1, <1>2, <1>3, <1>4

\* No recovery has been counted at the start.
LEMMA AInvInit == Init => AInv
<1> SUFFICES ASSUME Init PROVE AInv
  OBVIOUS
<1>1. ASSUME NEW h \in Handlers PROVE AttemptsOf(h)
  <2>1. alert[h].fp \in Fingerprints
    BY DEF Init
  <2>2. AlertOf[alert[h].fp].policy \in Policies \cup {NoPolicy}
    BY <2>1, AlertAssumption
  <2>3. Allowance(alert[h].fp) >= 0
    BY <2>2 DEF Allowance, Policies
  <2> QED
    BY <2>3 DEF Init, AttemptsOf, NewIncident, Sane
<1>2. IInv /\ store = {}
  BY IInvInit DEF Init
<1> QED
  BY <1>1, <1>2 DEF AInv

\* Every step keeps the counts within their bounds.
LEMMA AInvNext == AInv /\ [Next]_vars => AInv'
<1> SUFFICES ASSUME AInv, [Next]_vars PROVE AInv'
  OBVIOUS
<1>1. IInv'
  BY IInvNext DEF AInv
<1>2. (\A i \in store' : Sane(i)) /\ \A h \in Handlers : AttemptsOf(h)'
  BY HandlerAttempts, PipelineAttempts, OthersAttempts, SurroundingsAttempts
     DEF Next
<1> QED
  BY <1>1, <1>2 DEF AInv, Sane

\* RecoveryAttempts never passes the policy's bound in any copy of an
\* incident, and no pipeline tries more often than its policy allows, though
\* stale copies are written back and alerts re-fire (decision/engine.go:97,
\* manager.go:336-345).
THEOREM RecoveriesAreBounded == Spec => []AttemptsBounded
<1>1. ASSUME AInv PROVE AttemptsBounded
  <2>1. ASSUME NEW h \in Handlers, ppc[h] # "none"
        PROVE  Policy(h) # NoPolicy /\ attempt[h] <= Policy(h).maxRetries
    BY <1>1, <2>1 DEF AInv, IInv, PolicyKnown, AttemptsOf
  <2>2. \A h \in Handlers : Sane(incident[h])
    BY <1>1 DEF AInv, AttemptsOf
  <2> QED
    BY <1>1, <2>1, <2>2 DEF AInv, AttemptsBounded, Sane, Allowance
<1> QED
  BY <1>1, AInvInit, AInvNext, PTL DEF Spec

-----------------------------------------------------------------------------
(* Escalation.                                                             *)

\* Two failures at the end of a service's history are seen by the engine if
\* the history is listed oldest first.
LEMMA FailuresAreSeen ==
  ASSUME TypeOK, ~DurableStore, NEW s \in Services, TwoFailures(s)
  PROVE  ConsecutiveFailures(rollbackLog, s, DurableStore) >= 2
<1> DEFINE Of == {i \in DOMAIN rollbackLog : rollbackLog[i].service = s}
           NotAfter(i) == {j \in Of : j >= i}
           Failures == {i \in Of : \A j \in NotAfter(i) : ~rollbackLog[j].success}
<1>1. DOMAIN rollbackLog = 1..Len(rollbackLog) /\ Len(rollbackLog) \in Nat
  BY DEF TypeOK
<1>2. PICK i, j \in Of : /\ i < j
                         /\ \A k \in Of : k <= i \/ k = j
                         /\ ~rollbackLog[i].success /\ ~rollbackLog[j].success
  BY DEF TwoFailures
<1>3. Of \subseteq Nat /\ i # j
  BY <1>1, <1>2
<1>4. i \in Failures /\ j \in Failures
  BY <1>2, <1>3
<1>5. IsFiniteSet(Failures)
  <2>1. IsFiniteSet(DOMAIN rollbackLog)
    BY <1>1, FS_Interval
  <2>2. Failures \in SUBSET DOMAIN rollbackLog
    OBVIOUS
  <2> HIDE DEF Failures
  <2> QED
    BY <2>1, <2>2, FS_Subset
<1>6. {i, j} \in SUBSET Failures
  BY <1>4
<1> HIDE DEF Failures
<1>7. Cardinality({i, j}) = 2
  <2>1. IsFiniteSet({i}) /\ Cardinality({i}) = 1
    BY FS_Singleton
  <2>2. Cardinality({i} \cup {j}) =
          IF j \in {i} THEN Cardinality({i}) ELSE Cardinality({i}) + 1
    BY <2>1, FS_AddElement
  <2>3. {i, j} = {i} \cup {j} /\ j \notin {i}
    BY <1>3
  <2> QED
    BY <2>1, <2>2, <2>3
<1>8. Cardinality({i, j}) <= Cardinality(Failures)
  BY <1>5, <1>6, FS_Subset
<1>9. Cardinality(Failures) \in Nat
  BY <1>5, FS_CardinalityType
<1>10. ConsecutiveFailures(rollbackLog, s, DurableStore) = Cardinality(Failures)
  BY DEF ConsecutiveFailures, Failures
<1> QED
  BY <1>7, <1>8, <1>9, <1>10

\* With the in-memory history no recovery of a service is planned after two
\* failed ones in a row, whatever alert asks for it and whatever other
\* pipelines log meanwhile (decision/engine.go:123-156).  The assumptions
\* are needed: Postgres lists the history newest first, and a history that
\* cannot be read or written counts no failures.
THEOREM EscalationInMemory ==
  ASSUME ~DurableStore, ~StoreMayFail
  PROVE  Spec => EscalatesAfterTwoFailures
<1>1. ASSUME IInv, [Next]_vars, NEW h \in Handlers,
             hpc[h] = "decide", hpc'[h] = "plan"
      PROVE  ~TwoFailures(decision'[h].service)
  <2>1. Decide(h)
    <3>1. ASSUME NEW g \in Handlers,
                 Deliver(g) \/ SkipAsStandby(g) \/ HandlerStep(g) \/ PipelineStep(g)
          PROVE  g = h
      BY <1>1, <3>1, HandlerLocal, PipelineLocal, LocalIsEnough
         DEF IInv, OthersUnmoved
    <3>2. ~(Deliver(h) \/ SkipAsStandby(h) \/ FindIncident(h) \/ FindNothing(h)
              \/ CreateIncident(h) \/ CreateFails(h) \/ ResolveIncident(h)
              \/ AlreadyResolved(h) \/ Refuse(h) \/ CheckCooldown(h)
              \/ PlanRecovery(h) \/ Persist(h))
      BY <1>1 DEF Deliver, SkipAsStandby, Deliverable, FindIncident,
         FindNothing, CreateIncident, CreateFails, ResolveIncident,
         AlreadyResolved, Refuse, CheckCooldown, PlanRecovery, Persist
    <3>3. ~PipelineStep(h)
      BY <1>1, PipelineWrites DEF IInv
    <3>4. ~(WindowEnds \/ OnStartedLeading \/ OnStoppedLeading \/ Restart
              \/ UNCHANGED vars)
      BY <1>1 DEF WindowEnds, OnStartedLeading, OnStoppedLeading, Restart, vars,
         shared, HandlerDone
    <3> QED
      BY <1>1, <3>1, <3>2, <3>3, <3>4 DEF Next, HandlerStep
  <2>2. PICK target \in Services, action \in Actions :
          /\ decision' = [decision EXCEPT ![h] =
               [action |-> action, service |-> target, peers |-> {}]]
          /\ hpc' = [hpc EXCEPT ![h] =
               IF action \in RecoveryActions THEN "plan" ELSE "persist"]
          /\ ~StoreMayFail
             /\ ConsecutiveFailures(rollbackLog, target, DurableStore) >= 2
               => action \notin RecoveryActions
    BY <1>1, <2>1, DecisionHere DEF IInv
  <2>3. decision'[h].service = target /\ action \in RecoveryActions
    BY <1>1, <2>2 DEF IInv, TypeOK
  <2> QED
    BY <1>1, <2>2, <2>3, FailuresAreSeen DEF IInv
<1>2. IInv /\ [Next]_vars =>
        [\A h \in Handlers : hpc[h] = "decide" /\ hpc'[h] = "plan"
                               => ~TwoFailures(decision'[h].service)]_vars
  BY <1>1
<1> QED
  BY <1>2, IInvInit, IInvNext, PTL DEF Spec, EscalatesAfterTwoFailures

-----------------------------------------------------------------------------
(* The gauge of active incidents.                                          *)

\* The stored incidents of which no copy, stored or in use, is resolved: the
\* ones nobody has taken off the gauge yet.
NeverResolved(x) ==
  /\ \A i \in store : i.id = x => i.status = "firing"
  /\ \A g \in Handlers : incident[g].id = x => incident[g].status = "firing"
Uncounted == {x \in Handlers : (\E i \in store : i.id = x) /\ NeverResolved(x)}

\* Nothing carries the name of a handler that has not created its incident.
Unborn(h) == hpc[h] \in {"idle", "lookup", "create"}
NamesAreFresh ==
  \A h \in Handlers : Unborn(h) =>
    /\ incident[h].id = h /\ incident[h].status = "firing"
    /\ \A i \in store : i.id # h
    /\ \A g \in Handlers : incident[g].id = h => g = h

GInv == /\ TypeOK
        /\ NamesAreFresh
        /\ \A i, j \in store : i.id = j.id => i = j
        /\ activeIncidents <= Cardinality(Uncounted)

\* A set of handlers is finite, and counts as much as its part at most.
LEMMA HandlerSets ==
  ASSUME NEW T \in SUBSET Handlers, NEW S \in SUBSET T
  PROVE  /\ IsFiniteSet(S) /\ IsFiniteSet(T)
         /\ Cardinality(S) \in Nat /\ Cardinality(T) \in Nat
         /\ Cardinality(S) <= Cardinality(T)
<1>1. IsFiniteSet(T)
  BY HandlersAssumption, FS_Subset
<1>2. IsFiniteSet(S) /\ Cardinality(S) <= Cardinality(T)
  BY <1>1, FS_Subset
<1> QED
  BY <1>1, <1>2, FS_CardinalityType

\* Writing an incident under its own name keeps the names and the uniqueness.
LEMMA WritesKeepNames ==
  ASSUME GInv, NEW h \in Handlers, NEW i \in Incidents, i.id = incident[h].id,
         Writes(h, i)
  PROVE  /\ \A j \in store' : \/ j \in store
                              \/ j = i /\ \E k \in store : k.id = i.id
         /\ \A k \in store : \E j \in store' : j.id = k.id
         /\ \A j, k \in store' : j.id = k.id => j = k
         /\ incident'[h] = i
         /\ \A g \in Handlers \ {h} : incident'[g] = incident[g]
<1>1. incident'[h] = i /\ \A g \in Handlers \ {h} : incident'[g] = incident[g]
  BY DEF GInv, TypeOK, Writes
<1>2. CASE store' = store
  BY <1>1, <1>2 DEF GInv
<1>3. CASE store' = Updated(i)
  BY <1>1, <1>3 DEF GInv, Updated
<1> QED
  BY <1>1, <1>2, <1>3 DEF Writes

\* If it is resolved only where it was before, all that was uncounted is.
LEMMA WritesKeepUncounted ==
  ASSUME GInv, NEW h \in Handlers, NEW i \in Incidents, i.id = incident[h].id,
         i.status = incident[h].status, Writes(h, i)
  PROVE  Uncounted \subseteq Uncounted'
<1> SUFFICES ASSUME NEW x \in Uncounted PROVE x \in Uncounted'
  OBVIOUS
<1>1. i.id = x => i.status = "firing"
  BY DEF Uncounted, NeverResolved
<1>2. \E j \in store' : j.id = x
  BY WritesKeepNames DEF Uncounted
<1>3. NeverResolved(x)'
  BY <1>1, WritesKeepNames DEF Uncounted, NeverResolved
<1> QED
  BY <1>2, <1>3 DEF Uncounted

\* Resolving it takes away at most the incident itself.
LEMMA WritesTakeOne ==
  ASSUME GInv, NEW h \in Handlers, NEW i \in Incidents, i.id = incident[h].id,
         Writes(h, i)
  PROVE  Uncounted \ {i.id} \subseteq Uncounted'
<1> SUFFICES ASSUME NEW x \in Uncounted, x # i.id PROVE x \in Uncounted'
  OBVIOUS
<1>1. \E j \in store' : j.id = x
  BY WritesKeepNames DEF Uncounted
<1>2. NeverResolved(x)'
  BY WritesKeepNames DEF Uncounted, NeverResolved
<1> QED
  BY <1>1, <1>2 DEF Uncounted

\* Taking one off the gauge outweighs the one incident that is resolved.
LEMMA TakingOneOff ==
  ASSUME GInv, NEW h \in Handlers, NEW i \in Incidents, i.id = incident[h].id,
         Writes(h, i), activeIncidents' = activeIncidents - 1
  PROVE  activeIncidents' <= Cardinality(Uncounted)'
<1> DEFINE left == Uncounted \ {i.id}
<1>1. Uncounted' \in SUBSET Handlers /\ left \in SUBSET Uncounted'
  BY WritesTakeOne DEF Uncounted
<1>2. IsFiniteSet(Uncounted) /\ Cardinality(Uncounted) \in Nat
  BY HandlerSets DEF Uncounted
<1>3. Cardinality(left) = IF i.id \in Uncounted THEN Cardinality(Uncounted) - 1
                          ELSE Cardinality(Uncounted)
  BY <1>2, FS_RemoveElement
<1>4. /\ Cardinality(left) <= Cardinality(Uncounted')
      /\ Cardinality(left) \in Nat /\ Cardinality(Uncounted') \in Nat
  BY <1>1, HandlerSets
<1>5. activeIncidents \in Int /\ activeIncidents <= Cardinality(Uncounted)
  BY DEF GInv, TypeOK
<1> HIDE DEF left
<1> QED
  BY <1>2, <1>3, <1>4, <1>5

\* With the gauge unmoved and no incident resolved the bound stays.
LEMMA KeepingAllOn ==
  ASSUME GInv, Uncounted \subseteq Uncounted', UNCHANGED activeIncidents
  PROVE  activeIncidents' <= Cardinality(Uncounted)'
<1>1. Uncounted' \in SUBSET Handlers /\ Uncounted \in SUBSET Uncounted'
  BY DEF Uncounted
<1>2. /\ Cardinality(Uncounted) <= Cardinality(Uncounted')
      /\ Cardinality(Uncounted) \in Nat /\ Cardinality(Uncounted') \in Nat
  BY <1>1, HandlerSets
<1> QED
  BY <1>2 DEF GInv, TypeOK

\* Any write of an incident under its own name that resolves it only while
\* the gauge goes down keeps the invariant.
LEMMA GaugeWrites ==
  ASSUME GInv, NEW h \in Handlers, NEW i \in Incidents, i.id = incident[h].id,
         Writes(h, i), OthersUnmoved(h), TypeOK',
         \/ i.status = incident[h].status /\ UNCHANGED activeIncidents
         \/ activeIncidents' = activeIncidents - 1,
         \/ ~Unborn(h)'
         \/ Unborn(h) /\ i = incident[h]
  PROVE  GInv'
<1>1. activeIncidents' <= Cardinality(Uncounted)'
  BY WritesKeepUncounted, KeepingAllOn, TakingOneOff
<1>2. \A j, k \in store' : j.id = k.id => j = k
  BY WritesKeepNames
<1>3. NamesAreFresh'
  <2> SUFFICES ASSUME NEW g \in Handlers, Unborn(g)'
               PROVE  /\ incident'[g].id = g /\ incident'[g].status = "firing"
                      /\ \A j \in store' : j.id # g
                      /\ \A f \in Handlers : incident'[f].id = g => f = g
    BY DEF NamesAreFresh
  <2>1. /\ incident'[h] = i
        /\ \A f \in Handlers \ {h} : incident'[f] = incident[f]
        /\ \A j \in store' : \E k \in store : k.id = j.id
    BY WritesKeepNames
  <2>2. Unborn(g) /\ incident'[g] = incident[g]
    BY <2>1 DEF OthersUnmoved, Unborn
  <2>3. /\ incident[g].id = g /\ incident[g].status = "firing"
        /\ \A j \in store : j.id # g
        /\ \A f \in Handlers : incident[f].id = g => f = g
    BY <2>2 DEF GInv, NamesAreFresh
  <2> QED
    BY <2>1, <2>2, <2>3
<1> QED
  BY <1>1, <1>2, <1>3 DEF GInv

\* A look-up hands out a copy, named after the handler that created it.
LEMMA GaugeFind ==
  ASSUME GInv, NEW h \in Handlers, FindIncident(h), OthersUnmoved(h), TypeOK'
  PROVE  GInv'
<1>1. PICK i \in store : /\ incident' = [incident EXCEPT ![h] = i]
                         /\ UNCHANGED <<store, activeIncidents>>
                         /\ hpc'[h] \in {"evaluate", "resolve"}
  BY DEF FindIncident, StoredFor, SetIncident, Goto, shared, GInv, TypeOK
<1>2. /\ incident'[h] = i
      /\ \A g \in Handlers \ {h} : incident'[g] = incident[g]
  BY <1>1 DEF GInv, TypeOK
<1>3. Uncounted \subseteq Uncounted'
  BY <1>1, <1>2 DEF Uncounted, NeverResolved
<1>4. NamesAreFresh'
  BY <1>1, <1>2 DEF GInv, NamesAreFresh, Unborn, OthersUnmoved
<1> QED
  BY <1>1, <1>3, <1>4, KeepingAllOn DEF GInv

\* A creation adds one to the gauge and one fresh name to the store.
LEMMA GaugeCreate ==
  ASSUME GInv, NEW h \in Handlers, CreateIncident(h), OthersUnmoved(h), TypeOK'
  PROVE  GInv'
<1> DEFINE new == NewIncident(h, alert[h].fp)
<1>1. new.id = h /\ new.status = "firing"
  BY DEF NewIncident
<1>2. /\ store' = store \cup {new} /\ activeIncidents' = activeIncidents + 1
      /\ incident' = [incident EXCEPT ![h] = new]
      /\ hpc[h] = "create" /\ hpc'[h] = "evaluate"
  BY DEF CreateIncident, SetIncident, Goto, GInv, TypeOK
<1> HIDE DEF new
<1>3. /\ incident'[h] = new
      /\ \A g \in Handlers \ {h} : incident'[g] = incident[g]
  BY <1>2 DEF GInv, TypeOK
<1>4. /\ \A i \in store : i.id # h
      /\ \A g \in Handlers : incident[g].id = h => g = h
  BY <1>2 DEF GInv, NamesAreFresh, Unborn
<1>5. \A i, j \in store' : i.id = j.id => i = j
  BY <1>1, <1>2, <1>4 DEF GInv
<1>6. NamesAreFresh'
  BY <1>1, <1>2, <1>3, <1>4 DEF GInv, NamesAreFresh, Unborn, OthersUnmoved
<1>7. h \notin Uncounted /\ Uncounted \cup {h} \subseteq Uncounted'
  BY <1>1, <1>2, <1>3, <1>4 DEF Uncounted, NeverResolved
<1>8. activeIncidents' <= Cardinality(Uncounted)'
  <2>1. IsFiniteSet(Uncounted) /\ Cardinality(Uncounted) \in Nat
    BY HandlerSets DEF Uncounted
  <2>2. Cardinality(Uncounted \cup {h}) = Cardinality(Uncounted) + 1
    BY <1>7, <2>1, FS_AddElement
  <2>3. Uncounted' \in SUBSET Handlers /\ Uncounted \cup {h} \in SUBSET Uncounted'
    BY <1>7 DEF Uncounted
  <2>4. /\ Cardinality(Uncounted \cup {h}) <= Cardinality(Uncounted')
        /\ Cardinality(Uncounted') \in Nat
    BY <2>3, HandlerSets
  <2>5. activeIncidents \in Int /\ activeIncidents <= Cardinality(Uncounted)
    BY DEF GInv, TypeOK
  <2> QED
    BY <1>2, <2>1, <2>2, <2>4, <2>5
<1> QED
  BY <1>5, <1>6, <1>8 DEF GInv

\* Every step of a handler keeps the invariant of the gauge.
LEMMA GaugeHandler ==
  ASSUME GInv, NEW h \in Handlers, OthersUnmoved(h), TypeOK',
         Deliver(h) \/ SkipAsStandby(h) \/ HandlerStep(h)
  PROVE  GInv'
<1>0. /\ TypeOK /\ incident[h] \in Incidents
      /\ incident = [incident EXCEPT ![h] = incident[h]]
  BY IncidentTypes DEF GInv, TypeOK
<1>1. CASE Deliver(h) \/ SkipAsStandby(h) \/ FindNothing(h)
  <2>1. /\ Unborn(h) /\ Writes(h, incident[h]) /\ UNCHANGED activeIncidents
    BY <1>0, <1>1 DEF Deliver, SkipAsStandby, Deliverable, FindNothing, Unborn,
       Writes, shared
  <2> QED
    BY <1>0, <2>1, GaugeWrites
<1>2. CASE FindIncident(h)
  BY <1>2, GaugeFind
<1>3. CASE CreateIncident(h)
  BY <1>3, GaugeCreate
<1>4. CASE HandlerStep(h) /\ ~FindNothing(h) /\ ~FindIncident(h)
             /\ ~CreateIncident(h)
  <2>1. ~Unborn(h)'
    BY <1>0, <1>4 DEF HandlerStep, CreateFails, ResolveIncident, AlreadyResolved,
       Refuse, CheckCooldown, Decide, PlanRecovery, Persist, Goto, Unborn, TypeOK
  <2>2. \E i : /\ i \in Incidents /\ i.id = incident[h].id /\ Writes(h, i)
               /\ \/ i.status = incident[h].status /\ UNCHANGED activeIncidents
                  \/ activeIncidents' = activeIncidents - 1
    BY <1>0, <1>4, HandlerWrites, IncidentFields DEF SameBut
  <2> QED
    BY <2>1, <2>2, GaugeWrites
<1> QED
  BY <1>1, <1>2, <1>3, <1>4

\* Every step of a pipeline does: the handler it runs for has a name in the
\* store by then.
LEMMA GaugePipeline ==
  ASSUME GInv, NEW h \in Handlers, OthersUnmoved(h), TypeOK', Local(h),
         PipelineStep(h)
  PROVE  GInv'
<1>0. TypeOK
  BY DEF GInv
<1>1. hpc' = hpc /\ hpc[h] \in {"persist", "done", "killed"}
  BY <1>0, PipelineWrites DEF Local, PipelineStep, ClaimSlot, SlotIsTaken,
     Suppress, BeginRollback, RollbackDone, RollbackFailed, StartVerifying,
     VerificationFailed, Retry, Verified, ConsiderPeer, Recover, Exhaust, GiveUp
<1>2. \E i : /\ i \in Incidents /\ i.id = incident[h].id /\ Writes(h, i)
             /\ \/ i.status = incident[h].status /\ UNCHANGED activeIncidents
                \/ activeIncidents' = activeIncidents - 1
  BY <1>0, PipelineWrites, IncidentFields DEF SameBut
<1> QED
  BY <1>1, <1>2, GaugeWrites DEF Unborn

\* A restart takes the gauge to 0, which no store undercuts.
LEMMA GaugeSurroundings ==
  ASSUME GInv, TypeOK',
         WindowEnds \/ OnStartedLeading \/ OnStoppedLeading \/ Restart
           \/ UNCHANGED vars
  PROVE  GInv'
<1>1. CASE Restart
  <2>1. activeIncidents' = 0 /\ incident' = incident /\ store' \subseteq store
    BY <1>1 DEF Restart
  <2>2. \A h \in Handlers : Unborn(h)' => Unborn(h)
    BY <1>1 DEF Restart, Unborn, HandlerDone
  <2>3. 0 <= Cardinality(Uncounted)'
    <3>1. Uncounted' \in SUBSET Handlers
      BY DEF Uncounted
    <3> QED
      BY <3>1, HandlerSets
  <2> QED
    BY <2>1, <2>2, <2>3 DEF GInv, NamesAreFresh
<1>2. CASE WindowEnds \/ OnStartedLeading \/ OnStoppedLeading \/ UNCHANGED vars
  <2>1. UNCHANGED <<store, activeIncidents, hpc, incident>>
    BY <1>2 DEF WindowEnds, OnStartedLeading, OnStoppedLeading, vars, shared
  <2>2. Uncounted' = Uncounted /\ NamesAreFresh'
    BY <2>1 DEF Uncounted, NeverResolved, GInv, NamesAreFresh, Unborn
  <2> QED
    BY <2>1, <2>2 DEF GInv
<1> QED
  BY <1>1, <1>2

\* Nothing is stored and the gauge is 0 at the start.
LEMMA GInvInit == Init => GInv
<1> SUFFICES ASSUME Init PROVE GInv
  OBVIOUS
<1>1. NamesAreFresh
  BY DEF Init, NamesAreFresh, NewIncident
<1>2. Uncounted = {} /\ activeIncidents = 0
  BY DEF Init, Uncounted
<1>3. store = {}
  BY DEF Init
<1> QED
  BY <1>1, <1>2, <1>3, TypeInit, FS_EmptySet DEF GInv

\* Every step keeps the invariant of the gauge.
LEMMA GInvNext == IInv /\ GInv /\ [Next]_vars => GInv'
<1> SUFFICES ASSUME IInv, GInv, [Next]_vars PROVE GInv'
  OBVIOUS
<1>1. TypeOK' /\ TypeOK /\ PolicyKnown /\ \A h \in Handlers : Local(h)
  BY IInvNext, LocalIsEnough DEF IInv
<1> QED
  BY <1>1, HandlerLocal, PipelineLocal, GaugeHandler, GaugePipeline,
     GaugeSurroundings DEF Next

\* The gauge never shows more active incidents than are stored as firing, for
\* any number of racing handlers and pipelines, lost writes and restarts: the
\* drift of the gauge is downwards only (manager.go:156, 181, 502).
THEOREM GaugeIsModest == Spec => []GaugeNeverOverstates
<1>1. ASSUME GInv PROVE GaugeNeverOverstates
  <2> DEFINE name == [i \in Active |-> i.id]
             record == [x \in Uncounted |-> CHOOSE i \in store : i.id = x]
  <2>1. Active \subseteq store /\ store \subseteq Incidents
    BY <1>1 DEF Active, GInv, TypeOK
  <2>2. name \in Injection(Active, Handlers)
    BY <1>1, <2>1 DEF GInv, Incidents, Injection, IsInjective
  <2>3. IsFiniteSet(Active)
    BY <2>2, HandlersAssumption, FS_Injection
  <2>4. \A x \in Uncounted : record[x] \in Active /\ record[x].id = x
    BY DEF Uncounted, NeverResolved, Active
  <2>5. record \in Injection(Uncounted, Active)
    <3> HIDE DEF record
    <3>1. record \in [Uncounted -> Active]
      BY <2>4 DEF record
    <3> QED
      BY <2>4, <3>1 DEF Injection, IsInjective
  <2>6. Cardinality(Uncounted) <= Cardinality(Active)
    BY <2>3, <2>5, FS_Injection
  <2>7. /\ Cardinality(Active) \in Nat /\ Cardinality(Uncounted) \in Nat
        /\ activeIncidents \in Int /\ activeIncidents <= Cardinality(Uncounted)
    BY <1>1, <2>3, HandlerSets, FS_CardinalityType DEF Uncounted, GInv, TypeOK
  <2> QED
    BY <2>6, <2>7 DEF GaugeNeverOverstates
<1> QED
  BY <1>1, IInvInit, IInvNext, GInvInit, GInvNext, PTL DEF Spec

-----------------------------------------------------------------------------
(* The incident of an acknowledged alert.                                  *)

\* An incident is named after the handler that created it, for the alert that
\* handler was given: two records of one name are of one alert.
NamedAfterCreator ==
  /\ \A i \in store : i.fp = alert[i.id].fp
  /\ \A h \in Handlers : incident[h].fp = alert[incident[h].id].fp

KInv == TypeOK /\ NamedAfterCreator /\ AcknowledgedAlertHasIncident

\* A write replaces a record by one of the same alert.
LEMMA WritesKeepAlerts ==
  ASSUME KInv, NEW h \in Handlers, NEW i, NEW n \in Nat,
         SameBut(i, incident[h], n), Writes(h, i), UNCHANGED alert
  PROVE  /\ NamedAfterCreator'
         /\ \A fp : StoredFor(fp) # {} => StoredFor(fp)' # {}
<1>1. i.fp = alert[i.id].fp
  BY DEF KInv, NamedAfterCreator, SameBut
<1>2. /\ incident'[h] = i
      /\ \A g \in Handlers \ {h} : incident'[g] = incident[g]
  BY DEF KInv, TypeOK, Writes
<1>3. CASE store' = store
  BY <1>1, <1>2, <1>3 DEF KInv, NamedAfterCreator, StoredFor
<1>4. CASE store' = Updated(i)
  <2>1. \A j \in store' : j = i \/ j \in store
    BY <1>4 DEF Updated
  <2>2. \A j \in store : \E k \in store' : k.fp = j.fp
    BY <1>1, <1>4 DEF Updated, KInv, NamedAfterCreator
  <2> QED
    BY <1>1, <1>2, <2>1, <2>2 DEF KInv, NamedAfterCreator, StoredFor
<1> QED
  BY <1>3, <1>4 DEF Writes

\* A handler that gets past its look-up found an incident or stored one.
LEMMA HandlerAcknowledges ==
  ASSUME KInv, ~StoreMayFail, NEW h \in Handlers, OthersUnmoved(h), TypeOK',
         Deliver(h) \/ SkipAsStandby(h) \/ HandlerStep(h)
  PROVE  KInv'
<1>0. /\ TypeOK /\ incident[h] \in Incidents
      /\ incident = [incident EXCEPT ![h] = incident[h]]
  BY IncidentTypes DEF KInv, TypeOK
<1>1. alert' = alert /\ restarts' = restarts
  BY DEF Deliver, SkipAsStandby, HandlerStep, FindIncident, FindNothing,
     CreateIncident, CreateFails, ResolveIncident, AlreadyResolved, Refuse,
     CheckCooldown, Decide, PlanRecovery, Persist
<1>2. ASSUME NamedAfterCreator', \A fp : StoredFor(fp) # {} => StoredFor(fp)' # {},
             hpc'[h] \in {"lookup", "create", "skipped"}
               \/ alert[h].status # "firing"
               \/ StoredFor(alert[h].fp)' # {}
      PROVE  KInv'
  BY <1>1, <1>2 DEF KInv, AcknowledgedAlertHasIncident, OthersUnmoved
<1>3. CASE FindIncident(h)
  <2>1. PICK i \in store : /\ incident' = [incident EXCEPT ![h] = i]
                           /\ i.fp = alert[h].fp
                           /\ UNCHANGED store
    BY <1>3 DEF FindIncident, StoredFor, SetIncident, shared
  <2> QED
    BY <1>0, <1>1, <1>2, <2>1 DEF KInv, NamedAfterCreator, StoredFor, TypeOK
<1>4. CASE CreateIncident(h)
  <2> DEFINE new == NewIncident(h, alert[h].fp)
  <2>1. /\ store' = store \cup {new} /\ incident' = [incident EXCEPT ![h] = new]
        /\ new.id = h /\ new.fp = alert[h].fp
    BY <1>4 DEF CreateIncident, SetIncident, NewIncident
  <2> HIDE DEF new
  <2> QED
    BY <1>0, <1>1, <1>2, <2>1 DEF KInv, NamedAfterCreator, StoredFor, TypeOK
<1>5. CASE Deliver(h) \/ SkipAsStandby(h) \/ FindNothing(h)
  <2>1. UNCHANGED <<store, incident>>
    BY <1>5 DEF Deliver, SkipAsStandby, FindNothing, shared
  <2>2. hpc'[h] \in {"lookup", "create", "skipped"} \/ alert[h].status # "firing"
    BY <1>0, <1>5 DEF Deliver, SkipAsStandby, FindNothing, Goto, TypeOK
  <2> QED
    BY <1>1, <1>2, <2>1, <2>2 DEF KInv, NamedAfterCreator, StoredFor
<1>6. CASE HandlerStep(h) /\ ~FindNothing(h) /\ ~FindIncident(h)
             /\ ~CreateIncident(h)
  <2>1. PICK i : Writes(h, i) /\ \E n \in Nat : SameBut(i, incident[h], n)
    BY <1>0, <1>6, HandlerWrites, IncidentFields
  <2>2. /\ NamedAfterCreator'
        /\ \A fp : StoredFor(fp) # {} => StoredFor(fp)' # {}
    BY <1>1, <2>1, WritesKeepAlerts
  <2>3. \/ hpc[h] \notin {"idle", "lookup", "create", "skipped", "killed"}
        \/ alert[h].status # "firing"
    BY <1>6 DEF HandlerStep, CreateFails, ResolveIncident, AlreadyResolved,
       Refuse, CheckCooldown, Decide, PlanRecovery, Persist
  <2>4. restarts = 0 => alert[h].status # "firing" \/ StoredFor(alert[h].fp)' # {}
    BY <1>1, <2>2, <2>3 DEF KInv, AcknowledgedAlertHasIncident, StoredFor
  <2> QED
    BY <1>1, <2>2, <2>4 DEF KInv, AcknowledgedAlertHasIncident, OthersUnmoved
<1> QED
  BY <1>3, <1>4, <1>5, <1>6

\* Nothing else takes an incident of a live store away.
LEMMA OthersAcknowledge ==
  ASSUME KInv, TypeOK',
         \/ \E h \in Handlers : PipelineStep(h)
         \/ WindowEnds \/ OnStartedLeading \/ OnStoppedLeading \/ Restart
         \/ UNCHANGED vars
  PROVE  KInv'
<1>1. CASE \E h \in Handlers : PipelineStep(h)
  <2>1. PICK h \in Handlers : PipelineStep(h)
    BY <1>1
  <2>2. hpc' = hpc /\ alert' = alert
    BY <2>1, PipelineWrites DEF KInv
  <2>3. restarts' = restarts
    BY <2>1 DEF PipelineStep, ClaimSlot, SlotIsTaken, Suppress, BeginRollback,
       RollbackDone, RollbackFailed, StartVerifying, VerificationFailed, Retry,
       Verified, ConsiderPeer, Recover, Exhaust, GiveUp
  <2>4. PICK i : SameBut(i, incident[h], 0) /\ Writes(h, i)
    BY <2>1, PipelineWrites, IncidentFields DEF KInv
  <2>5. /\ NamedAfterCreator'
        /\ \A fp : StoredFor(fp) # {} => StoredFor(fp)' # {}
    BY <2>2, <2>4, WritesKeepAlerts
  <2> QED
    BY <2>2, <2>3, <2>5 DEF KInv, AcknowledgedAlertHasIncident
<1>2. CASE Restart
  <2>1. /\ restarts' = restarts + 1 /\ restarts \in Nat
        /\ store' \subseteq store /\ UNCHANGED <<incident, alert>>
    BY <1>2 DEF Restart, KInv, TypeOK
  <2>2. restarts' # 0
    BY <2>1
  <2> QED
    BY <2>1, <2>2 DEF KInv, NamedAfterCreator, AcknowledgedAlertHasIncident
<1>3. CASE WindowEnds \/ OnStartedLeading \/ OnStoppedLeading \/ UNCHANGED vars
  <2>1. UNCHANGED <<store, incident, alert, hpc, restarts>>
    BY <1>3 DEF WindowEnds, OnStartedLeading, OnStoppedLeading, vars, shared
  <2> QED
    BY <2>1 DEF KInv, NamedAfterCreator, AcknowledgedAlertHasIncident, StoredFor
<1> QED
  BY <1>1, <1>2, <1>3

\* With stores that answer, every firing alert a leader takes in has an
\* incident once its handler is past the look-up, for any number of racing
\* handlers and pipelines (manager.go:129-157).  A store that fails may lose it:
\* the handler then logs the error and drops the alert.
THEOREM AlertsAreTakenIn ==
  ASSUME ~StoreMayFail
  PROVE  Spec => []AcknowledgedAlertHasIncident
<1>1. Init => KInv
  BY TypeInit DEF Init, KInv, NamedAfterCreator, NewIncident,
     AcknowledgedAlertHasIncident
<1>2. IInv /\ KInv /\ [Next]_vars => KInv'
  <2> SUFFICES ASSUME IInv, KInv, [Next]_vars PROVE KInv'
    OBVIOUS
  <2>1. TypeOK' /\ TypeOK /\ PolicyKnown /\ \A h \in Handlers : Local(h)
    BY IInvNext, LocalIsEnough DEF IInv
  <2> QED
    BY <2>1, HandlerLocal, HandlerAcknowledges, OthersAcknowledge DEF Next
<1>3. KInv => AcknowledgedAlertHasIncident
  BY DEF KInv
<1> QED
  BY <1>1, <1>2, <1>3, IInvInit, IInvNext, PTL DEF Spec
=============================================================================
