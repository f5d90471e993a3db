-------------------------- MODULE RollbackPipeline --------------------------
(***************************************************************************)
(* What the recovery pipelines of one service do to its Helm release: the  *)
(* attempt loop of runRecoveryPipeline (incident/manager.go:299-547) with  *)
(* the executor's calls to Helm one by one (executor/executor.go:49-125,   *)
(* helm/manager.go), the verification loop, the back-off, and the service's*)
(* one execution slot.  Time is discrete: every clock is a countdown.      *)
(* A continuous-delivery pipeline may deploy in between.                    *)
(***************************************************************************)
EXTENDS HelmRelease

CONSTANTS
  Faulty,              \* the values under which the service misbehaves
  Histories,           \* the histories to start from
  Pipelines,           \* the recoveries of the service
  MaxRetries,          \* plan.RetryPolicy.MaxRetries
  Window,              \* plan.Cooldown, the length of a recovery window
  Timeout,             \* plan.Timeout of the verification loop
  BaseBackoff, MaxBackoff,
  StaleAlerts,         \* can an alert be acted on a window after it was true?
  SlowHelm,            \* can the calls of one attempt outlast a window?
  PrometheusMayFail,   \* can the SLO query fail?
  HelmMayFail,         \* can a rollback fail once it is recorded?
  MaxDeploys           \* bound on deployments, for model checking

\* The service runs with its last revision when the first alert fires.
ASSUME ReleaseAssumption ==
  /\ Faulty \subseteq Configs /\ NoValues \in Configs
  /\ \A h \in Histories : /\ Len(h) > 0 /\ h \in Seq(Revisions)
                          /\ h[Len(h)].status = "deployed"
  /\ MaxRetries \in Nat \ {0} /\ Window \in Nat \ {0}
  /\ {Timeout, BaseBackoff, MaxBackoff, MaxDeploys} \subseteq Nat

VARIABLES
  history,    \* the revisions Helm has recorded
  serving,    \* the values the pods run with
  slot,       \* what is left of the service's recovery window
  quiet,      \* what is left of a window that starts with a rollback (history)
  served,     \* every configuration that was ever in service (history)
  pc,         \* where each pipeline stands
  attempt,    \* its attempt counter
  snapshot,   \* the history its executor read
  target,     \* the revision its executor chose
  timer,      \* its back-off or verification clock
  deploys     \* deployments so far (bounded)

release == <<history, serving, served>>
vars == <<release, slot, quiet, pc, attempt, snapshot, target, timer, deploys>>

Ended == {"suppressed", "recovered", "failed"}

TypeOK ==
  /\ history \in Seq(Revisions)
  /\ serving \in Configs /\ served \subseteq Configs
  /\ slot \in 0..Window /\ quiet \in 0..Window
  /\ pc \in [Pipelines -> {"idle", "gate", "read", "choose", "call", "helm",
                           "verify", "backoff"} \cup Ended]
  /\ attempt \in [Pipelines -> 0..MaxRetries]
  /\ snapshot \in [Pipelines -> Seq(Revisions)]
  /\ target \in [Pipelines -> Nat]
  /\ timer \in [Pipelines -> Nat]
  /\ deploys \in 0..MaxDeploys

Init ==
  /\ history \in Histories
  /\ serving = history[Len(history)].config
  /\ served = {history[n].config : n \in {m \in DOMAIN history :
                   history[m].status \in {"deployed", "superseded"}}}
  /\ slot = 0 /\ quiet = 0
  /\ pc = [p \in Pipelines |-> "idle"]
  /\ attempt = [p \in Pipelines |-> 0]
  /\ snapshot = [p \in Pipelines |-> <<>>]
  /\ target = [p \in Pipelines |-> 0]
  /\ timer = [p \in Pipelines |-> 0]
  /\ deploys = 0

Continue(p, at) == pc' = [pc EXCEPT ![p] = at]

\* An alert of the service fires and its pipeline starts; it may get to the
\* gate much later.
Start(p) ==
  /\ pc[p] = "idle"
  /\ serving \in Faulty
  /\ Continue(p, "gate")
  /\ UNCHANGED <<release, slot, quiet, attempt, snapshot, target, timer,
                 deploys>>

\* Mistake to be noticed: the gate is not asked.
ClaimSlotUnasked(p) ==
  /\ pc[p] = "gate"
  /\ slot' = Window
  /\ attempt' = [attempt EXCEPT ![p] = 1]
  /\ Continue(p, "read")
  /\ UNCHANGED <<release, quiet, snapshot, target, timer, deploys>>

ClaimSlot(p) ==
  /\ pc[p] = "gate"
  /\ slot = 0
  /\ slot' = Window
  /\ attempt' = [attempt EXCEPT ![p] = 1]
  /\ Continue(p, "read")
  /\ UNCHANGED <<release, quiet, snapshot, target, timer, deploys>>

Suppress(p) ==
  /\ pc[p] = "gate"
  /\ slot > 0
  /\ Continue(p, "suppressed")
  /\ UNCHANGED <<release, slot, quiet, attempt, snapshot, target, timer,
                 deploys>>

\* GetLastHealthyRevision reads the history first ...
ReadHistory(p) ==
  /\ pc[p] = "read"
  /\ snapshot' = [snapshot EXCEPT ![p] = history]
  /\ Continue(p, "choose")
  /\ UNCHANGED <<release, slot, quiet, attempt, target, timer, deploys>>

\* ... and the current revision afterwards.  No target is an error that is
\* not transient.
ChooseTarget(p) ==
  LET t == LastHealthyRevision(snapshot[p], CurrentRevision(history))
  IN  /\ pc[p] = "choose"
      /\ target' = [target EXCEPT ![p] = t]
      /\ snapshot' = [snapshot EXCEPT ![p] = <<>>]
      /\ Continue(p, IF t = 0 THEN "failed" ELSE "call")
      /\ UNCHANGED <<release, slot, quiet, attempt, timer, deploys>>

BeginRollback(p) ==
  /\ pc[p] = "call"
  /\ ~InProgress(history)
  /\ history' = Begun(history, target[p])
  /\ quiet' = Window
  /\ Continue(p, "helm")
  /\ UNCHANGED <<serving, served, slot, attempt, snapshot, target, timer,
                 deploys>>

\* CalculateBackoff(attempt - 1, base), where attempt is the one to come.
CalculateBackoff(n) ==
  LET backoff == BaseBackoff * 2 ^ n
  IN  IF n <= 0 THEN BaseBackoff
      ELSE IF backoff \in 0..MaxBackoff THEN backoff ELSE MaxBackoff

\* Mistake to be noticed: one attempt too many.
NextAttemptOrOne(p) ==
  IF attempt[p] <= MaxRetries
  THEN /\ attempt' = [attempt EXCEPT ![p] = @ + 1]
       /\ timer' = [timer EXCEPT ![p] = CalculateBackoff(attempt[p])]
       /\ Continue(p, "backoff")
  ELSE /\ timer' = [timer EXCEPT ![p] = 0]
       /\ Continue(p, "failed")
       /\ UNCHANGED attempt

\* The end of an attempt that failed with an error worth a retry.
NextAttempt(p) ==
  IF attempt[p] < MaxRetries
  THEN /\ attempt' = [attempt EXCEPT ![p] = @ + 1]
       /\ timer' = [timer EXCEPT ![p] = CalculateBackoff(attempt[p])]
       /\ Continue(p, "backoff")
  ELSE /\ timer' = [timer EXCEPT ![p] = 0]
       /\ Continue(p, "failed")
       /\ UNCHANGED attempt

\* Another operation is in progress on the release: a transient error.
RollbackRefused(p) ==
  /\ pc[p] = "call"
  /\ InProgress(history)
  /\ NextAttempt(p)
  /\ UNCHANGED <<release, slot, quiet, snapshot, target, deploys>>

FinishRollback(p) ==
  /\ pc[p] = "helm"
  /\ history' = Finished(history)
  /\ serving' = history[Len(history)].config
  /\ served' = served \cup {serving'}
  /\ timer' = [timer EXCEPT ![p] = Timeout]
  /\ Continue(p, "verify")
  /\ UNCHANGED <<slot, quiet, attempt, snapshot, target, deploys>>

\* Helm gives up after the revision is recorded; the pods stay as they are.
AbortRollback(p) ==
  /\ HelmMayFail
  /\ pc[p] = "helm"
  /\ history' = Aborted(history)
  /\ NextAttempt(p)
  /\ UNCHANGED <<serving, served, slot, quiet, snapshot, target, deploys>>

\* Healthy pods, and no alert firing or no Prometheus to ask.
Verifiable(p) == pc[p] = "verify" /\ (serving \notin Faulty \/ PrometheusMayFail)

Verified(p) ==
  /\ Verifiable(p)
  /\ timer' = [timer EXCEPT ![p] = 0]
  /\ Continue(p, "recovered")
  /\ UNCHANGED <<release, slot, quiet, attempt, snapshot, target, deploys>>

\* Pods that come up too late for the timeout do not verify either.
VerifyTimeout(p) ==
  /\ pc[p] = "verify"
  /\ timer[p] = 0
  /\ NextAttempt(p)
  /\ UNCHANGED <<release, slot, quiet, snapshot, target, deploys>>

\* The next attempt does not ask the gate again.
BackoffElapsed(p) ==
  /\ pc[p] = "backoff"
  /\ timer[p] = 0
  /\ Continue(p, "read")
  /\ UNCHANGED <<release, slot, quiet, attempt, snapshot, target, timer,
                 deploys>>

PipelineStep(p) ==
  \/ ClaimSlot(p) \/ Suppress(p) \/ ReadHistory(p) \/ ChooseTarget(p)
  \/ BeginRollback(p) \/ RollbackRefused(p) \/ FinishRollback(p)
  \/ AbortRollback(p) \/ Verified(p) \/ VerifyTimeout(p) \/ BackoffElapsed(p)

Deploy ==
  /\ deploys < MaxDeploys
  /\ ~InProgress(history)
  /\ \E config \in Configs :
       /\ history' = Upgraded(history, config)
       /\ serving' = config
       /\ served' = served \cup {config}
  /\ deploys' = deploys + 1
  /\ UNCHANGED <<slot, quiet, pc, attempt, snapshot, target, timer>>

Down(clock) == IF clock = 0 THEN 0 ELSE clock - 1

Tick ==
  /\ slot > 0 \/ quiet > 0 \/ \E p \in Pipelines : timer[p] > 0
  /\ \A p \in Pipelines :
       /\ ~StaleAlerts => pc[p] # "gate"
       /\ ~SlowHelm => pc[p] \notin {"read", "choose", "call", "helm"}
  /\ slot' = Down(slot) /\ quiet' = Down(quiet)
  /\ timer' = [p \in Pipelines |-> Down(timer[p])]
  /\ UNCHANGED <<release, pc, attempt, snapshot, target, deploys>>

Next == \/ \E p \in Pipelines : Start(p) \/ PipelineStep(p)
        \/ Deploy
        \/ Tick

\* Alertmanager repeats a firing alert, goroutines run, and time passes.
Fairness == /\ \A p \in Pipelines : WF_vars(Start(p)) /\ WF_vars(PipelineStep(p))
            /\ WF_vars(Tick)

Spec == Init /\ [][Next]_vars /\ Fairness

-----------------------------------------------------------------------------
\* "The config-skip guarantees each rollback changes the configuration"
\* (docs/experiments/live-failure-simulation-findings.md:257): a rollback
\* that succeeds leaves the service with other values than before.
EachRollbackChangesConfig ==
  [][\A p \in Pipelines : pc[p] = "helm" /\ pc'[p] = "verify"
                          => serving' # serving]_vars

\* "Exactly one rollback per service per cooldown window can execute"
\* (findings.md:99): a whole window lies between the starts of two rollbacks.
OneRollbackPerWindow ==
  [][\A p \in Pipelines : pc[p] = "call" /\ pc'[p] = "helm" => quiet = 0]_vars

\* A rollback restores values the service has run with before, though the
\* statuses it goes by change under it (helm/manager.go:185-190).
RestoresServedConfig ==
  \A p \in Pipelines : pc[p] = "helm" => history[Len(history)].config \in served

\* A recovery that gets to work on a faulty configuration ends with the
\* service on a sound one (helm/manager.go:131-190), in one rollback, whatever
\* late recoveries did to the history before it.  With late alerts the service
\* need not stay there: they may bring the fault back.
RestoresService ==
  \A p \in Pipelines : (pc[p] = "read" /\ serving \in Faulty)
                         ~> serving \notin Faulty
=============================================================================
