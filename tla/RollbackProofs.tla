--------------------------- MODULE RollbackProofs ---------------------------
(***************************************************************************)
(* For any history, any number of recoveries and deployments, and a Helm   *)
(* that may fail at every rollback: what a rollback restores has been in   *)
(* service before, though the statuses it is chosen by change under it and *)
(* a failed revision may come to count as superseded.  With a single       *)
(* attempt per recovery that does not outlast its window, rollbacks start  *)
(* a whole window apart; and each changes the values, as long as Helm does *)
(* not fail and nobody deploys in between.                                  *)
(***************************************************************************)
EXTENDS RollbackPipeline, HelmReleaseProofs

-----------------------------------------------------------------------------
(* The inductive invariant *)

\* What counts as healthy was in service, and so was what the current revision
\* carries.
HealthyWasServed ==
  /\ Len(history) > 0
  /\ \A n \in 1..Len(history) :
       history[n].status \in {"deployed", "superseded"}
         => history[n].config \in served
  /\ history[Len(history)].config \in served

\* A snapshot is a beginning of the history, up to the statuses.
Reads(p) ==
  pc[p] = "choose" =>
    /\ Len(snapshot[p]) <= Len(history)
    /\ \A n \in 1..Len(snapshot[p]) :
         /\ snapshot[p][n].config = history[n].config
         /\ snapshot[p][n].status \in {"deployed", "superseded"}
              => history[n].config \in served

\* The target that was chosen is a revision of a configuration once served.
Chose(p) ==
  pc[p] = "call" => /\ target[p] \in 1..Len(history)
                    /\ history[target[p]].config \in served

\* One rollback at a time is recorded and not finished; should it fail, the
\* revision before its own counts as superseded.
Applies(p) ==
  pc[p] = "helm" => /\ InProgress(history)
                    /\ Len(history) > 1
                    /\ history[Len(history) - 1].config \in served
                    /\ \A q \in Pipelines : pc[q] = "helm" => q = p

Inv == /\ TypeOK
       /\ HealthyWasServed
       /\ \A p \in Pipelines : Reads(p) /\ Chose(p) /\ Applies(p)

-----------------------------------------------------------------------------
LEMMA Constants ==
  /\ MaxRetries \in Nat /\ MaxRetries > 0
  /\ Window \in Nat /\ Window > 0
  /\ Timeout \in Nat /\ BaseBackoff \in Nat /\ MaxBackoff \in Nat
  /\ MaxDeploys \in Nat
  BY ReleaseAssumption

\* The back-off is a number whatever the attempt.
LEMMA BackoffType == \A n : CalculateBackoff(n) \in Nat
  BY Constants DEF CalculateBackoff

LEMMA HistoryLength ==
  ASSUME TypeOK
  PROVE  /\ Len(history) \in Nat
         /\ DOMAIN history = 1..Len(history)
         /\ \A n \in 1..Len(history) : history[n] \in Revisions
  BY LenProperties, ElementOfSeq DEF TypeOK

LEMMA TypeInit == Init => TypeOK
<1> SUFFICES ASSUME Init PROVE TypeOK
  OBVIOUS
<1>1. history \in Seq(Revisions) /\ Len(history) > 0
  BY ReleaseAssumption DEF Init
<1>2. /\ Len(history) \in Nat
      /\ DOMAIN history = 1..Len(history)
      /\ \A n \in 1..Len(history) : history[n] \in Revisions
  BY <1>1, LenProperties, ElementOfSeq
<1>3. serving \in Configs /\ served \subseteq Configs
  BY <1>1, <1>2 DEF Init, Revisions
<1>4. [p \in Pipelines |-> <<>>] \in [Pipelines -> Seq(Revisions)]
  BY EmptySeq
<1> QED
  BY <1>1, <1>3, <1>4, Constants DEF Init, TypeOK

LEMMA InvInit == Init => Inv
<1> SUFFICES ASSUME Init PROVE Inv
  OBVIOUS
<1>1. /\ Len(history) > 0
      /\ history[Len(history)].status = "deployed"
  BY ReleaseAssumption DEF Init
<1>2. TypeOK
  BY TypeInit
<1>3. HealthyWasServed
  BY <1>1, <1>2, HistoryLength DEF Init, HealthyWasServed
<1> QED
  BY <1>2, <1>3 DEF Init, Inv, Reads, Chose, Applies

-----------------------------------------------------------------------------
(* Types *)

Places == {"idle", "gate", "read", "choose", "call", "helm", "verify",
           "backoff"} \cup Ended

LEMMA ContinueType ==
  ASSUME TypeOK, NEW p \in Pipelines, NEW at \in Places, Continue(p, at)
  PROVE  /\ pc' \in [Pipelines -> Places]
         /\ pc'[p] = at
         /\ \A q \in Pipelines \ {p} : pc'[q] = pc[q]
  BY DEF TypeOK, Continue, Places

\* The end of a failed attempt leaves a pipeline waiting for the next one, or
\* out of attempts.
LEMMA NextAttemptType ==
  ASSUME TypeOK, NEW p \in Pipelines, NextAttempt(p)
  PROVE  /\ pc' \in [Pipelines -> Places]
         /\ pc'[p] \in {"backoff", "failed"}
         /\ \A q \in Pipelines \ {p} : pc'[q] = pc[q]
         /\ attempt' \in [Pipelines -> 0..MaxRetries]
         /\ timer' \in [Pipelines -> Nat]
<1>1. /\ attempt \in [Pipelines -> 0..MaxRetries]
      /\ timer \in [Pipelines -> Nat]
  BY DEF TypeOK
<1>2. "backoff" \in Places /\ "failed" \in Places
  BY DEF Places, Ended
<1>3. CASE attempt[p] < MaxRetries
  <2>1. /\ attempt' = [attempt EXCEPT ![p] = @ + 1]
        /\ timer' = [timer EXCEPT ![p] = CalculateBackoff(attempt[p])]
        /\ Continue(p, "backoff")
    BY <1>3 DEF NextAttempt
  <2> QED
    BY <1>1, <1>2, <1>3, <2>1, ContinueType, BackoffType, Constants
<1>4. CASE ~(attempt[p] < MaxRetries)
  <2>1. /\ timer' = [timer EXCEPT ![p] = 0]
        /\ Continue(p, "failed")
        /\ UNCHANGED attempt
    BY <1>4 DEF NextAttempt
  <2> QED
    BY <1>1, <1>2, <2>1, ContinueType
<1> QED
  BY <1>3, <1>4

\* What a recorded, finished or failed rollback and a deployment leave behind.
LEMMA HistoryTypes ==
  ASSUME Inv
  PROVE  /\ \A p \in Pipelines : pc[p] = "call" =>
              Begun(history, target[p]) \in Seq(Revisions)
         /\ Finished(history) \in Seq(Revisions)
         /\ \A p \in Pipelines : pc[p] = "helm" =>
              Aborted(history) \in Seq(Revisions)
         /\ \A config \in Configs : Upgraded(history, config) \in Seq(Revisions)
  BY BegunHolds, FinishedHolds, AbortedHolds, UpgradedHolds
     DEF Inv, TypeOK, HealthyWasServed, Chose, Applies

LEMMA ReleaseType ==
  ASSUME Inv, NEW p \in Pipelines,
         BeginRollback(p) \/ FinishRollback(p) \/ AbortRollback(p)
  PROVE  TypeOK'
<1> USE DEF TypeOK, Inv
<1>1. "helm" \in Places /\ "verify" \in Places
  BY DEF Places
<1>2. history[Len(history)].config \in Configs
  BY HistoryLength DEF HealthyWasServed, Revisions
<1>3. CASE BeginRollback(p)
  <2>1. /\ pc[p] = "call" /\ history' = Begun(history, target[p])
        /\ quiet' = Window /\ Continue(p, "helm")
        /\ UNCHANGED <<serving, served, slot, attempt, snapshot, target, timer,
                       deploys>>
    BY <1>3 DEF BeginRollback
  <2> QED
    BY <1>1, <2>1, ContinueType, HistoryTypes, Constants DEF Places
<1>4. CASE FinishRollback(p)
  <2>1. /\ history' = Finished(history)
        /\ serving' = history[Len(history)].config
        /\ served' = served \cup {serving'}
        /\ timer' = [timer EXCEPT ![p] = Timeout]
        /\ Continue(p, "verify")
        /\ UNCHANGED <<slot, quiet, attempt, snapshot, target, deploys>>
    BY <1>4 DEF FinishRollback
  <2> QED
    BY <1>1, <1>2, <2>1, ContinueType, HistoryTypes, Constants DEF Places
<1>5. CASE AbortRollback(p)
  <2>1. /\ pc[p] = "helm" /\ history' = Aborted(history)
        /\ NextAttempt(p)
        /\ UNCHANGED <<serving, served, slot, quiet, snapshot, target, deploys>>
    BY <1>5 DEF AbortRollback
  <2> QED
    BY <2>1, NextAttemptType, HistoryTypes DEF Places
<1> QED
  BY <1>3, <1>4, <1>5

LEMMA PipelineType ==
  ASSUME Inv, NEW p \in Pipelines, Start(p) \/ PipelineStep(p)
  PROVE  TypeOK'
<1> USE DEF TypeOK, Inv
<1>1. \A at \in {"idle", "gate", "read", "choose", "call", "helm", "verify",
                 "backoff", "suppressed", "recovered", "failed"} : at \in Places
  BY DEF Places, Ended
<1>2. CASE Start(p)
  BY <1>1, <1>2, ContinueType DEF Start, Places, release
<1>3. CASE ClaimSlot(p)
  BY <1>1, <1>3, ContinueType, Constants DEF ClaimSlot, Places, release
<1>4. CASE Suppress(p)
  BY <1>1, <1>4, ContinueType DEF Suppress, Places, release
<1>5. CASE ReadHistory(p)
  BY <1>1, <1>5, ContinueType DEF ReadHistory, Places, release
<1>6. CASE ChooseTarget(p)
  <2> DEFINE t == LastHealthyRevision(snapshot[p], CurrentRevision(history))
  <2>1. t \in Nat
    BY TargetIsCandidate, LenProperties
  <2>2. <<>> \in Seq(Revisions)
    BY EmptySeq
  <2>3. /\ target' = [target EXCEPT ![p] = t]
        /\ snapshot' = [snapshot EXCEPT ![p] = <<>>]
        /\ \/ Continue(p, "failed")
           \/ Continue(p, "call")
        /\ UNCHANGED <<release, slot, quiet, attempt, timer, deploys>>
    BY <1>6 DEF ChooseTarget
  <2> QED
    BY <1>1, <2>1, <2>2, <2>3, ContinueType DEF Places, release
<1>7. CASE RollbackRefused(p)
  BY <1>7, NextAttemptType DEF RollbackRefused, Places, release
<1>8. CASE BeginRollback(p) \/ FinishRollback(p) \/ AbortRollback(p)
  BY <1>8, ReleaseType
<1>9. CASE Verified(p)
  BY <1>1, <1>9, ContinueType DEF Verified, Places, release
<1>10. CASE VerifyTimeout(p)
  BY <1>10, NextAttemptType DEF VerifyTimeout, Places, release
<1>11. CASE BackoffElapsed(p)
  BY <1>1, <1>11, ContinueType DEF BackoffElapsed, Places, release
<1> QED
  BY <1>2, <1>3, <1>4, <1>5, <1>6, <1>7, <1>8, <1>9, <1>10, <1>11
     DEF PipelineStep

LEMMA TypeNext == Inv /\ [Next]_vars => TypeOK'
<1> SUFFICES ASSUME Inv, [Next]_vars PROVE TypeOK'
  OBVIOUS
<1>1. ASSUME NEW p \in Pipelines, Start(p) \/ PipelineStep(p) PROVE TypeOK'
  BY <1>1, PipelineType
<1>2. CASE Deploy
  <2>1. PICK config \in Configs :
          /\ history' = Upgraded(history, config)
          /\ serving' = config
          /\ served' = served \cup {config}
    BY <1>2 DEF Deploy
  <2>2. history' \in Seq(Revisions)
    BY <2>1, HistoryTypes
  <2> QED
    BY <1>2, <2>1, <2>2, Constants DEF Deploy, Inv, TypeOK
<1>3. CASE Tick
  <2>1. \A n \in Nat : Down(n) \in Nat
    BY DEF Down
  <2>2. \A n \in 0..Window : Down(n) \in 0..Window
    BY Constants DEF Down
  <2>3. /\ slot' \in 0..Window /\ quiet' \in 0..Window
        /\ timer' \in [Pipelines -> Nat]
    BY <1>3, <2>1, <2>2 DEF Tick, Inv, TypeOK
  <2>4. UNCHANGED <<history, serving, served, pc, attempt, snapshot, target,
                    deploys>>
    BY <1>3 DEF Tick, release
  <2> QED
    BY <2>3, <2>4 DEF Inv, TypeOK
<1>4. CASE UNCHANGED vars
  BY <1>4 DEF vars, release, Inv, TypeOK
<1> QED
  BY <1>1, <1>2, <1>3, <1>4 DEF Next

-----------------------------------------------------------------------------
(* What was in service *)

\* Steps of one pipeline that leave the release alone.
LEMMA QuietStep ==
  ASSUME Inv, UNCHANGED release, NEW p \in Pipelines, NEW at,
         Continue(p, at), at \notin {"choose", "call", "helm"},
         \A q \in Pipelines \ {p} : /\ snapshot'[q] = snapshot[q]
                                    /\ target'[q] = target[q]
  PROVE  /\ HealthyWasServed'
         /\ \A q \in Pipelines : (Reads(q) /\ Chose(q) /\ Applies(q))'
<1>1. /\ history' = history /\ served' = served
      /\ pc'[p] = at /\ \A q \in Pipelines \ {p} : pc'[q] = pc[q]
  BY DEF Inv, TypeOK, Continue, release
<1>2. HealthyWasServed'
  BY <1>1 DEF Inv, HealthyWasServed
<1>3. ASSUME NEW q \in Pipelines PROVE (Reads(q) /\ Chose(q) /\ Applies(q))'
  BY <1>1 DEF Inv, Reads, Chose, Applies, InProgress
<1> QED
  BY <1>2, <1>3

\* The reader of the history sees what the invariant says of it.
LEMMA ReadStep ==
  ASSUME Inv, NEW p \in Pipelines, ReadHistory(p)
  PROVE  /\ HealthyWasServed'
         /\ \A q \in Pipelines : (Reads(q) /\ Chose(q) /\ Applies(q))'
<1>1. /\ history' = history /\ served' = served /\ target' = target
      /\ snapshot' = [snapshot EXCEPT ![p] = history]
      /\ pc'[p] = "choose" /\ \A q \in Pipelines \ {p} : pc'[q] = pc[q]
  BY DEF Inv, TypeOK, ReadHistory, Continue, release
<1>2. HealthyWasServed'
  BY <1>1 DEF Inv, HealthyWasServed
<1>3. Reads(p)'
  <2>1. snapshot'[p] = history
    BY <1>1 DEF Inv, TypeOK
  <2> QED
    BY <1>1, <2>1, HistoryLength DEF Inv, Reads, HealthyWasServed
<1>4. ASSUME NEW q \in Pipelines \ {p} PROVE Reads(q)'
  <2>1. snapshot'[q] = snapshot[q]
    BY <1>1 DEF Inv, TypeOK
  <2> QED
    BY <1>1, <2>1 DEF Inv, Reads
<1>5. ASSUME NEW q \in Pipelines PROVE (Chose(q) /\ Applies(q))'
  BY <1>1 DEF Inv, Chose, Applies, InProgress
<1> QED
  BY <1>2, <1>3, <1>4, <1>5

\* A target is chosen by the statuses and values of the snapshot and by the
\* values of the current revision.
LEMMA ChooseStep ==
  ASSUME Inv, NEW p \in Pipelines, ChooseTarget(p)
  PROVE  /\ HealthyWasServed'
         /\ \A q \in Pipelines : (Reads(q) /\ Chose(q) /\ Applies(q))'
<1> DEFINE t == LastHealthyRevision(snapshot[p], CurrentRevision(history))
<1>1. /\ pc[p] = "choose"
      /\ history' = history /\ served' = served
      /\ target' = [target EXCEPT ![p] = t]
      /\ snapshot' = [snapshot EXCEPT ![p] = <<>>]
      /\ pc'[p] = IF t = 0 THEN "failed" ELSE "call"
      /\ \A q \in Pipelines \ {p} : pc'[q] = pc[q]
  BY DEF Inv, TypeOK, ChooseTarget, Continue, release
<1>2. HealthyWasServed'
  BY <1>1 DEF Inv, HealthyWasServed
<1>3. Chose(p)'
  <2> SUFFICES ASSUME t # 0
               PROVE  t \in 1..Len(history) /\ history[t].config \in served
    BY <1>1 DEF Inv, TypeOK, Chose
  <2>1. /\ Len(snapshot[p]) \in Nat
        /\ DOMAIN snapshot[p] = 1..Len(snapshot[p])
    BY LenProperties DEF Inv, TypeOK
  <2>2. t \in Candidates(snapshot[p], CurrentRevision(history))
    BY TargetIsCandidate DEF Inv, TypeOK
  <2>3. /\ t \in 1..Len(snapshot[p])
        /\ snapshot[p][t].status \in {"deployed", "superseded"}
    BY <2>1, <2>2 DEF Candidates
  <2>4. Reads(p)
    BY DEF Inv
  <2> QED
    BY <1>1, <2>1, <2>3, <2>4, HistoryLength DEF Reads, Inv
<1>4. ASSUME NEW q \in Pipelines \ {p} PROVE (Reads(q) /\ Chose(q))'
  <2>1. snapshot'[q] = snapshot[q] /\ target'[q] = target[q]
    BY <1>1 DEF Inv, TypeOK
  <2> QED
    BY <1>1, <2>1 DEF Inv, Reads, Chose
<1>5. Reads(p)'
  BY <1>1 DEF Reads
<1>6. ASSUME NEW q \in Pipelines PROVE Applies(q)'
  BY <1>1 DEF Inv, Applies, InProgress
<1> QED
  BY <1>2, <1>3, <1>4, <1>5, <1>6

\* A history that only grows and keeps its configurations disturbs nobody who
\* has read it.
LEMMA ReadersKept ==
  ASSUME Inv, Len(history') \in Nat, Len(history) <= Len(history'),
         SameConfigs(history, history'), served \subseteq served',
         NEW q \in Pipelines,
         pc'[q] = pc[q], snapshot'[q] = snapshot[q], target'[q] = target[q]
  PROVE  Reads(q)' /\ Chose(q)'
<1>1. /\ Len(history) \in Nat
      /\ Len(snapshot[q]) \in Nat
  BY HistoryLength, LenProperties DEF Inv, TypeOK
<1>2. Reads(q) /\ Chose(q)
  BY DEF Inv
<1>3. Reads(q)'
  BY <1>1, <1>2 DEF Reads, SameConfigs
<1>4. Chose(q)'
  BY <1>1, <1>2 DEF Chose, SameConfigs
<1> QED
  BY <1>3, <1>4

LEMMA BeginStep ==
  ASSUME Inv, NEW p \in Pipelines, BeginRollback(p)
  PROVE  /\ HealthyWasServed'
         /\ \A q \in Pipelines : (Reads(q) /\ Chose(q) /\ Applies(q))'
<1>1. /\ pc[p] = "call" /\ ~InProgress(history)
      /\ history' = Begun(history, target[p])
      /\ served' = served /\ snapshot' = snapshot /\ target' = target
      /\ pc'[p] = "helm" /\ \A q \in Pipelines \ {p} : pc'[q] = pc[q]
  BY DEF Inv, TypeOK, BeginRollback, Continue
<1>2. /\ target[p] \in 1..Len(history)
      /\ history[target[p]].config \in served
      /\ Len(history) \in Nat /\ Len(history) > 0
  BY <1>1, HistoryLength DEF Inv, Chose, HealthyWasServed
<1>3. /\ Len(history') = Len(history) + 1
      /\ \A n \in 1..Len(history) : history'[n] = history[n]
      /\ history'[Len(history')] = [config |-> history[target[p]].config,
                                    status |-> "pending"]
  BY <1>1, <1>2, BegunHolds DEF Inv, TypeOK
<1>4. HealthyWasServed'
  BY <1>1, <1>2, <1>3 DEF Inv, HealthyWasServed
<1>5. ASSUME NEW q \in Pipelines \ {p} PROVE (Reads(q) /\ Chose(q))'
  BY <1>1, <1>2, <1>3, ReadersKept DEF SameConfigs
<1>6. (Reads(p) /\ Chose(p))'
  BY <1>1 DEF Reads, Chose
<1>7. ASSUME NEW q \in Pipelines \ {p} PROVE pc'[q] # "helm"
  BY <1>1 DEF Inv, Applies
<1>8. history'[Len(history') - 1].config \in served'
  BY <1>1, <1>2, <1>3 DEF Inv, HealthyWasServed
<1>9. ASSUME NEW q \in Pipelines PROVE Applies(q)'
  BY <1>2, <1>3, <1>7, <1>8 DEF Applies, InProgress
<1> QED
  BY <1>4, <1>5, <1>6, <1>9

LEMMA FinishStep ==
  ASSUME Inv, NEW p \in Pipelines, FinishRollback(p)
  PROVE  /\ HealthyWasServed'
         /\ \A q \in Pipelines : (Reads(q) /\ Chose(q) /\ Applies(q))'
<1>1. /\ pc[p] = "helm"
      /\ history' = Finished(history)
      /\ served \subseteq served' /\ snapshot' = snapshot /\ target' = target
      /\ pc'[p] = "verify" /\ \A q \in Pipelines \ {p} : pc'[q] = pc[q]
  BY DEF Inv, TypeOK, FinishRollback, Continue
<1>2. Len(history) \in Nat /\ Len(history) > 0
  BY HistoryLength DEF Inv, HealthyWasServed
<1>3. /\ Len(history') = Len(history)
      /\ SameConfigs(history, history')
      /\ \A n \in 1..Len(history) :
           n # Len(history) =>
             history'[n].status \in {history[n].status} \cup
               (IF history[n].status = "deployed" THEN {"superseded"} ELSE {})
  BY <1>1, <1>2, FinishedHolds DEF Inv, TypeOK
<1>4. HealthyWasServed'
  BY <1>1, <1>2, <1>3 DEF Inv, HealthyWasServed, SameConfigs
<1>5. ASSUME NEW q \in Pipelines \ {p} PROVE (Reads(q) /\ Chose(q))'
  BY <1>1, <1>2, <1>3, ReadersKept
<1>6. (Reads(p) /\ Chose(p))'
  BY <1>1 DEF Reads, Chose
<1>7. ASSUME NEW q \in Pipelines PROVE Applies(q)'
  BY <1>1 DEF Inv, Applies
<1> QED
  BY <1>4, <1>5, <1>6, <1>7

LEMMA AbortStep ==
  ASSUME Inv, NEW p \in Pipelines, AbortRollback(p)
  PROVE  /\ HealthyWasServed'
         /\ \A q \in Pipelines : (Reads(q) /\ Chose(q) /\ Applies(q))'
<1>1. /\ pc[p] = "helm"
      /\ history' = Aborted(history)
      /\ NextAttempt(p)
      /\ served' = served /\ snapshot' = snapshot /\ target' = target
  BY DEF AbortRollback
<1>2. /\ pc'[p] \in {"backoff", "failed"}
      /\ \A q \in Pipelines \ {p} : pc'[q] = pc[q]
  BY <1>1, NextAttemptType DEF Inv
<1>3. /\ Len(history) \in Nat /\ Len(history) > 1
      /\ history[Len(history) - 1].config \in served
  BY <1>1, HistoryLength DEF Inv, Applies
<1>4. /\ Len(history') = Len(history)
      /\ SameConfigs(history, history')
      /\ history'[Len(history)].status = "failed"
      /\ \A n \in 1..Len(history) :
           n < Len(history) - 1 => history'[n].status = history[n].status
  BY <1>1, <1>3, AbortedHolds DEF Inv, TypeOK
<1>5. HealthyWasServed'
  <2>1. \A n \in 1..Len(history) :
          \/ n < Len(history) - 1
          \/ n = Len(history) - 1
          \/ n = Len(history)
    BY <1>3
  <2> QED
    BY <1>1, <1>3, <1>4, <2>1 DEF Inv, HealthyWasServed, SameConfigs
<1>6. ASSUME NEW q \in Pipelines \ {p} PROVE (Reads(q) /\ Chose(q))'
  BY <1>1, <1>2, <1>3, <1>4, ReadersKept
<1>7. (Reads(p) /\ Chose(p))'
  BY <1>2 DEF Reads, Chose
<1>8. ASSUME NEW q \in Pipelines PROVE Applies(q)'
  BY <1>1, <1>2 DEF Inv, Applies
<1> QED
  BY <1>5, <1>6, <1>7, <1>8

LEMMA DeployStep ==
  ASSUME Inv, Deploy
  PROVE  /\ HealthyWasServed'
         /\ \A q \in Pipelines : (Reads(q) /\ Chose(q) /\ Applies(q))'
<1>1. /\ ~InProgress(history)
      /\ snapshot' = snapshot /\ target' = target /\ pc' = pc
  BY DEF Deploy
<1>2. PICK config \in Configs : /\ history' = Upgraded(history, config)
                               /\ served' = served \cup {config}
  BY DEF Deploy
<1>3. Len(history) \in Nat
  BY HistoryLength DEF Inv
<1>4. /\ Len(history') = Len(history) + 1
      /\ SameConfigs(history, history')
      /\ history'[Len(history')] = [config |-> config, status |-> "deployed"]
      /\ \A n \in 1..Len(history) :
           history'[n].status \in {history[n].status} \cup
             (IF history[n].status = "deployed" THEN {"superseded"} ELSE {})
  BY <1>2, UpgradedHolds DEF Inv, TypeOK
<1>5. HealthyWasServed'
  BY <1>2, <1>3, <1>4 DEF Inv, HealthyWasServed, SameConfigs
<1>6. ASSUME NEW q \in Pipelines PROVE (Reads(q) /\ Chose(q))'
  BY <1>1, <1>2, <1>3, <1>4, ReadersKept
<1>7. ASSUME NEW q \in Pipelines PROVE Applies(q)'
  BY <1>1 DEF Inv, Applies
<1> QED
  BY <1>5, <1>6, <1>7

-----------------------------------------------------------------------------
LEMMA PipelineKept ==
  ASSUME Inv, NEW p \in Pipelines, Start(p) \/ PipelineStep(p)
  PROVE  /\ HealthyWasServed'
         /\ \A q \in Pipelines : (Reads(q) /\ Chose(q) /\ Applies(q))'
<1>1. CASE ReadHistory(p)
  BY <1>1, ReadStep
<1>2. CASE ChooseTarget(p)
  BY <1>2, ChooseStep
<1>3. CASE BeginRollback(p)
  BY <1>3, BeginStep
<1>4. CASE FinishRollback(p)
  BY <1>4, FinishStep
<1>5. CASE AbortRollback(p)
  BY <1>5, AbortStep
<1>6. CASE Start(p) \/ ClaimSlot(p) \/ Suppress(p) \/ Verified(p)
           \/ BackoffElapsed(p)
  <2>1. PICK at \in {"gate", "read", "suppressed", "recovered"} : Continue(p, at)
    BY <1>6 DEF Start, ClaimSlot, Suppress, Verified, BackoffElapsed
  <2>2. UNCHANGED <<release, snapshot, target>>
    BY <1>6 DEF Start, ClaimSlot, Suppress, Verified, BackoffElapsed
  <2> QED
    BY <2>1, <2>2, QuietStep
<1>7. CASE RollbackRefused(p) \/ VerifyTimeout(p)
  <2>1. PICK at \in {"backoff", "failed"} : Continue(p, at)
    BY <1>7 DEF RollbackRefused, VerifyTimeout, NextAttempt
  <2>2. UNCHANGED <<release, snapshot, target>>
    BY <1>7 DEF RollbackRefused, VerifyTimeout
  <2> QED
    BY <2>1, <2>2, QuietStep
<1> QED
  BY <1>1, <1>2, <1>3, <1>4, <1>5, <1>6, <1>7 DEF PipelineStep

LEMMA InvNext == Inv /\ [Next]_vars => Inv'
<1> SUFFICES ASSUME Inv, [Next]_vars PROVE Inv'
  OBVIOUS
<1>1. TypeOK'
  BY TypeNext
<1>2. ASSUME NEW p \in Pipelines, Start(p) \/ PipelineStep(p) PROVE Inv'
  BY <1>1, <1>2, PipelineKept DEF Inv
<1>3. CASE Deploy
  BY <1>1, <1>3, DeployStep DEF Inv
<1>4. CASE Tick \/ UNCHANGED vars
  <2>1. UNCHANGED <<history, served, pc, snapshot, target>>
    BY <1>4 DEF Tick, vars, release
  <2> QED
    BY <1>1, <2>1
       DEF Inv, HealthyWasServed, Reads, Chose, Applies, InProgress
<1> QED
  BY <1>2, <1>3, <1>4 DEF Next

-----------------------------------------------------------------------------
\* The release, its recoveries and their clocks keep their types.
THEOREM TypeCorrect == Spec => []TypeOK
<1>1. Inv => TypeOK
  BY DEF Inv
<1> QED
  BY <1>1, InvInit, InvNext, PTL DEF Spec

\* A rollback restores values the service has run with before, for any number
\* of recoveries, attempts, deployments and failures of Helm in between.
THEOREM OnlyServedIsRestored == Spec => []RestoresServedConfig
<1>1. Inv => RestoresServedConfig
  BY DEF Inv, HealthyWasServed, RestoresServedConfig
<1> QED
  BY <1>1, InvInit, InvNext, PTL DEF Spec

-----------------------------------------------------------------------------
(* A single attempt that does not outlast its window *)

\* Where a pipeline works on the release, and where it may be after the gate.
Working == {"read", "choose", "call", "helm"}

\* The pipeline that works has the slot to itself, for as long as no time
\* passes, and the last window that began with a rollback ends with the slot's.
OneAtATime ==
  /\ quiet <= slot
  /\ \A p \in Pipelines :
       /\ pc[p] # "backoff"
       /\ pc[p] \in Working \cup {"verify"} => attempt[p] = 1
       /\ pc[p] \in Working =>
            /\ slot = Window
            /\ pc[p] # "helm" => quiet = 0
            /\ \A q \in Pipelines : pc[q] \in Working => q = p

LEMMA OneAtATimeInit == Init => OneAtATime
<1> SUFFICES ASSUME Init PROVE OneAtATime
  OBVIOUS
<1>1. quiet <= slot
  BY DEF Init
<1>2. \A p \in Pipelines : pc[p] = "idle"
  BY DEF Init
<1> QED
  BY <1>1, <1>2 DEF OneAtATime, Working

\* An attempt that fails is the last one.
LEMMA OnlyAttempt ==
  ASSUME TypeOK, MaxRetries = 1, NEW p \in Pipelines, attempt[p] = 1, NextAttempt(p)
  PROVE  Continue(p, "failed") /\ attempt' = attempt
<1>1. ~(attempt[p] < MaxRetries)
  OBVIOUS
<1> QED
  BY <1>1 DEF NextAttempt

\* Leaving off work, or never getting to it, is no matter for the others.
LEMMA OffWork ==
  ASSUME TypeOK, OneAtATime, NEW p \in Pipelines,
         NEW at \in {"gate", "suppressed", "recovered", "failed", "verify"},
         Continue(p, at), at = "verify" => attempt[p] = 1,
         UNCHANGED <<slot, quiet, attempt>>
  PROVE  OneAtATime'
<1>1. pc' = [pc EXCEPT ![p] = at] /\ pc \in [Pipelines -> Places]
  BY DEF Continue, TypeOK, Places
<1>2. pc'[p] = at /\ \A q \in Pipelines \ {p} : pc'[q] = pc[q]
  BY <1>1
<1> QED
  BY <1>2 DEF OneAtATime, Working

\* The pipeline at work goes on to the next point of its attempt.
LEMMA OnWork ==
  ASSUME TypeOK, OneAtATime, NEW p \in Pipelines, pc[p] \in Working,
         NEW at \in {"choose", "call"}, pc[p] # "helm", Continue(p, at),
         UNCHANGED <<slot, quiet, attempt>>
  PROVE  OneAtATime'
<1>1. pc' = [pc EXCEPT ![p] = at] /\ pc \in [Pipelines -> Places]
  BY DEF Continue, TypeOK, Places
<1>2. pc'[p] = at /\ \A q \in Pipelines \ {p} : pc'[q] = pc[q]
  BY <1>1
<1> QED
  BY <1>2 DEF OneAtATime, Working

LEMMA OneAtATimePipeline ==
  ASSUME MaxRetries = 1, TypeOK, OneAtATime, NEW p \in Pipelines,
         Start(p) \/ PipelineStep(p)
  PROVE  OneAtATime'
<1>1. CASE Start(p)
  BY <1>1, OffWork DEF Start
<1>2. CASE ClaimSlot(p)
  <2>1. /\ slot = 0 /\ slot' = Window /\ quiet' = quiet
        /\ pc' = [pc EXCEPT ![p] = "read"]
        /\ attempt' = [attempt EXCEPT ![p] = 1]
    BY <1>2 DEF ClaimSlot, Continue
  <2>2. /\ pc \in [Pipelines -> Places] /\ attempt \in [Pipelines -> 0..MaxRetries]
        /\ quiet \in Nat
    BY Constants DEF TypeOK, Places
  <2>3. quiet = 0 /\ Window > 0 /\ Window \in Nat
    BY <2>1, <2>2, Constants DEF OneAtATime
  <2>4. \A q \in Pipelines : pc[q] \notin Working
    BY <2>1, <2>3 DEF OneAtATime
  <2>5. \A q \in Pipelines \ {p} : pc'[q] = pc[q] /\ attempt'[q] = attempt[q]
    BY <2>1, <2>2
  <2>6. pc'[p] = "read" /\ attempt'[p] = 1
    BY <2>1, <2>2
  <2>7. \A q \in Pipelines : pc'[q] \in Working => q = p
    BY <2>4, <2>5
  <2>8. quiet' <= slot'
    BY <2>1, <2>3
  <2> QED
    BY <2>1, <2>3, <2>5, <2>6, <2>7, <2>8 DEF OneAtATime
<1>3. CASE Suppress(p)
  BY <1>3, OffWork DEF Suppress
<1>4. CASE ReadHistory(p)
  BY <1>4, OnWork DEF ReadHistory, Working
<1>5. CASE ChooseTarget(p)
  <2>1. PICK at \in {"failed", "call"} : Continue(p, at)
    BY <1>5 DEF ChooseTarget
  <2> QED
    BY <1>5, <2>1, OnWork, OffWork DEF ChooseTarget, Working
<1>6. CASE BeginRollback(p)
  <2>1. /\ pc[p] = "call" /\ quiet' = Window /\ slot' = slot /\ attempt' = attempt
        /\ pc' = [pc EXCEPT ![p] = "helm"]
    BY <1>6 DEF BeginRollback, Continue
  <2>2. pc \in [Pipelines -> Places]
    BY DEF TypeOK, Places
  <2>3. pc'[p] = "helm" /\ \A q \in Pipelines \ {p} : pc'[q] = pc[q]
    BY <2>1, <2>2
  <2>4. /\ slot = Window /\ attempt[p] = 1 /\ Window \in Nat
        /\ \A q \in Pipelines : pc[q] \in Working => q = p
    BY <2>1, Constants DEF OneAtATime, Working
  <2>5. \A q \in Pipelines : pc'[q] \in Working => q = p
    BY <2>3, <2>4
  <2>6. quiet' <= slot'
    BY <2>1, <2>4
  <2> QED
    BY <2>1, <2>3, <2>4, <2>5, <2>6 DEF OneAtATime
<1>7. CASE FinishRollback(p)
  <2>1. attempt[p] = 1
    BY <1>7 DEF FinishRollback, OneAtATime, Working
  <2> QED
    BY <1>7, <2>1, OffWork DEF FinishRollback
<1>8. CASE RollbackRefused(p) \/ AbortRollback(p) \/ VerifyTimeout(p)
  <2>1. attempt[p] = 1 /\ NextAttempt(p) /\ UNCHANGED <<slot, quiet>>
    BY <1>8 DEF RollbackRefused, AbortRollback, VerifyTimeout, OneAtATime, Working
  <2> QED
    BY <2>1, OnlyAttempt, OffWork
<1>9. CASE Verified(p)
  BY <1>9, OffWork DEF Verified
<1>10. CASE BackoffElapsed(p)
  BY <1>10 DEF BackoffElapsed, OneAtATime
<1> QED
  BY <1>1, <1>2, <1>3, <1>4, <1>5, <1>6, <1>7, <1>8, <1>9, <1>10 DEF PipelineStep

\* Time passes only when nobody is at work, and shortens both windows.
LEMMA OneAtATimeTick ==
  ASSUME ~SlowHelm, TypeOK, OneAtATime, Tick
  PROVE  OneAtATime'
<1>1. /\ \A p \in Pipelines : pc[p] \notin Working
      /\ slot' = Down(slot) /\ quiet' = Down(quiet)
      /\ UNCHANGED <<pc, attempt>>
  BY DEF Tick, Working
<1>2. slot \in Nat /\ quiet \in Nat
  BY Constants DEF TypeOK
<1>3. quiet' <= slot'
  BY <1>1, <1>2 DEF OneAtATime, Down
<1> QED
  BY <1>1, <1>3 DEF OneAtATime

LEMMA OneAtATimeNext ==
  ASSUME MaxRetries = 1, ~SlowHelm, TypeOK, OneAtATime, [Next]_vars
  PROVE  OneAtATime'
<1>1. ASSUME NEW p \in Pipelines, Start(p) \/ PipelineStep(p) PROVE OneAtATime'
  BY <1>1, OneAtATimePipeline
<1>2. CASE Tick
  BY <1>2, OneAtATimeTick
<1>3. CASE Deploy \/ UNCHANGED vars
  <2>1. UNCHANGED <<slot, quiet, pc, attempt>>
    BY <1>3 DEF Deploy, vars
  <2> QED
    BY <2>1 DEF OneAtATime
<1> QED
  BY <1>1, <1>2, <1>3 DEF Next

\* With a single attempt per recovery, which is over before the window it
\* claimed, a whole window lies between the starts of two rollbacks, for any
\* number of recoveries that alerts start at any time, with Helm and Prometheus
\* failing and releases deployed in between.  Each of the two hypotheses is
\* needed: a retry does not ask the gate again, and neither does an attempt
\* that takes longer than its window.
THEOREM WindowsAreKept ==
  ASSUME MaxRetries = 1, ~SlowHelm
  PROVE  Spec => OneRollbackPerWindow
<1>1. TypeOK /\ OneAtATime /\ [Next]_vars => OneAtATime'
  BY OneAtATimeNext
<1>2. OneAtATime =>
        [\A p \in Pipelines : pc[p] = "call" /\ pc'[p] = "helm" => quiet = 0]_vars
  BY DEF OneAtATime, Working
<1> QED
  BY <1>1, <1>2, OneAtATimeInit, TypeCorrect, PTL DEF Spec, OneRollbackPerWindow

-----------------------------------------------------------------------------
(* Each rollback changes the values *)

\* Between rollbacks the current revision is the one in service; should it
\* carry no values, the one before it does, and counts as healthy.
Rests ==
  /\ history[Len(history)].status = "deployed"
  /\ history[Len(history)].config = serving
  /\ serving = NoValues =>
       /\ Len(history) > 1
       /\ history[Len(history) - 1].status = "superseded"
       /\ history[Len(history) - 1].config # NoValues

\* What a recovery has read, chosen and recorded leads away from the values in
\* service.
Moves(p) ==
  /\ pc[p] = "choose" => snapshot[p] = history
  /\ pc[p] = "call" => history[target[p]].config # serving
  /\ pc[p] = "helm" =>
       /\ history[Len(history)].config # serving
       /\ history[Len(history) - 1].status = "deployed"
       /\ history[Len(history) - 1].config = serving

MovesInv ==
  /\ (\A p \in Pipelines : pc[p] # "helm") => Rests
  /\ \A p \in Pipelines : Moves(p)

LEMMA MovesInit ==
  ASSUME \A h \in Histories : h[Len(h)].config # NoValues, Init
  PROVE  MovesInv
<1>1. /\ history[Len(history)].status = "deployed"
      /\ history[Len(history)].config = serving /\ serving # NoValues
  BY ReleaseAssumption DEF Init
<1>2. \A p \in Pipelines : pc[p] = "idle"
  BY DEF Init
<1> QED
  BY <1>1, <1>2 DEF MovesInv, Moves, Rests

\* What the executor finds in the history of a release at rest has other
\* values than the current revision.
LEMMA TargetMoves ==
  ASSUME history \in Seq(Revisions), Len(history) > 0, Rests,
         LastHealthyRevision(history, Len(history)) # 0
  PROVE  history[LastHealthyRevision(history, Len(history))].config # serving
<1> DEFINE last == Len(history)
           t == LastHealthyRevision(history, last)
<1>1. last \in Nat /\ last > 0 /\ DOMAIN history = 1..last
  BY LenProperties
<1>2. t \in Candidates(history, last)
  BY TargetIsCandidate
<1>3. CurrentConfig(history, last) = serving
  BY <1>1 DEF CurrentConfig, Rests
<1>4. CASE serving # NoValues
  BY <1>2, <1>3, <1>4 DEF Candidates
<1>5. CASE serving = NoValues
  <2>1. /\ last > 1
        /\ history[last - 1].status = "superseded"
        /\ history[last - 1].config # NoValues
    BY <1>5 DEF Rests
  <2> HIDE DEF last
  <2>2. last - 1 \in DOMAIN history /\ last - 1 # last
    BY <1>1, <2>1
  <2>3. last - 1 \in Candidates(history, last)
    BY <1>3, <1>5, <2>1, <2>2 DEF Candidates
  <2>4. t >= last - 1
    BY <2>3, TargetIsNewest
  <2>5. t \in DOMAIN history /\ t # last
    BY <1>2 DEF Candidates
  <2> HIDE DEF t
  <2>6. t = last - 1
    BY <1>1, <2>4, <2>5
  <2> QED
    BY <1>5, <2>1, <2>6 DEF t, last
<1> QED
  BY <1>4, <1>5

\* A step that leaves the release alone and goes on to no point that the
\* invariant speaks of.
LEMMA MovesQuiet ==
  ASSUME TypeOK, MovesInv, UNCHANGED <<history, serving>>, NEW p \in Pipelines,
         pc[p] # "helm", NEW at, at \notin {"choose", "call", "helm"}, Continue(p, at),
         UNCHANGED <<snapshot, target>>
  PROVE  MovesInv'
<1>1. pc' = [pc EXCEPT ![p] = at] /\ pc \in [Pipelines -> Places]
  BY DEF Continue, TypeOK, Places
<1>2. pc'[p] = at /\ \A q \in Pipelines \ {p} : pc'[q] = pc[q]
  BY <1>1
<1>3. Rests => Rests'
  BY DEF Rests
<1>4. \A q \in Pipelines : Moves(q)'
  BY <1>2 DEF MovesInv, Moves
<1>5. (\A q \in Pipelines : pc'[q] # "helm") => \A q \in Pipelines : pc[q] # "helm"
  BY <1>2
<1> QED
  BY <1>3, <1>4, <1>5 DEF MovesInv

\* The pipeline that works is the only one, so that no other one is between
\* reading the history and the end of its rollback.
LEMMA OthersRest ==
  ASSUME OneAtATime, NEW p \in Pipelines, pc[p] \in Working
  PROVE  \A q \in Pipelines \ {p} : pc[q] \notin {"choose", "call", "helm"}
  BY DEF OneAtATime, Working

LEMMA MovesPipeline ==
  ASSUME Inv, OneAtATime, MovesInv, MaxRetries = 1, ~HelmMayFail,
         NEW p \in Pipelines, Start(p) \/ PipelineStep(p)
  PROVE  MovesInv'
<1> USE DEF Inv
<1>1. /\ pc \in [Pipelines -> Places]
      /\ history \in Seq(Revisions) /\ Len(history) \in Nat /\ Len(history) > 0
      /\ snapshot \in [Pipelines -> Seq(Revisions)] /\ target \in [Pipelines -> Nat]
  BY HistoryLength DEF TypeOK, Places, HealthyWasServed
<1>2. CASE Start(p) \/ ClaimSlot(p) \/ Suppress(p) \/ Verified(p)
           \/ BackoffElapsed(p)
  <2>1. PICK at \in {"gate", "read", "suppressed", "recovered"} : Continue(p, at)
    BY <1>2 DEF Start, ClaimSlot, Suppress, Verified, BackoffElapsed
  <2>2. UNCHANGED <<history, serving, snapshot, target>> /\ pc[p] # "helm"
    BY <1>2 DEF Start, ClaimSlot, Suppress, Verified, Verifiable, BackoffElapsed,
                release
  <2> QED
    BY <2>1, <2>2, MovesQuiet
<1>3. CASE RollbackRefused(p) \/ VerifyTimeout(p)
  <2>1. PICK at \in {"backoff", "failed"} : Continue(p, at)
    BY <1>3 DEF RollbackRefused, VerifyTimeout, NextAttempt
  <2>2. UNCHANGED <<history, serving, snapshot, target>> /\ pc[p] # "helm"
    BY <1>3 DEF RollbackRefused, VerifyTimeout, release
  <2> QED
    BY <2>1, <2>2, MovesQuiet
<1>4. CASE ReadHistory(p)
  <2>1. /\ pc[p] = "read"
        /\ snapshot' = [snapshot EXCEPT ![p] = history]
        /\ pc' = [pc EXCEPT ![p] = "choose"]
        /\ UNCHANGED <<history, serving, target>>
    BY <1>4 DEF ReadHistory, Continue, release
  <2>2. \A q \in Pipelines \ {p} : pc[q] \notin {"choose", "call", "helm"}
    BY <2>1, OthersRest DEF Working
  <2>3. /\ pc'[p] = "choose" /\ snapshot'[p] = history
        /\ \A q \in Pipelines \ {p} : pc'[q] = pc[q]
    BY <1>1, <2>1
  <2>4. Rests'
    BY <2>1, <2>2 DEF MovesInv, Rests
  <2>5. \A q \in Pipelines : Moves(q)'
    BY <2>1, <2>2, <2>3 DEF Moves
  <2> QED
    BY <2>4, <2>5 DEF MovesInv
<1>5. CASE ChooseTarget(p)
  <2> DEFINE t == LastHealthyRevision(snapshot[p], CurrentRevision(history))
  <2>1. /\ pc[p] = "choose"
        /\ target' = [target EXCEPT ![p] = t]
        /\ pc' = [pc EXCEPT ![p] = IF t = 0 THEN "failed" ELSE "call"]
        /\ UNCHANGED <<history, serving>>
    BY <1>5 DEF ChooseTarget, Continue, release
  <2>2. \A q \in Pipelines \ {p} : pc[q] \notin {"choose", "call", "helm"}
    BY <2>1, OthersRest DEF Working
  <2>3. Rests
    BY <2>1, <2>2 DEF MovesInv
  <2>4. t = LastHealthyRevision(history, Len(history))
    BY <2>1 DEF MovesInv, Moves, CurrentRevision
  <2>5. t # 0 => history[t].config # serving
    BY <1>1, <2>3, <2>4, TargetMoves
  <2> HIDE DEF t
  <2>6. /\ pc'[p] = IF t = 0 THEN "failed" ELSE "call"
        /\ target'[p] = t
        /\ \A q \in Pipelines \ {p} : pc'[q] = pc[q]
    BY <1>1, <2>1
  <2>7. Rests'
    BY <2>1, <2>3 DEF Rests
  <2>8. \A q \in Pipelines : Moves(q)'
    BY <2>1, <2>2, <2>5, <2>6 DEF Moves
  <2> QED
    BY <2>7, <2>8 DEF MovesInv
<1>6. CASE BeginRollback(p)
  <2>1. /\ pc[p] = "call"
        /\ history' = Begun(history, target[p])
        /\ pc' = [pc EXCEPT ![p] = "helm"]
        /\ serving' = serving
    BY <1>6 DEF BeginRollback, Continue
  <2>2. \A q \in Pipelines \ {p} : pc[q] \notin {"choose", "call", "helm"}
    BY <2>1, OthersRest DEF Working
  <2>3. Rests /\ history[target[p]].config # serving
    BY <2>1, <2>2 DEF MovesInv, Moves
  <2>4. target[p] \in 1..Len(history)
    BY <2>1 DEF Chose
  <2>5. /\ Len(history') = Len(history) + 1
        /\ \A n \in 1..Len(history) : history'[n] = history[n]
        /\ history'[Len(history')] = [config |-> history[target[p]].config,
                                      status |-> "pending"]
    BY <1>1, <2>1, <2>4, BegunHolds
  <2>6. /\ Len(history') - 1 = Len(history)
        /\ history'[Len(history)] = history[Len(history)]
    <3> DEFINE n == Len(history)
               m == Len(history')
    <3>1. n \in Nat /\ n > 0 /\ m = n + 1
      BY <1>1, <2>5
    <3>2. \A k \in 1..n : history'[k] = history[k]
      BY <2>5
    <3> HIDE DEF n, m
    <3>3. m - 1 = n /\ history'[n] = history[n]
      BY <3>1, <3>2
    <3> QED
      BY <3>3 DEF n, m
  <2>7. /\ pc'[p] = "helm"
        /\ \A q \in Pipelines \ {p} : pc'[q] = pc[q]
    BY <1>1, <2>1
  <2>8. /\ history'[Len(history')].config # serving'
        /\ history'[Len(history') - 1].status = "deployed"
        /\ history'[Len(history') - 1].config = serving'
    BY <2>1, <2>3, <2>5, <2>6 DEF Rests
  <2>9. \A q \in Pipelines : Moves(q)'
    BY <2>2, <2>7, <2>8 DEF Moves
  <2> QED
    BY <2>7, <2>9 DEF MovesInv
<1>7. CASE FinishRollback(p)
  <2> DEFINE last == Len(history)
  <2>1. /\ pc[p] = "helm"
        /\ history' = Finished(history)
        /\ serving' = history[last].config
        /\ pc' = [pc EXCEPT ![p] = "verify"]
    BY <1>7 DEF FinishRollback, Continue
  <2>2. \A q \in Pipelines \ {p} : pc[q] \notin {"choose", "call", "helm"}
    BY <2>1, OthersRest DEF Working
  <2>3. /\ history[last].config # serving
        /\ history[last - 1].status = "deployed"
        /\ history[last - 1].config = serving
        /\ last > 1
    BY <2>1 DEF MovesInv, Moves, Applies
  <2>4. /\ Len(history') = last
        /\ SameConfigs(history, history')
    BY <1>1, <2>1, FinishedHolds
  <2>5. /\ history'[last].status = "deployed"
        /\ \A n \in 1..last :
             n # last /\ history[n].status = "deployed"
               => history'[n].status = "superseded"
    BY <1>1, <2>1, FinishedServes
  <2> HIDE DEF last
  <2>6. last - 1 \in 1..last /\ last \in 1..last /\ last - 1 # last
    BY <1>1, <2>3 DEF last
  <2>7. /\ history'[last - 1].status = "superseded"
        /\ history'[last - 1].config = serving
        /\ history'[last].config = history[last].config
    BY <2>3, <2>4, <2>5, <2>6 DEF SameConfigs, last
  <2>8. Rests'
    BY <2>1, <2>3, <2>4, <2>5, <2>7 DEF Rests
  <2>9. \A q \in Pipelines : Moves(q)'
    <3>1. pc'[p] = "verify" /\ \A q \in Pipelines \ {p} : pc'[q] = pc[q]
      BY <1>1, <2>1
    <3> QED
      BY <2>2, <3>1 DEF Moves
  <2> QED
    BY <2>8, <2>9 DEF MovesInv
<1>8. CASE AbortRollback(p)
  BY <1>8 DEF AbortRollback
<1> QED
  BY <1>2, <1>3, <1>4, <1>5, <1>6, <1>7, <1>8 DEF PipelineStep

LEMMA MovesNext ==
  ASSUME MaxRetries = 1, ~HelmMayFail, MaxDeploys = 0,
         Inv, OneAtATime, MovesInv, [Next]_vars
  PROVE  MovesInv'
<1>1. ASSUME NEW p \in Pipelines, Start(p) \/ PipelineStep(p) PROVE MovesInv'
  BY <1>1, MovesPipeline
<1>2. CASE Deploy
  <2>1. deploys \in 0..0 /\ deploys < 0
    BY <1>2 DEF Deploy, Inv, TypeOK
  <2> QED
    BY <2>1
<1>3. CASE Tick \/ UNCHANGED vars
  <2>1. UNCHANGED <<history, serving, pc, snapshot, target>>
    BY <1>3 DEF Tick, vars, release
  <2> QED
    BY <2>1 DEF MovesInv, Moves, Rests
<1> QED
  BY <1>1, <1>2, <1>3 DEF Next

\* Verification begins with the end of a rollback only.
LEMMA OnlyFinishVerifies ==
  ASSUME Inv, ~HelmMayFail, Next, NEW p \in Pipelines,
         pc[p] = "helm", pc'[p] = "verify"
  PROVE  FinishRollback(p)
<1>1. PICK q \in Pipelines : Start(q) \/ PipelineStep(q)
  BY DEF Next, Deploy, Tick
<1>2. PICK at : pc' = [pc EXCEPT ![q] = at]
  BY <1>1 DEF PipelineStep, Start, ClaimSlot, Suppress, ReadHistory, ChooseTarget,
              BeginRollback, RollbackRefused, FinishRollback, AbortRollback,
              Verified, VerifyTimeout, BackoffElapsed, NextAttempt, Continue
<1>3. q = p
  BY <1>2 DEF Inv, TypeOK
<1> QED
  BY <1>1, <1>3 DEF PipelineStep, Start, ClaimSlot, Suppress, ReadHistory,
                    ChooseTarget, BeginRollback, RollbackRefused, AbortRollback,
                    Verified, Verifiable, VerifyTimeout, BackoffElapsed

\* With a single attempt per recovery that does not outlast its window, every
\* rollback that succeeds leaves the service with other values than before,
\* though a recovery that comes late may bring the faulty ones back.  A failed
\* rollback or a deployment between the reading of the history and the choice
\* of the target would leave the recovery with a stale idea of the current
\* values, and values that are empty at the start would keep no revision from
\* being chosen.
THEOREM RollbacksMove ==
  ASSUME MaxRetries = 1, ~SlowHelm, ~HelmMayFail, MaxDeploys = 0,
         \A h \in Histories : h[Len(h)].config # NoValues
  PROVE  Spec => EachRollbackChangesConfig
<1>1. Init => MovesInv
  BY MovesInit
<1>2. TypeOK /\ OneAtATime /\ [Next]_vars => OneAtATime'
  BY OneAtATimeNext
<1>3. Inv /\ OneAtATime /\ MovesInv /\ [Next]_vars => MovesInv'
  BY MovesNext
<1>4. Inv /\ MovesInv /\ [Next]_vars =>
        [\A p \in Pipelines : pc[p] = "helm" /\ pc'[p] = "verify"
                              => serving' # serving]_vars
  <2> SUFFICES ASSUME Inv, MovesInv, Next, NEW p \in Pipelines,
                      pc[p] = "helm", pc'[p] = "verify"
               PROVE  serving' # serving
    OBVIOUS
  <2>1. history[Len(history)].config # serving
    BY DEF MovesInv, Moves
  <2>2. FinishRollback(p)
    BY OnlyFinishVerifies
  <2> QED
    BY <2>1, <2>2 DEF FinishRollback
<1>5. Inv => TypeOK
  BY DEF Inv
<1> QED
  BY <1>1, <1>2, <1>3, <1>4, <1>5, OneAtATimeInit, InvInit, InvNext,
     PTL DEF Spec, EachRollbackChangesConfig
=============================================================================
