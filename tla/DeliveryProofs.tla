--------------------------- MODULE DeliveryProofs ---------------------------
(***************************************************************************)
(* For any services, objectives, answers of Prometheus, weights and any    *)
(* number of monitors: the delivery manager's records keep their types,    *)
(* and the run it holds active is the latest one and undecided, though     *)
(* monitors decide runs they fetched long before.  A rollout with a single *)
(* monitor is decided once.                                                *)
(***************************************************************************)
EXTENDS ProgressiveDelivery, FiniteSetTheorems, TLAPS

\* Runs are started in order, and monitors hold runs that were started.
StartedInOrder == \E n \in 0..MaxRuns : Started = 1..n
MonitorsHoldStarted ==
  \A m \in Monitors : monitor[m].run # 0 => monitor[m].run \in Started

IInv == TypeOK /\ StartedInOrder /\ MonitorsHoldStarted /\ ActiveRunIsOpen

-----------------------------------------------------------------------------
\* The bound on the runs is a number, and the weights hold the first one.
LEMMA Constants ==
  /\ MaxRuns \in Nat
  /\ 0 \in Weights
  BY DeliveryAssumption

\* What a monitor may hold: a run or none, and the details it saw or none.
MonitorRecords ==
  [run : 0..MaxRuns, seen : {{}} \cup {{d} : d \in Details}]

LEMMA TypeInit == Init => TypeOK
<1> SUFFICES ASSUME Init PROVE TypeOK
  OBVIOUS
<1>1. run \in [Ids -> Runs]
  BY DEF Init, Runs
<1>2. /\ active \in 0..MaxRuns
      /\ argo \in Details
  BY Constants DEF Init, Details
<1>3. monitor \in [Monitors -> MonitorRecords]
  BY Constants DEF Init, MonitorRecords
<1>4. recovery \in [Ids -> Recoveries]
  BY DEF Init, Recoveries
<1> QED
  BY <1>1, <1>2, <1>3, <1>4 DEF TypeOK, MonitorRecords

-----------------------------------------------------------------------------
\* A monitor that has fetched a record holds the number of a run.
LEMMA HeldRun ==
  ASSUME IInv, NEW m \in Monitors, monitor[m].run # 0
  PROVE  monitor[m].run \in Ids /\ run[monitor[m].run].result # "none"
  BY DEF IInv, MonitorsHoldStarted, Started

\* A monitor's return leaves its slot empty and every other one alone.
LEMMA ReturnHolds ==
  ASSUME IInv, NEW m \in Monitors, Return(m)
  PROVE  /\ monitor' \in [Monitors -> MonitorRecords]
         /\ \A k \in Monitors : \/ monitor'[k] = monitor[k]
                                \/ monitor'[k].run = 0
<1>1. monitor \in [Monitors -> MonitorRecords]
  BY DEF IInv, TypeOK, MonitorRecords
<1>2. [run |-> 0, seen |-> {}] \in MonitorRecords
  BY Constants DEF MonitorRecords
<1> QED
  BY <1>1, <1>2 DEF Return

\* A decision: the run the monitor held is decided and none is active.
LEMMA DecideHolds ==
  ASSUME IInv, NEW m \in Monitors, monitor[m].run # 0,
         NEW state \in {"Completed", "Aborted"},
         NEW result \in {"Promoted", "Aborted"},
         Decide(m, state, result)
  PROVE  /\ run' \in [Ids -> Runs]
         /\ active' = 0
         /\ Started' = Started
<1> DEFINE r == monitor[m].run
<1>1. r \in Ids /\ run[r].result # "none"
  BY HeldRun
<1>2. run \in [Ids -> Runs]
  BY DEF IInv, TypeOK
<1>3. run' = [run EXCEPT ![r] = [run[r] EXCEPT !.state = state, !.result = result]]
  BY <1>1, <1>2 DEF Decide, Runs
<1>4. run'[r] = [run[r] EXCEPT !.state = state, !.result = result]
  BY <1>1, <1>2, <1>3
<1>5. \A k \in Ids \ {r} : run'[k] = run[k]
  BY <1>2, <1>3
<1>6. run'[r] \in Runs /\ run'[r].result = result
  <2> DEFINE before == run[r]
             after == [before EXCEPT !.state = state, !.result = result]
  <2>1. before \in Runs
    BY <1>1, <1>2
  <2> HIDE DEF before
  <2>2. after \in Runs /\ after.result = result
    BY <2>1 DEF Runs
  <2> QED
    BY <1>4, <2>2 DEF before
<1>7. run' \in [Ids -> Runs]
  BY <1>2, <1>3, <1>4, <1>6
<1>8. \A k \in Ids : run'[k].result # "none" <=> run[k].result # "none"
  BY <1>1, <1>5, <1>6
<1> QED
  BY <1>7, <1>8 DEF Decide, Started, Ids

\* A promotion or a pause changes the state of the run and nothing else of it.
LEMMA MovesHolds ==
  ASSUME IInv, NEW m \in Monitors, monitor[m].run # 0,
         NEW state \in {"Promoting", "Paused"}, Moves(m, state)
  PROVE  /\ run' \in [Ids -> Runs]
         /\ \A k \in Ids : run'[k].result = run[k].result
<1>1. monitor[m].run \in Ids
  BY HeldRun
<1>2. run \in [Ids -> Runs]
  BY DEF IInv, TypeOK
<1> QED
  BY <1>1, <1>2 DEF Moves, Runs

-----------------------------------------------------------------------------
\* The number of runs started so far, which is the number of the latest.
LEMMA StartedCount ==
  ASSUME NEW n \in Nat, Started = 1..n
  PROVE  Cardinality(Started) = n
  BY FS_Interval

\* A new rollout takes the next number, is undecided and becomes the active run.
LEMMA CreateHolds ==
  ASSUME IInv, NEW s \in Services, CreateRollout(s)
  PROVE  IInv'
<1>1. PICK n \in 0..MaxRuns : Started = 1..n
  BY DEF IInv, StartedInOrder
<1>2. MaxRuns \in Nat /\ n \in Nat
  BY Constants
<1>3. Cardinality(Started) = n
  BY <1>1, <1>2, StartedCount
<1>4. PICK r \in Ids, decision \in StartsWith[s] :
        /\ r = n + 1
        /\ run' = [run EXCEPT ![r] = [service |-> s, decision |-> decision,
                                     state |-> "Starting", result |-> "Pending"]]
        /\ active' = r
  BY <1>3 DEF CreateRollout
<1> DEFINE new == [service |-> s, decision |-> decision,
                   state |-> "Starting", result |-> "Pending"]
<1>5. new \in Runs
  BY <1>4 DEF StartsWith, Runs
<1>6. run \in [Ids -> Runs]
  BY DEF IInv, TypeOK
<1>7. run' \in [Ids -> Runs] /\ run'[r] = new
  BY <1>4, <1>5, <1>6
<1>8. \A k \in Ids \ {r} : run'[k] = run[k]
  BY <1>4, <1>6
<1>9. Started' = Started \cup {r}
  BY <1>7, <1>8 DEF Started, Ids
<1>10. Started' = 1..(n + 1) /\ n + 1 \in 0..MaxRuns
  BY <1>1, <1>2, <1>4, <1>9 DEF Ids
<1>11. TypeOK'
  BY <1>4, <1>7, <1>10 DEF CreateRollout, IInv, TypeOK, Ids
<1>12. StartedInOrder'
  BY <1>10 DEF StartedInOrder
<1>13. MonitorsHoldStarted'
  BY <1>9 DEF IInv, MonitorsHoldStarted, CreateRollout
<1>14. ActiveRunIsOpen'
  BY <1>4, <1>7, <1>10 DEF ActiveRunIsOpen
<1> QED
  BY <1>11, <1>12, <1>13, <1>14 DEF IInv

\* A step that keeps the runs, the active one and their recoveries typed, and
\* the monitors' runs where they were or empties them.
LEMMA FetchHolds ==
  ASSUME IInv, NEW m \in Monitors, FetchRecord(m) \/ FetchDetails(m)
  PROVE  IInv'
<1>1. monitor \in [Monitors -> MonitorRecords] /\ argo \in Details
  BY DEF IInv, TypeOK, MonitorRecords
<1>2. CASE FetchRecord(m)
  <2>1. active \in 0..MaxRuns /\ active \in Started
    BY <1>2, Constants DEF FetchRecord, IInv, TypeOK, ActiveRunIsOpen
  <2>2. monitor' \in [Monitors -> MonitorRecords]
    BY <1>1, <1>2, <2>1 DEF FetchRecord, MonitorRecords
  <2>3. \A k \in Monitors : monitor'[k].run \in {monitor[k].run, active}
    BY <1>1, <1>2 DEF FetchRecord, MonitorRecords
  <2>4. TypeOK'
    BY <1>2, <2>2 DEF FetchRecord, IInv, TypeOK, MonitorRecords
  <2>5. Started' = Started
    BY <1>2 DEF FetchRecord, Started
  <2>6. MonitorsHoldStarted'
    BY <2>1, <2>3, <2>5 DEF IInv, MonitorsHoldStarted
  <2> QED
    BY <1>2, <2>4, <2>5, <2>6
       DEF FetchRecord, IInv, StartedInOrder, ActiveRunIsOpen
<1>3. CASE FetchDetails(m)
  <2>1. /\ monitor' \in [Monitors -> MonitorRecords]
        /\ \A k \in Monitors : \/ monitor'[k].run = monitor[k].run
                               \/ monitor'[k].run = 0
    <3>1. CASE monitor' = [monitor EXCEPT ![m].seen = {argo}]
      BY <1>1, <3>1 DEF MonitorRecords
    <3>2. CASE Return(m)
      BY <3>2, ReturnHolds
    <3> QED
      BY <1>3, <3>1, <3>2 DEF FetchDetails
  <2>2. TypeOK'
    BY <1>3, <2>1 DEF FetchDetails, IInv, TypeOK, MonitorRecords
  <2>3. Started' = Started
    BY <1>3 DEF FetchDetails, Started
  <2>4. MonitorsHoldStarted'
    BY <2>1, <2>3 DEF IInv, MonitorsHoldStarted
  <2> QED
    BY <1>3, <2>2, <2>3, <2>4
       DEF FetchDetails, IInv, StartedInOrder, ActiveRunIsOpen
<1> QED
  BY <1>2, <1>3

-----------------------------------------------------------------------------
\* A decision, whatever it does to Argo and the executor.
LEMMA DecisionHolds ==
  ASSUME IInv, NEW m \in Monitors, monitor[m].run # 0,
         NEW state \in {"Completed", "Aborted"},
         NEW result \in {"Promoted", "Aborted"},
         Decide(m, state, result), Return(m),
         argo' \in Details, recovery' \in [Ids -> Recoveries]
  PROVE  IInv'
<1>1. /\ run' \in [Ids -> Runs]
      /\ active' = 0
      /\ Started' = Started
  BY DecideHolds
<1>2. /\ monitor' \in [Monitors -> MonitorRecords]
      /\ \A k \in Monitors : \/ monitor'[k] = monitor[k]
                             \/ monitor'[k].run = 0
  BY ReturnHolds
<1>3. TypeOK'
  BY <1>1, <1>2, Constants DEF TypeOK, MonitorRecords
<1>4. MonitorsHoldStarted'
  BY <1>1, <1>2 DEF IInv, MonitorsHoldStarted
<1> QED
  BY <1>1, <1>3, <1>4 DEF IInv, StartedInOrder, ActiveRunIsOpen

\* A promotion or a pause, whatever it does to Argo.
LEMMA MoveHolds ==
  ASSUME IInv, NEW m \in Monitors, monitor[m].run # 0,
         NEW state \in {"Promoting", "Paused"},
         Moves(m, state), Return(m), argo' \in Details,
         UNCHANGED <<active, recovery>>
  PROVE  IInv'
<1>1. /\ run' \in [Ids -> Runs]
      /\ \A k \in Ids : run'[k].result = run[k].result
  BY MovesHolds
<1>2. Started' = Started
  BY <1>1 DEF Started, Ids
<1>3. /\ monitor' \in [Monitors -> MonitorRecords]
      /\ \A k \in Monitors : \/ monitor'[k] = monitor[k]
                             \/ monitor'[k].run = 0
  BY ReturnHolds
<1>4. TypeOK'
  BY <1>1, <1>3 DEF IInv, TypeOK, MonitorRecords
<1>5. MonitorsHoldStarted'
  BY <1>2, <1>3 DEF IInv, MonitorsHoldStarted
<1>6. ActiveRunIsOpen'
  BY <1>1, <1>2, Constants DEF IInv, TypeOK, ActiveRunIsOpen, Ids
<1> QED
  BY <1>2, <1>4, <1>5, <1>6 DEF IInv, StartedInOrder

\* A step that changes nothing but the rollout in the cluster, or the answer
\* of the executor, or a monitor that gives up.
LEMMA QuietHolds ==
  ASSUME IInv, UNCHANGED <<run, active>>, argo' \in Details,
         recovery' \in [Ids -> Recoveries],
         \/ UNCHANGED monitor
         \/ \E m \in Monitors : Return(m)
  PROVE  IInv'
<1>1. /\ monitor' \in [Monitors -> MonitorRecords]
      /\ \A k \in Monitors : \/ monitor'[k] = monitor[k]
                             \/ monitor'[k].run = 0
  BY ReturnHolds DEF IInv, TypeOK, MonitorRecords
<1>2. Started' = Started
  BY DEF Started
<1>3. TypeOK'
  BY <1>1 DEF IInv, TypeOK, MonitorRecords
<1>4. MonitorsHoldStarted'
  BY <1>1, <1>2 DEF IInv, MonitorsHoldStarted
<1> QED
  BY <1>2, <1>3, <1>4 DEF IInv, StartedInOrder, ActiveRunIsOpen

-----------------------------------------------------------------------------
LEMMA InvInit == Init => IInv
<1> SUFFICES ASSUME Init PROVE IInv
  OBVIOUS
<1>1. Started = {}
  BY DEF Init, Started
<1>2. StartedInOrder
  <2>1. 0 \in 0..MaxRuns /\ 1..0 = {}
    BY Constants
  <2> QED
    BY <1>1, <2>1 DEF StartedInOrder
<1>3. MonitorsHoldStarted /\ ActiveRunIsOpen
  BY DEF Init, MonitorsHoldStarted, ActiveRunIsOpen
<1> QED
  BY <1>2, <1>3, TypeInit DEF IInv

\* One case per action of the manager, the executor and Argo.
LEMMA InvNext == IInv /\ [Next]_vars => IInv'
<1> SUFFICES ASSUME IInv, [Next]_vars PROVE IInv'
  OBVIOUS
<1>1. /\ argo \in Details
      /\ recovery \in [Ids -> Recoveries]
  BY DEF IInv, TypeOK
<1>2. \A b \in BOOLEAN : [argo EXCEPT !.paused = b] \in Details
  BY <1>1 DEF Details
<1>3. ASSUME NEW s \in Services, CreateRollout(s) PROVE IInv'
  BY <1>3, CreateHolds
<1>4. ASSUME NEW m \in Monitors, FetchRecord(m) \/ FetchDetails(m) PROVE IInv'
  BY <1>4, FetchHolds
<1>5. ASSUME NEW m \in Monitors, Conclude(m) PROVE IInv'
  <2>1. /\ monitor[m].run # 0
        /\ Return(m) /\ UNCHANGED <<argo, recovery>>
        /\ \/ Decide(m, "Aborted", "Aborted")
           \/ Decide(m, "Completed", "Promoted")
    BY <1>5 DEF Conclude, Fetched, Idle
  <2> QED
    BY <1>1, <2>1, DecisionHolds
<1>6. ASSUME NEW m \in Monitors, AnalysisFails(m) PROVE IInv'
  BY <1>1, <1>6, QuietHolds DEF AnalysisFails
<1>7. ASSUME NEW m \in Monitors, Abort(m) PROVE IInv'
  <2>1. /\ monitor[m].run # 0
        /\ Return(m) /\ Decide(m, "Aborted", "Aborted")
        /\ argo' \in {argo, [argo EXCEPT !.paused = TRUE]}
        /\ recovery' = [recovery EXCEPT ![monitor[m].run] = "asked"]
    BY <1>7 DEF Abort, Undecided, Fetched, Idle
  <2>2. recovery' \in [Ids -> Recoveries] /\ argo' \in Details
    BY <1>1, <1>2, <2>1 DEF Recoveries
  <2> QED
    BY <2>1, <2>2, DecisionHolds
<1>8. ASSUME NEW m \in Monitors, Promote(m) PROVE IInv'
  <2>1. /\ monitor[m].run # 0
        /\ Return(m) /\ Moves(m, "Promoting")
        /\ argo' \in Details /\ UNCHANGED <<active, recovery>>
    BY <1>1, <1>2, <1>8 DEF Promote, Undecided, Fetched, Idle
  <2> QED
    BY <2>1, MoveHolds
<1>9. ASSUME NEW m \in Monitors, Pause(m) PROVE IInv'
  <2>1. /\ monitor[m].run # 0
        /\ Return(m) /\ Moves(m, "Paused")
        /\ argo' \in Details /\ UNCHANGED <<active, recovery>>
    BY <1>1, <1>2, <1>9 DEF Pause, Undecided, Fetched, Idle
  <2> QED
    BY <2>1, MoveHolds
<1>10. ASSUME NEW r \in Ids, ExecuteRollback(r) PROVE IInv'
  <2>1. recovery' \in [Ids -> Recoveries]
    BY <1>1, <1>10 DEF ExecuteRollback, Recoveries
  <2> QED
    BY <1>1, <1>10, <2>1, QuietHolds DEF ExecuteRollback
<1>11. CASE ArgoSteps
  <2>1. argo' \in Details
    BY <1>1, <1>11 DEF ArgoSteps, Details
  <2> QED
    BY <1>1, <1>11, <2>1, QuietHolds DEF ArgoSteps
<1>12. CASE ArgoAborts
  <2>1. argo' \in Details
    BY <1>1, <1>12 DEF ArgoAborts, Details
  <2> QED
    BY <1>1, <1>12, <2>1, QuietHolds DEF ArgoAborts
<1>13. CASE PauseOrResume
  <2>1. argo' \in Details
    BY <1>1, <1>13 DEF PauseOrResume, Details
  <2> QED
    BY <1>1, <1>13, <2>1, QuietHolds DEF PauseOrResume
<1>14. CASE ArgoRestarts
  <2>1. argo' \in Details
    BY <1>14, Constants DEF ArgoRestarts, Details
  <2> QED
    BY <1>1, <1>14, <2>1, QuietHolds DEF ArgoRestarts
<1>15. CASE UNCHANGED vars
  BY <1>1, <1>15, QuietHolds DEF vars
<1> QED
  BY <1>3, <1>4, <1>5, <1>6, <1>7, <1>8, <1>9, <1>10, <1>11, <1>12, <1>13,
     <1>14, <1>15 DEF Next

-----------------------------------------------------------------------------
\* Every run, monitor and answer of the executor keeps its type.
THEOREM TypeCorrect == Spec => []TypeOK
<1>1. IInv => TypeOK
  BY DEF IInv
<1> QED
  BY <1>1, InvInit, InvNext, PTL DEF Spec

\* The active run is the latest that was started and is undecided, for any
\* number of monitors that work on the records they fetched.
THEOREM ActiveRunIsLatest == Spec => []ActiveRunIsOpen
<1>1. IInv => ActiveRunIsOpen
  BY DEF IInv
<1> QED
  BY <1>1, InvInit, InvNext, PTL DEF Spec

\* An abort never rolls a release back: the incident it hands to the executor
\* is in a state the executor's first transition is refused from
\* (manager.go:207-214, executor.go:52-55).
THEOREM AbortNeverRollsBack ==
  Spec => [](\A r \in Ids : recovery[r] # "rolledBack")
<1> DEFINE NoneRolledBack == \A r \in Ids : recovery[r] # "rolledBack"
<1>1. Init => NoneRolledBack
  BY DEF Init
<1>2. TypeOK /\ NoneRolledBack /\ [Next]_vars => NoneRolledBack'
  <2> SUFFICES ASSUME TypeOK, NoneRolledBack, [Next]_vars PROVE NoneRolledBack'
    OBVIOUS
  <2>1. recovery \in [Ids -> Recoveries]
    BY DEF TypeOK
  <2>2. ASSUME NEW r \in Ids, ExecuteRollback(r) PROVE NoneRolledBack'
    <3>1. ~IsTransitionAllowed("Warning", "ExecutingRollback")
      BY DEF IsTransitionAllowed, Targets
    <3>2. recovery' = [recovery EXCEPT ![r] = "refused"]
      BY <2>2, <3>1 DEF ExecuteRollback
    <3> QED
      BY <2>1, <3>2
  <2>3. ASSUME NEW m \in Monitors, Abort(m) PROVE NoneRolledBack'
    BY <2>1, <2>3 DEF Abort
  <2>4. CASE UNCHANGED recovery
    BY <2>4
  <2> QED
    BY <2>2, <2>3, <2>4
       DEF Next, vars, CreateRollout, FetchRecord, FetchDetails, Conclude,
           AnalysisFails, Promote, Pause, ArgoSteps, ArgoAborts, PauseOrResume,
           ArgoRestarts
<1> QED
  BY <1>1, <1>2, TypeCorrect, PTL DEF Spec

-----------------------------------------------------------------------------
(* One monitor *)

\* With several monitors one may decide a run that another one has decided
\* since it fetched the record; the single monitor decides what it holds and
\* returns, so that what it holds is undecided.
HeldRunIsOpen ==
  \A m \in Monitors : monitor[m].run # 0 => run[monitor[m].run].result = "Pending"

\* A step that leaves the results of the runs the monitors go on to hold.
LEMMA StillHeld ==
  ASSUME HeldRunIsOpen,
         \A m \in Monitors : \/ monitor'[m].run = 0
                             \/ /\ monitor'[m].run = monitor[m].run
                                /\ run'[monitor[m].run].result
                                     = run[monitor[m].run].result
  PROVE  HeldRunIsOpen'
  BY DEF HeldRunIsOpen

\* The monitor that returns is the only one.
LEMMA LoneReturn ==
  ASSUME IInv, \A m, k \in Monitors : m = k, NEW m \in Monitors, Return(m)
  PROVE  HeldRunIsOpen' /\ \A k \in Monitors : monitor'[k].run = 0
<1>1. monitor \in [Monitors -> MonitorRecords]
  BY DEF IInv, TypeOK, MonitorRecords
<1>2. \A k \in Monitors : monitor'[k].run = 0
  BY <1>1 DEF Return
<1> QED
  BY <1>2 DEF HeldRunIsOpen

\* A new rollout has a number of its own.
LEMMA CreateKeeps ==
  ASSUME IInv, NEW s \in Services, CreateRollout(s)
  PROVE  /\ monitor' = monitor
         /\ \A r \in Started : run'[r] = run[r]
<1>1. PICK n \in 0..MaxRuns : Started = 1..n
  BY DEF IInv, StartedInOrder
<1>2. n \in Nat /\ Cardinality(Started) = n
  BY <1>1, Constants, StartedCount
<1>3. PICK r \in Ids, new \in {[service |-> s, decision |-> decision,
                                state |-> "Starting", result |-> "Pending"] :
                                 decision \in StartsWith[s]} :
        r = n + 1 /\ run' = [run EXCEPT ![r] = new]
  BY <1>2 DEF CreateRollout
<1>4. r \notin Started /\ run \in [Ids -> Runs] /\ Started \subseteq Ids
  BY <1>1, <1>2, <1>3 DEF IInv, TypeOK, Started
<1> QED
  BY <1>3, <1>4 DEF CreateRollout

\* A decision, a promotion and a pause write the run the monitor holds.
LEMMA WritesHeld ==
  ASSUME IInv, HeldRunIsOpen, NEW m \in Monitors, monitor[m].run # 0,
         \/ \E state \in {"Completed", "Aborted"}, result \in {"Promoted", "Aborted"} :
              Decide(m, state, result)
         \/ \E state \in {"Promoting", "Paused"} : Moves(m, state)
  PROVE  \A r \in Started : run[r].result # "Pending" => run'[r] = run[r]
<1>1. monitor[m].run \in Ids /\ run[monitor[m].run].result = "Pending"
  BY HeldRun DEF HeldRunIsOpen
<1>2. run \in [Ids -> Runs] /\ Started \subseteq Ids
  BY DEF IInv, TypeOK, Started
<1>3. \A r \in Ids : r # monitor[m].run => run'[r] = run[r]
  BY <1>1, <1>2 DEF Decide, Moves
<1> QED
  BY <1>1, <1>2, <1>3

\* One case per action, as in InvNext: the run that is held stays undecided,
\* and no decided run is written.
LEMMA LoneNext ==
  ASSUME \A m, k \in Monitors : m = k, IInv, HeldRunIsOpen, [Next]_vars
  PROVE  /\ HeldRunIsOpen'
         /\ \A r \in Started : run[r].result # "Pending" => run'[r] = run[r]
<1>1. ASSUME NEW s \in Services, CreateRollout(s)
      PROVE  /\ HeldRunIsOpen'
             /\ \A r \in Started : run'[r] = run[r]
  <2>1. monitor' = monitor /\ \A r \in Started : run'[r] = run[r]
    BY <1>1, CreateKeeps
  <2>2. \A m \in Monitors : monitor[m].run # 0 => monitor[m].run \in Started
    BY DEF IInv, MonitorsHoldStarted
  <2>3. \A m \in Monitors : \/ monitor'[m].run = 0
                            \/ /\ monitor'[m].run = monitor[m].run
                               /\ run'[monitor[m].run].result
                                    = run[monitor[m].run].result
    BY <2>1, <2>2
  <2> QED
    BY <2>1, <2>3, StillHeld
<1>2. ASSUME NEW m \in Monitors, FetchRecord(m)
      PROVE  HeldRunIsOpen' /\ run' = run
  <2>1. /\ active # 0 /\ run' = run
        /\ monitor' = [monitor EXCEPT ![m].run = active]
    BY <1>2 DEF FetchRecord
  <2>2. monitor \in [Monitors -> MonitorRecords]
    BY DEF IInv, TypeOK, MonitorRecords
  <2>3. \A k \in Monitors : monitor'[k].run = active
    BY <2>1, <2>2 DEF MonitorRecords
  <2>4. run[active].result = "Pending"
    BY <2>1 DEF IInv, ActiveRunIsOpen
  <2> QED
    BY <2>1, <2>3, <2>4 DEF HeldRunIsOpen
<1>3. ASSUME NEW m \in Monitors, FetchDetails(m)
      PROVE  HeldRunIsOpen' /\ run' = run
  <2>1. CASE monitor' = [monitor EXCEPT ![m].seen = {argo}]
    <3>1. monitor \in [Monitors -> MonitorRecords]
      BY DEF IInv, TypeOK, MonitorRecords
    <3>2. \A k \in Monitors : monitor'[k].run = monitor[k].run
      BY <2>1, <3>1 DEF MonitorRecords
    <3> QED
      BY <1>3, <3>2, StillHeld DEF FetchDetails
  <2>2. CASE Return(m)
    BY <1>3, <2>2, LoneReturn DEF FetchDetails
  <2> QED
    BY <1>3, <2>1, <2>2 DEF FetchDetails
<1>4. ASSUME NEW m \in Monitors,
             Conclude(m) \/ AnalysisFails(m) \/ Abort(m) \/ Promote(m) \/ Pause(m)
      PROVE  /\ HeldRunIsOpen'
             /\ \A r \in Started : run[r].result # "Pending" => run'[r] = run[r]
  <2>1. Return(m) /\ monitor[m].run # 0
    BY <1>4 DEF Conclude, AnalysisFails, Abort, Promote, Pause, Undecided, Fetched,
                Idle
  <2>2. \/ \E state \in {"Completed", "Aborted"}, result \in {"Promoted", "Aborted"} :
             Decide(m, state, result)
        \/ \E state \in {"Promoting", "Paused"} : Moves(m, state)
        \/ run' = run
    BY <1>4 DEF Conclude, AnalysisFails, Abort, Promote, Pause
  <2> QED
    BY <2>1, <2>2, LoneReturn, WritesHeld
<1>5. CASE UNCHANGED <<run, monitor>>
  BY <1>5 DEF HeldRunIsOpen
<1> QED
  BY <1>1, <1>2, <1>3, <1>4, <1>5
     DEF Next, vars, ExecuteRollback, ArgoSteps, ArgoAborts, PauseOrResume,
         ArgoRestarts

\* A rollout that is watched by a single monitor, as the documented use of the
\* manager is, is decided once, whatever is started, aborted in the cluster or
\* restarted between the monitor's fetches and its decision.
THEOREM LoneMonitorDecidesOnce ==
  ASSUME \A m, k \in Monitors : m = k
  PROVE  Spec => DecidedOnce
<1>1. Init => HeldRunIsOpen
  BY DEF Init, HeldRunIsOpen
<1>2. IInv /\ HeldRunIsOpen /\ [Next]_vars => HeldRunIsOpen'
  BY LoneNext
<1>3. IInv /\ HeldRunIsOpen /\ [Next]_vars =>
        [\A r \in Started : run[r].result # "Pending" => run'[r] = run[r]]_vars
  BY LoneNext
<1> QED
  BY <1>1, <1>2, <1>3, InvInit, InvNext, PTL DEF Spec, DecidedOnce
=============================================================================
