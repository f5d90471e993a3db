---------------------------- MODULE PeerRollback ----------------------------
(***************************************************************************)
(* The batch rollback of internal/operator/dependency/coordinator.go:      *)
(* after a recovery has rolled its service back, the direct callers and    *)
(* callees that were released together with the faulty revision are rolled *)
(* back too, through the same execution gate.  Services are upgraded one   *)
(* by one, fail, and recover concurrently, while the call graph is         *)
(* refreshed from Jaeger and time passes.                                  *)
(***************************************************************************)
EXTENDS Cooldown, HelmRelease, DependencyGraph

CONSTANTS
  Old, New,      \* the values before and after a service's upgrade
  Seed,          \* the declared edges (graph.go:34-36)
  Observable,    \* the edges Jaeger may report
  BatchWindow,   \* DEPENDENCY_BATCH_WINDOW_MINUTES
  GateWindow,    \* the window of an execution slot
  Alerting,      \* bound: the services whose alerts fire
  Horizon,       \* bound on time, for model checking
  MaxFaults      \* bound on Helm errors, for model checking

ASSUME PeerAssumption ==
  /\ {Old, New} \subseteq Configs \ {NoValues} /\ Old # New
  /\ Seed \cup Observable \subseteq Services \X Services
  /\ Alerting \subseteq Services
  /\ {BatchWindow, GateWindow, Horizon, MaxFaults} \subseteq Nat

VARIABLES
  now, cooldownUntil,   \* the clock and the map of the cooldown manager
  graph,                \* the current snapshot of the call graph
  history, deployedAt,  \* each service's revisions, and when they came
  recovery,             \* the recovery of each service and its expansion
  faults

vars == <<now, cooldownUntil, graph, history, deployedAt, recovery, faults>>

Roles == {"parent", "child"}
Points == {"idle", "rollback", "parents", "children", "next", "claim", "target",
           "apply", "failed"}
Times == 0..Horizon

\* faulty is the revision the recovery moved away from, upgraded the services
\* that were on their new values then (history), peers those left to consider,
\* peer and target the one at hand.
Recoveries == [at : Points, faulty : Nat, upgraded : SUBSET Services,
               peers : SUBSET (Roles \X Services), peer : Services, target : Nat]

TypeOK ==
  /\ now \in Times
  /\ cooldownUntil \in [Keys -> 0..(Horizon + GateWindow)]
  /\ graph \subseteq Services \X Services
  /\ history \in [Services -> Seq(Revisions)]
  /\ deployedAt \in [Services -> Seq(Times)]
  /\ recovery \in [Services -> Recoveries]
  /\ \A s \in Services :
       /\ Len(history[s]) = Len(deployedAt[s]) /\ Len(history[s]) > 0
       /\ recovery[s].faulty \in 0..Len(history[s])
       /\ recovery[s].target \in 0..Len(history[recovery[s].peer])
  /\ faults \in 0..MaxFaults

Init ==
  /\ now = 0 /\ cooldownUntil = NoWindows
  /\ graph = Seed
  /\ history = [s \in Services |-> <<[config |-> Old, status |-> "deployed"]>>]
  /\ deployedAt = [s \in Services |-> <<0>>]
  /\ recovery = [s \in Services |->
       [at |-> "idle", faulty |-> 0, upgraded |-> {}, peers |-> {}, peer |-> s,
        target |-> 0]]
  /\ faults = 0

Serves(s) == history[s][Len(history[s])].config
IsUpgraded(s) == Serves(s) = New

At(s, point) == recovery[s].at = point

\* The coordinator has no peer left to consider.
ExpansionDone(s) == At(s, "next") /\ recovery[s].peers = {}
Continue(s, point) == recovery' = [recovery EXCEPT ![s].at = point]
PeerDone(s) ==
  recovery' = [recovery EXCEPT ![s].at = "next", ![s].peer = s, ![s].target = 0]
Fault == faults < MaxFaults /\ faults' = faults + 1

\* A plausible mistake, for the checks of the properties: a revision that goes
\* back to another one takes no time of its own.
RevisedUndated(s, revisions) ==
  /\ history' = [history EXCEPT ![s] = revisions]
  /\ UNCHANGED deployedAt

Revised(s, revisions) ==
  /\ history' = [history EXCEPT ![s] = revisions]
  /\ deployedAt' = [deployedAt EXCEPT ![s] = Append(@, now)]
RolledBack(s, target) == Revised(s, Finished(Begun(history[s], target)))
LeftBehind(s, target) == Revised(s, Aborted(Begun(history[s], target)))

releases == <<history, deployedAt>>
clock == <<now, cooldownUntil>>

-----------------------------------------------------------------------------
(* The pipeline of a service that fails *)

Claim(s) ==
  /\ s \in Alerting /\ At(s, "idle")
  /\ Len(history[s]) > 1   \* bound: alerts follow an upgrade
  /\ SlotIsFree(cooldownUntil, now, s)
  /\ cooldownUntil' = SlotClaimed(cooldownUntil, now, s, GateWindow)
  /\ Continue(s, "rollback")
  /\ UNCHANGED <<now, graph, releases, faults>>

Execute(s) ==
  /\ At(s, "rollback")
  /\ LET current == Len(history[s])
         target == LastHealthyRevision(history[s], current)
     IN  \/ /\ target # 0
            /\ RolledBack(s, target)
            /\ recovery' = [recovery EXCEPT ![s].at = "parents",
                 ![s].faulty = current,
                 ![s].upgraded = {t \in Services : IsUpgraded(t)}]
            /\ UNCHANGED faults
         \/ /\ target # 0 /\ Fault
            /\ LeftBehind(s, target)
            /\ Continue(s, "failed")
         \/ /\ target = 0
            /\ Continue(s, "failed")
            /\ UNCHANGED <<releases, faults>>
  /\ UNCHANGED <<clock, graph>>

-----------------------------------------------------------------------------
(* RollbackBatchPeers *)

\* The graph may be refreshed between the two questions; an error while the
\* faulty revision is looked up ends the expansion.
FindParents(s) ==
  /\ At(s, "parents")
  /\ \/ /\ recovery' = [recovery EXCEPT ![s].at = "children",
             ![s].peers = {"parent"} \X GetParents(graph, s)]
        /\ UNCHANGED faults
     \/ Fault /\ Continue(s, "failed")
  /\ UNCHANGED <<clock, graph, releases>>

FindChildren(s) ==
  /\ At(s, "children")
  /\ recovery' = [recovery EXCEPT ![s].at = "next",
       ![s].peers = @ \cup ({"child"} \X GetChildren(graph, s))]
  /\ UNCHANGED <<clock, graph, releases, faults>>

\* A plausible mistake, for the checks of the properties: the gap keeps its
\* sign.
InBatchOrBefore(s, peer) ==
  deployedAt[peer][Len(history[peer])] - deployedAt[s][recovery[s].faulty]
    <= BatchWindow

\* The current revision of the peer is of the time of the faulty one.
InBatch(s, peer) ==
  LET peerTime == deployedAt[peer][Len(history[peer])]
      batchRef == deployedAt[s][recovery[s].faulty]
  IN  peerTime <= batchRef + BatchWindow /\ batchRef <= peerTime + BatchWindow

\* Parents come before children.  A peer is left as it is when it has nothing
\* to go back to, is not of the batch, or Helm does not answer.
NextPeer(s) ==
  /\ At(s, "next")
  /\ \E role \in Roles, peer \in Services :
       /\ <<role, peer>> \in recovery[s].peers
       /\ role = "child" => \A p \in recovery[s].peers : p[1] = "child"
       /\ LET others == recovery[s].peers \ {<<role, peer>>}
              considered == Len(history[peer]) > 1 /\ InBatch(s, peer)
          IN  \/ /\ considered
                 /\ recovery' = [recovery EXCEPT ![s].at = "claim",
                      ![s].peers = others, ![s].peer = peer]
                 /\ UNCHANGED faults
              \/ /\ \/ ~considered /\ UNCHANGED faults
                    \/ Fault
                 /\ recovery' = [recovery EXCEPT ![s].peers = others]
  /\ UNCHANGED <<clock, graph, releases>>

\* A plausible mistake, for the checks of the properties: the slot is taken
\* whoever has it.
ClaimPeerUnasked(s) ==
  /\ At(s, "claim")
  /\ cooldownUntil' = SlotClaimed(cooldownUntil, now, recovery[s].peer, GateWindow)
  /\ Continue(s, "target")
  /\ UNCHANGED <<now, graph, releases, faults>>

ClaimPeer(s) ==
  /\ At(s, "claim")
  /\ LET peer == recovery[s].peer
     IN  \/ /\ SlotIsFree(cooldownUntil, now, peer)
            /\ cooldownUntil' = SlotClaimed(cooldownUntil, now, peer, GateWindow)
            /\ Continue(s, "target")
         \/ /\ ~SlotIsFree(cooldownUntil, now, peer)
            /\ PeerDone(s)
            /\ UNCHANGED cooldownUntil
  /\ UNCHANGED <<now, graph, releases, faults>>

\* Without a target the peer keeps the slot that was claimed for it.
ChooseTarget(s) ==
  /\ At(s, "target")
  /\ LET revisions == history[recovery[s].peer]
         target == LastHealthyRevision(revisions, Len(revisions))
     IN  \/ /\ target # 0
            /\ recovery' = [recovery EXCEPT ![s].at = "apply", ![s].target = target]
            /\ UNCHANGED faults
         \/ /\ \/ target = 0 /\ UNCHANGED faults
               \/ Fault
            /\ PeerDone(s)
  /\ UNCHANGED <<clock, graph, releases>>

Apply(s) ==
  /\ At(s, "apply")
  /\ \/ RolledBack(recovery[s].peer, recovery[s].target) /\ UNCHANGED faults
     \/ LeftBehind(recovery[s].peer, recovery[s].target) /\ Fault
  /\ PeerDone(s)
  /\ UNCHANGED <<clock, graph>>

-----------------------------------------------------------------------------
\* Once per service, to its new values or to another chart with the old ones.
Upgrade(s) ==
  /\ Len(history[s]) = 1
  /\ \E config \in {Old, New} : Revised(s, Upgraded(history[s], config))
  /\ UNCHANGED <<clock, graph, recovery, faults>>

\* A refresh that fails keeps the snapshot.
Refresh ==
  /\ \E observed \in SUBSET Observable : graph' = Merged(Seed, observed)
  /\ graph' # graph
  /\ UNCHANGED <<clock, releases, recovery, faults>>

Tick ==
  /\ now < Horizon /\ now' = now + 1
  /\ UNCHANGED <<cooldownUntil, graph, releases, recovery, faults>>

Expansion(s) ==
  \/ FindParents(s) \/ FindChildren(s) \/ NextPeer(s)
  \/ ClaimPeer(s) \/ ChooseTarget(s) \/ Apply(s)

Next ==
  \/ \E s \in Services : Claim(s) \/ Execute(s) \/ Expansion(s) \/ Upgrade(s)
  \/ Refresh \/ Tick

Spec == Init /\ [][Next]_vars

-----------------------------------------------------------------------------
Busy(s) == ~At(s, "idle") /\ ~At(s, "failed") /\ ~ExpansionDone(s)

\* The point of the coordinator (coordinator.go:3-11): once every recovery is
\* over, no declared caller that had its new values when its callee was rolled
\* back calls the old callee with them, as long as Helm did not fail and the
\* two were released together.  It takes a gate window that outlasts the
\* recoveries: see NoReturnToTheBatch.
ReleasedTogether(s, t) ==
  /\ Len(history[s]) > 1 /\ Len(history[t]) > 1
  /\ deployedAt[s][2] <= deployedAt[t][2] + BatchWindow
  /\ deployedAt[t][2] <= deployedAt[s][2] + BatchWindow
CallersFollow ==
  (\A s \in Services : ~Busy(s)) /\ faults = 0 =>
    \A e \in Seed :
      /\ ExpansionDone(e[2]) /\ e[1] \in recovery[e[2]].upgraded
      /\ ReleasedTogether(e[1], e[2])
      => Serves(e[1]) = Old

\* An expansion rolls back a service only if the two ever called each other
\* and the service had a revision from the time of the faulty one, whatever
\* happened to it and to the graph in between (coordinator.go:109-152).
Near(s, t) ==
  \E n \in DOMAIN deployedAt[t] :
    LET batchRef == deployedAt[s][recovery[s].faulty]
    IN  /\ deployedAt[t][n] <= batchRef + BatchWindow
        /\ batchRef <= deployedAt[t][n] + BatchWindow
BlastRadius ==
  [][\A s \in Services :
       At(s, "apply") /\ recovery'[s] # recovery[s] =>
         LET t == recovery[s].peer
         IN  /\ <<s, t>> \in Seed \cup Observable \/ <<t, s>> \in Seed \cup Observable
             /\ Near(s, t)]_vars

\* Whatever a refresh adds to the graph, and whichever services were made
\* worse by their new values, root cause analysis never blames a service that
\* calls another one in trouble, unless services call each other in circles
\* (analyzer.go:98-112).
Acyclic(edges) == \A e \in edges : e[1] \notin GetDownstream(edges, e[2])
BlamesTheDeepest(edges, alerted, violating) ==
  LET inTrouble == GetDownstream(edges, alerted) \cap violating
  IN  \A cause \in RootCauses(edges, alerted, violating) :
        GetDownstream(edges, cause) \cap inTrouble = {}
RootCauseIsDeepest ==
  [][graph' # graph /\ Acyclic(graph') =>
       \A alerted \in Services :
         BlamesTheDeepest(graph', alerted, {s \in Services : IsUpgraded(s)})]_vars

\* "A peer that was already rolled back by its own incident (or by an earlier
\* batch expansion) is skipped" (coordinator.go:17-19): no service goes back to
\* the values of the batch.  It, too, takes a gate window that outlasts the
\* recoveries.
NoReturnToTheBatch ==
  \A s \in Services :
    Cardinality({n \in DOMAIN history[s] :
                   history[s][n].config = New /\ history[s][n].status # "failed"}) <= 1
=============================================================================
