------------------------ MODULE PeerRollbackProofs ------------------------
(***************************************************************************)
(* For any services, call graph, Jaeger traffic and number of concurrent   *)
(* recoveries, with Helm failing at will: a batch rollback touches only    *)
(* services that the failed one calls or is called by, and that had a      *)
(* revision from the time of the faulty one.  Until the first window of    *)
(* the gate has passed, no service returns to the values of the batch, and *)
(* the callers that were released with a faulty service follow it back.    *)
(* Root cause analysis blames the deepest service in trouble.              *)
(***************************************************************************)
EXTENDS PeerRollback, HelmReleaseProofs, FiniteSetTheorems

-----------------------------------------------------------------------------
(* The inductive invariant *)

Linked(s, t) == \/ <<s, t>> \in Seed \cup Observable
                \/ <<t, s>> \in Seed \cup Observable

\* Some revision of t came within a batch window of that revision of s.
NearRevision(s, faulty, t) ==
  \E n \in DOMAIN deployedAt[t] :
    LET batchRef == deployedAt[s][faulty]
    IN  /\ deployedAt[t][n] <= batchRef + BatchWindow
        /\ batchRef <= deployedAt[t][n] + BatchWindow

Expanding == {"parents", "children", "next", "claim", "target", "apply"}

\* What the record of a recovery of s may say.
Good(s, r) ==
  /\ r.faulty \in 0..Len(history[s])
  /\ r.target \in 0..Len(history[r.peer])
  /\ r.at \in Expanding => r.faulty # 0
  /\ \A e \in r.peers : Linked(s, e[2])
  /\ r.at \in {"claim", "target", "apply"} =>
       Linked(s, r.peer) /\ NearRevision(s, r.faulty, r.peer)
  /\ r.at = "apply" <=> r.target # 0

\* The part of the type invariant that is about the releases.
Releases ==
  /\ history \in [Services -> Seq(Revisions)]
  /\ deployedAt \in [Services -> Seq(Times)]
  /\ \A s \in Services :
       Len(history[s]) = Len(deployedAt[s]) /\ Len(history[s]) > 0

Inv == /\ TypeOK
       /\ graph \subseteq Seed \cup Observable
       /\ \A s \in Services : Good(s, recovery[s])

\* Revisions are only added, and keep the time they came.
Grows ==
  /\ Releases'
  /\ \A s \in Services :
       /\ Len(history[s]) <= Len(history'[s])
       /\ \A n \in 1..Len(history[s]) : deployedAt'[s][n] = deployedAt[s][n]

-----------------------------------------------------------------------------
LEMMA Constants ==
  /\ BatchWindow \in Nat /\ GateWindow \in Nat /\ Horizon \in Nat /\ MaxFaults \in Nat
  /\ Old \in Configs /\ New \in Configs
  /\ Seed \subseteq Services \X Services /\ Observable \subseteq Services \X Services
  BY PeerAssumption

LEMMA Lengths ==
  ASSUME Releases, NEW s \in Services
  PROVE  /\ Len(history[s]) \in Nat
         /\ DOMAIN history[s] = 1..Len(history[s])
         /\ DOMAIN deployedAt[s] = 1..Len(history[s])
         /\ \A n \in 1..Len(history[s]) : deployedAt[s][n] \in Nat
<1>1. /\ history[s] \in Seq(Revisions)
      /\ deployedAt[s] \in Seq(Times)
      /\ Len(history[s]) = Len(deployedAt[s])
  BY DEF Releases
<1> QED
  BY <1>1, LenProperties, ElementOfSeq, Constants DEF Times

\* What holds of a recovery goes on to hold when releases get new revisions.
LEMMA GoodGrows ==
  ASSUME Releases, Grows, NEW s \in Services, NEW r \in Recoveries, Good(s, r)
  PROVE  Good(s, r)'
<1>1. /\ r.peer \in Services /\ r.faulty \in Nat /\ r.target \in Nat
  BY DEF Recoveries
<1>2. Releases'
  BY DEF Grows
<1>3. ASSUME NEW t \in Services
      PROVE  /\ Len(history[t]) \in Nat /\ Len(history'[t]) \in Nat
             /\ Len(history[t]) <= Len(history'[t])
             /\ DOMAIN deployedAt[t] = 1..Len(history[t])
             /\ DOMAIN deployedAt'[t] = 1..Len(history'[t])
             /\ \A n \in 1..Len(history[t]) : deployedAt'[t][n] = deployedAt[t][n]
  <2>1. /\ Len(history[t]) \in Nat
        /\ DOMAIN deployedAt[t] = 1..Len(history[t])
    BY Lengths
  <2>2. /\ Len(history'[t]) \in Nat
        /\ DOMAIN deployedAt'[t] = 1..Len(history'[t])
    <3>1. /\ history'[t] \in Seq(Revisions)
          /\ deployedAt'[t] \in Seq(Times)
          /\ Len(history'[t]) = Len(deployedAt'[t])
      BY <1>2 DEF Releases
    <3> QED
      BY <3>1, LenProperties
  <2> QED
    BY <2>1, <2>2 DEF Grows
<1>4. ASSUME r.at \in {"claim", "target", "apply"}
      PROVE  NearRevision(s, r.faulty, r.peer)'
  <2>1. r.faulty \in 1..Len(history[s])
    BY <1>1, <1>3, <1>4 DEF Good, Expanding
  <2>2. PICK n \in DOMAIN deployedAt[r.peer] :
          /\ deployedAt[r.peer][n] <= deployedAt[s][r.faulty] + BatchWindow
          /\ deployedAt[s][r.faulty] <= deployedAt[r.peer][n] + BatchWindow
    BY <1>4 DEF Good, NearRevision
  <2>3. /\ n \in 1..Len(history[r.peer]) /\ n \in DOMAIN deployedAt'[r.peer]
    BY <1>1, <1>3, <2>2
  <2>4. /\ deployedAt'[r.peer][n] = deployedAt[r.peer][n]
        /\ deployedAt'[s][r.faulty] = deployedAt[s][r.faulty]
    BY <1>1, <1>3, <2>1, <2>3
  <2> QED
    BY <2>2, <2>3, <2>4 DEF NearRevision
<1> QED
  BY <1>1, <1>3, <1>4 DEF Good, Linked

\* A step that writes one recovery's record.
LEMMA RecordStep ==
  ASSUME Inv, Grows, NEW s \in Services, NEW r \in Recoveries, Good(s, r),
         recovery' = [recovery EXCEPT ![s] = r]
  PROVE  /\ recovery' \in [Services -> Recoveries]
         /\ \A t \in Services : Good(t, recovery[t])'
<1>1. recovery \in [Services -> Recoveries] /\ Releases
  BY DEF Inv, TypeOK, Releases
<1>2. ASSUME NEW t \in Services PROVE Good(t, recovery[t])'
  <2>1. /\ recovery'[t] \in Recoveries
        /\ Good(t, recovery'[t])
    BY <1>1 DEF Inv
  <2>2. \A x \in Recoveries : Good(t, x) => Good(t, x)'
    BY <1>1, GoodGrows
  <2> QED
    BY <2>1, <2>2 DEF Good, Linked, NearRevision
<1> QED
  BY <1>1, <1>2

-----------------------------------------------------------------------------
(* Releases only grow *)

LEMMA StillGrows == ASSUME Inv, UNCHANGED releases PROVE Grows
<1>1. Releases /\ history' = history /\ deployedAt' = deployedAt
  BY DEF Inv, TypeOK, Releases, releases
<1>2. Releases'
  BY <1>1 DEF Releases
<1>3. \A s \in Services : Len(history[s]) \in Nat
  BY <1>1, Lengths
<1> QED
  BY <1>1, <1>2, <1>3 DEF Grows

LEMMA RevisedGrows ==
  ASSUME Inv, NEW t \in Services, NEW revisions \in Seq(Revisions),
         Len(revisions) = Len(history[t]) + 1, Revised(t, revisions)
  PROVE  Grows
<1>1. Releases /\ now \in Times
  BY DEF Inv, TypeOK, Releases
<1>2. /\ history' = [history EXCEPT ![t] = revisions]
      /\ deployedAt' = [deployedAt EXCEPT ![t] = Append(deployedAt[t], now)]
  BY DEF Revised
<1>3. /\ Append(deployedAt[t], now) \in Seq(Times)
      /\ Len(Append(deployedAt[t], now)) = Len(deployedAt[t]) + 1
      /\ \A n \in 1..Len(deployedAt[t]) :
           Append(deployedAt[t], now)[n] = deployedAt[t][n]
  BY <1>1 DEF Releases
<1>4. \A s \in Services : Len(history[s]) \in Nat
  BY <1>1, Lengths
<1>5. Releases'
  BY <1>1, <1>2, <1>3, <1>4 DEF Releases
<1>6. ASSUME NEW s \in Services
      PROVE  /\ Len(history[s]) <= Len(history'[s])
             /\ \A n \in 1..Len(history[s]) : deployedAt'[s][n] = deployedAt[s][n]
  BY <1>1, <1>2, <1>3, <1>4 DEF Releases
<1> QED
  BY <1>5, <1>6 DEF Grows

\* A rollback records one more revision, whether Helm carries it out or not.
LEMMA RollbackGrows ==
  ASSUME Inv, NEW t \in Services, NEW target \in 1..Len(history[t]),
         RolledBack(t, target) \/ LeftBehind(t, target)
  PROVE  Grows
<1> DEFINE begun == Begun(history[t], target)
<1>1. /\ history[t] \in Seq(Revisions)
      /\ Len(history[t]) \in Nat /\ Len(history[t]) > 0
  BY Lengths DEF Inv, TypeOK, Releases
<1>2. begun \in Seq(Revisions) /\ Len(begun) = Len(history[t]) + 1
  BY <1>1, BegunHolds
<1>3. /\ Finished(begun) \in Seq(Revisions)
      /\ Len(Finished(begun)) = Len(history[t]) + 1
  BY <1>1, <1>2, FinishedHolds
<1>4. /\ Aborted(begun) \in Seq(Revisions)
      /\ Len(Aborted(begun)) = Len(history[t]) + 1
  BY <1>1, <1>2, AbortedHolds
<1> QED
  BY <1>3, <1>4, RevisedGrows DEF RolledBack, LeftBehind

\* A target the executor or the coordinator goes by is one of the revisions.
LEMMA TargetInHistory ==
  ASSUME Inv, NEW t \in Services
  PROVE  LET target == LastHealthyRevision(history[t], Len(history[t]))
         IN  /\ target \in 0..Len(history[t])
             /\ target # 0 => target \in 1..Len(history[t])
<1>1. history[t] \in Seq(Revisions) /\ Len(history[t]) \in Nat
  BY Lengths DEF Inv, TypeOK, Releases
<1> QED
  BY <1>1, TargetIsCandidate

-----------------------------------------------------------------------------
(* The actions *)

\* What is left to show of a step that writes one recovery's record.
LEMMA InvStep ==
  ASSUME Inv, Grows,
         now' = now, faults' \in 0..MaxFaults, graph' = graph,
         cooldownUntil' \in [Keys -> 0..(Horizon + GateWindow)],
         NEW s \in Services, NEW r \in Recoveries, Good(s, r),
         recovery' = [recovery EXCEPT ![s] = r]
  PROVE  Inv'
<1>1. /\ recovery' \in [Services -> Recoveries]
      /\ \A t \in Services : Good(t, recovery[t])'
  BY RecordStep
<1>2. TypeOK'
  BY <1>1 DEF Inv, TypeOK, Grows, Releases, Good
<1> QED
  BY <1>1, <1>2 DEF Inv

\* A fault that is counted, or none.
LEMMA FaultType == ASSUME Inv, Fault \/ faults' = faults PROVE faults' \in 0..MaxFaults
  BY Constants DEF Inv, TypeOK, Fault

\* A claim keeps the windows typed.
LEMMA ClaimType ==
  ASSUME Inv, NEW s \in Services
  PROVE  SlotClaimed(cooldownUntil, now, s, GateWindow)
           \in [Keys -> 0..(Horizon + GateWindow)]
<1>1. now + GateWindow \in 0..(Horizon + GateWindow)
  BY Constants DEF Inv, TypeOK, Times
<1> QED
  BY <1>1 DEF Inv, TypeOK, SlotClaimed

LEMMA ClaimStep ==
  ASSUME Inv, NEW s \in Services, Claim(s)
  PROVE  Inv'
<1> DEFINE r == [recovery[s] EXCEPT !.at = "rollback"]
<1>1. /\ recovery[s] \in Recoveries /\ recovery[s].at = "idle"
      /\ Good(s, recovery[s])
  BY DEF Inv, TypeOK, Claim, At
<1>2. r \in Recoveries /\ Good(s, r)
  BY <1>1 DEF Recoveries, Points, Good, Expanding
<1>3. /\ recovery' = [recovery EXCEPT ![s] = r]
      /\ UNCHANGED <<now, graph, releases, faults>>
      /\ cooldownUntil' = SlotClaimed(cooldownUntil, now, s, GateWindow)
  BY DEF Claim, Continue
<1> HIDE DEF r
<1> QED
  BY <1>2, <1>3, StillGrows, ClaimType, FaultType, InvStep

\* A record with other fields in their ranges is a record of a recovery.
LEMMA RecordOf ==
  ASSUME NEW r \in Recoveries
  PROVE  /\ \A peers \in SUBSET (Roles \X Services) :
              [r EXCEPT !.peers = peers] \in Recoveries
         /\ \A at \in Points :
              /\ [r EXCEPT !.at = at] \in Recoveries
              /\ \A peers \in SUBSET (Roles \X Services) :
                   [r EXCEPT !.at = at, !.peers = peers] \in Recoveries
              /\ \A peers \in SUBSET (Roles \X Services), peer \in Services :
                   [r EXCEPT !.at = at, !.peers = peers, !.peer = peer]
                     \in Recoveries
              /\ \A peer \in Services, target \in Nat :
                   [r EXCEPT !.at = at, !.peer = peer, !.target = target]
                     \in Recoveries
              /\ \A target \in Nat :
                   [r EXCEPT !.at = at, !.target = target] \in Recoveries
              /\ \A faulty \in Nat, upgraded \in SUBSET Services :
                   [r EXCEPT !.at = at, !.faulty = faulty, !.upgraded = upgraded]
                     \in Recoveries
  BY DEF Recoveries

\* Every action of a recovery starts from a record the invariant speaks of.
LEMMA RecordNow ==
  ASSUME Inv, NEW s \in Services
  PROVE  /\ recovery[s] \in Recoveries
         /\ recovery[s].peers \in SUBSET (Roles \X Services)
         /\ recovery[s].peer \in Services
         /\ recovery[s].faulty \in Nat /\ recovery[s].target \in Nat
         /\ Good(s, recovery[s])
         /\ Len(history[s]) \in Nat /\ Len(history[s]) > 0
         /\ cooldownUntil \in [Keys -> 0..(Horizon + GateWindow)]
<1>1. recovery[s] \in Recoveries
  BY DEF Inv, TypeOK
<1> QED
  BY <1>1, Lengths DEF Inv, TypeOK, Releases, Recoveries

\* A recovery that gives up, at no point where it has a peer at hand.
LEMMA GivesUp ==
  ASSUME Inv, NEW s \in Services,
         recovery[s].at \in {"rollback", "parents", "children"}
  PROVE  LET r == [recovery[s] EXCEPT !.at = "failed"]
         IN  r \in Recoveries /\ Good(s, r)
<1> DEFINE r == [recovery[s] EXCEPT !.at = "failed"]
<1>1. r \in Recoveries
  BY RecordNow, RecordOf DEF Points
<1>2. /\ r.at = "failed" /\ r.faulty = recovery[s].faulty
      /\ r.peers = recovery[s].peers
      /\ r.peer = recovery[s].peer /\ r.target = recovery[s].target
  BY RecordNow DEF Recoveries
<1> QED
  BY <1>1, <1>2, RecordNow DEF Good, Expanding

LEMMA ExecuteStep ==
  ASSUME Inv, NEW s \in Services, Execute(s)
  PROVE  Inv'
<1> DEFINE current == Len(history[s])
           target == LastHealthyRevision(history[s], current)
           failed == [recovery[s] EXCEPT !.at = "failed"]
           done == [recovery[s] EXCEPT !.at = "parents", !.faulty = current,
                      !.upgraded = {t \in Services : IsUpgraded(t)}]
<1>1. UNCHANGED <<now, cooldownUntil, graph>>
  BY DEF Execute, clock
<1>2. failed \in Recoveries /\ Good(s, failed)
  BY GivesUp DEF Execute, At
<1>3. done \in Recoveries /\ Good(s, done)
  <2>1. done \in Recoveries
    BY RecordNow, RecordOf DEF Points
  <2>2. /\ done.at = "parents" /\ done.faulty = current
        /\ done.peers = recovery[s].peers
        /\ done.peer = recovery[s].peer /\ done.target = recovery[s].target
        /\ recovery[s].at = "rollback"
    BY RecordNow DEF Recoveries, Execute, At
  <2> QED
    BY <2>1, <2>2, RecordNow DEF Good, Expanding
<1>4. CASE /\ target # 0 /\ RolledBack(s, target)
           /\ recovery' = [recovery EXCEPT ![s] = done] /\ UNCHANGED faults
  <2>1. Grows
    BY <1>4, TargetInHistory, RollbackGrows
  <2> HIDE DEF done
  <2> QED
    BY <1>1, <1>3, <1>4, <2>1, RecordNow, FaultType, InvStep
<1>5. CASE /\ target # 0 /\ Fault /\ LeftBehind(s, target) /\ Continue(s, "failed")
  <2>1. Grows
    BY <1>5, TargetInHistory, RollbackGrows
  <2>2. recovery' = [recovery EXCEPT ![s] = failed]
    BY <1>5 DEF Continue
  <2> HIDE DEF failed
  <2> QED
    BY <1>1, <1>2, <1>5, <2>1, <2>2, RecordNow, FaultType, InvStep
<1>6. CASE target = 0 /\ Continue(s, "failed") /\ UNCHANGED <<releases, faults>>
  <2>1. recovery' = [recovery EXCEPT ![s] = failed]
    BY <1>6 DEF Continue
  <2> HIDE DEF failed
  <2> QED
    BY <1>1, <1>2, <1>6, <2>1, RecordNow, StillGrows, FaultType, InvStep
<1> QED
  BY <1>4, <1>5, <1>6 DEF Execute

\* The peers are neighbours in the snapshot at hand, so in the declared graph
\* or in what Jaeger may report.
LEMMA FindStep ==
  ASSUME Inv, NEW s \in Services, FindParents(s) \/ FindChildren(s)
  PROVE  Inv'
<1> DEFINE parents == [recovery[s] EXCEPT !.at = "children",
                         !.peers = {"parent"} \X GetParents(graph, s)]
           children == [recovery[s] EXCEPT !.at = "next",
                          !.peers = @ \cup ({"child"} \X GetChildren(graph, s))]
           failed == [recovery[s] EXCEPT !.at = "failed"]
<1>1. /\ graph \subseteq Seed \cup Observable
      /\ graph \subseteq Services \X Services
  BY DEF Inv, TypeOK
<1>2. \A t \in GetParents(graph, s) \cup GetChildren(graph, s) :
        t \in Services /\ Linked(s, t)
  BY <1>1 DEF GetParents, GetChildren, Linked
<1>3. UNCHANGED <<now, cooldownUntil, graph, releases>>
  BY DEF FindParents, FindChildren, clock
<1>4. failed \in Recoveries /\ Good(s, failed)
  BY GivesUp DEF FindParents, FindChildren, At
<1>5. CASE FindParents(s)
  <2>1. recovery[s].at = "parents"
    BY <1>5 DEF FindParents, At
  <2>2. parents \in Recoveries /\ Good(s, parents)
    <3>1. parents \in Recoveries
      <4>1. {"parent"} \X GetParents(graph, s) \in SUBSET (Roles \X Services)
        BY <1>2 DEF Roles
      <4> QED
        BY <4>1, RecordNow, RecordOf DEF Points
    <3>2. /\ parents.at = "children" /\ parents.faulty = recovery[s].faulty
          /\ parents.peers = {"parent"} \X GetParents(graph, s)
          /\ parents.peer = recovery[s].peer
          /\ parents.target = recovery[s].target
      BY RecordNow DEF Recoveries
    <3>3. \A e \in parents.peers : Linked(s, e[2])
      BY <1>2, <3>2
    <3> QED
      BY <2>1, <3>1, <3>2, <3>3, RecordNow DEF Good, Expanding
  <2>3. \/ recovery' = [recovery EXCEPT ![s] = parents] /\ UNCHANGED faults
        \/ recovery' = [recovery EXCEPT ![s] = failed] /\ Fault
    BY <1>5 DEF FindParents, Continue
  <2> HIDE DEF parents, failed
  <2> QED
    BY <1>3, <1>4, <2>2, <2>3, RecordNow, StillGrows, FaultType, InvStep
<1>6. CASE FindChildren(s)
  <2>1. recovery[s].at = "children"
    BY <1>6 DEF FindChildren, At
  <2>2. children \in Recoveries /\ Good(s, children)
    <3> DEFINE found == {"child"} \X GetChildren(graph, s)
    <3>1. children \in Recoveries
      <4>1. recovery[s].peers \cup found \in SUBSET (Roles \X Services)
        BY <1>2, RecordNow DEF Roles
      <4> QED
        BY <4>1, RecordNow, RecordOf DEF Points
    <3>2. /\ children.at = "next" /\ children.faulty = recovery[s].faulty
          /\ children.peers = recovery[s].peers \cup found
          /\ children.peer = recovery[s].peer
          /\ children.target = recovery[s].target
      BY RecordNow DEF Recoveries
    <3>3. \A e \in children.peers : Linked(s, e[2])
      <4>1. \A e \in found : Linked(s, e[2])
        BY <1>2
      <4>2. \A e \in recovery[s].peers : Linked(s, e[2])
        BY RecordNow DEF Good
      <4> QED
        BY <3>2, <4>1, <4>2
    <3> QED
      BY <2>1, <3>1, <3>2, <3>3, RecordNow DEF Good, Expanding
  <2>3. recovery' = [recovery EXCEPT ![s] = children] /\ UNCHANGED faults
    BY <1>6 DEF FindChildren
  <2> HIDE DEF children
  <2> QED
    BY <1>3, <2>2, <2>3, RecordNow, StillGrows, FaultType, InvStep
<1> QED
  BY <1>5, <1>6

\* A peer is only taken up when its current revision is of the batch.
LEMMA NextPeerStep ==
  ASSUME Inv, NEW s \in Services, NextPeer(s)
  PROVE  Inv'
<1>1. PICK role \in Roles, peer \in Services :
        /\ <<role, peer>> \in recovery[s].peers
        /\ LET others == recovery[s].peers \ {<<role, peer>>}
               considered == Len(history[peer]) > 1 /\ InBatch(s, peer)
           IN  \/ /\ considered
                  /\ recovery' = [recovery EXCEPT ![s].at = "claim",
                       ![s].peers = others, ![s].peer = peer]
                  /\ UNCHANGED faults
               \/ /\ \/ ~considered /\ UNCHANGED faults
                     \/ Fault
                  /\ recovery' = [recovery EXCEPT ![s].peers = others]
  BY DEF NextPeer
<1> DEFINE others == recovery[s].peers \ {<<role, peer>>}
           taken == [recovery[s] EXCEPT !.at = "claim", !.peers = others,
                                        !.peer = peer]
           left == [recovery[s] EXCEPT !.peers = others]
<1>2. recovery[s].at = "next" /\ UNCHANGED <<now, cooldownUntil, graph, releases>>
  BY DEF NextPeer, At, clock
<1>3. left \in Recoveries /\ Good(s, left)
  <2>1. left \in Recoveries
    BY RecordNow, RecordOf DEF Points
  <2>2. /\ left.at = "next" /\ left.faulty = recovery[s].faulty
        /\ left.peers \subseteq recovery[s].peers
        /\ left.peer = recovery[s].peer /\ left.target = recovery[s].target
    BY <1>2, RecordNow DEF Recoveries
  <2> QED
    BY <1>2, <2>1, <2>2, RecordNow DEF Good, Expanding
<1>4. CASE /\ InBatch(s, peer)
           /\ recovery' = [recovery EXCEPT ![s] = taken] /\ UNCHANGED faults
  <2>1. NearRevision(s, recovery[s].faulty, peer)
    <3>1. Len(history[peer]) \in DOMAIN deployedAt[peer]
      BY Lengths DEF Inv, TypeOK, Releases
    <3> QED
      BY <1>4, <3>1 DEF InBatch, NearRevision
  <2>2. Linked(s, peer)
    BY <1>1, RecordNow DEF Good
  <2>3. taken \in Recoveries
    BY RecordNow, RecordOf DEF Points
  <2>4. /\ taken.at = "claim" /\ taken.faulty = recovery[s].faulty
        /\ taken.peers \subseteq recovery[s].peers
        /\ taken.peer = peer /\ taken.target = recovery[s].target
    BY RecordNow DEF Recoveries
  <2>5. recovery[s].target = 0
    BY <1>2, RecordNow DEF Good
  <2>6. Good(s, taken)
    BY <1>2, <2>1, <2>2, <2>4, <2>5, RecordNow DEF Good, Expanding
  <2> HIDE DEF taken
  <2> QED
    BY <1>2, <1>4, <2>3, <2>6, RecordNow, StillGrows, FaultType, InvStep
<1>5. CASE /\ recovery' = [recovery EXCEPT ![s] = left]
           /\ Fault \/ UNCHANGED faults
  <2> HIDE DEF left
  <2> QED
    BY <1>2, <1>3, <1>5, RecordNow, StillGrows, FaultType, InvStep
<1> QED
  BY <1>1, <1>4, <1>5, RecordNow DEF Recoveries

\* The peer at hand is done with, for whatever reason.
LEMMA PeerDoneHolds ==
  ASSUME Inv, NEW s \in Services, recovery[s].at \in {"claim", "target", "apply"},
         PeerDone(s)
  PROVE  \E r \in Recoveries :
           Good(s, r) /\ recovery' = [recovery EXCEPT ![s] = r]
<1> DEFINE r == [recovery[s] EXCEPT !.at = "next", !.peer = s, !.target = 0]
<1>1. r \in Recoveries
  BY RecordNow, RecordOf DEF Points
<1>2. /\ r.at = "next" /\ r.faulty = recovery[s].faulty
      /\ r.peers = recovery[s].peers /\ r.peer = s /\ r.target = 0
  BY RecordNow DEF Recoveries
<1>3. Good(s, r)
  BY <1>2, RecordNow DEF Good, Expanding
<1>4. recovery' = [recovery EXCEPT ![s] = r]
  BY DEF PeerDone
<1> QED
  BY <1>1, <1>3, <1>4

LEMMA ClaimPeerStep ==
  ASSUME Inv, NEW s \in Services, ClaimPeer(s)
  PROVE  Inv'
<1> DEFINE claimed == [recovery[s] EXCEPT !.at = "target"]
<1>1. recovery[s].at = "claim" /\ UNCHANGED <<now, graph, releases, faults>>
  BY DEF ClaimPeer, At
<1>2. CASE /\ cooldownUntil' =
                SlotClaimed(cooldownUntil, now, recovery[s].peer, GateWindow)
           /\ Continue(s, "target")
  <2>1. claimed \in Recoveries
    BY RecordNow, RecordOf DEF Points
  <2>2. /\ claimed.at = "target" /\ claimed.faulty = recovery[s].faulty
        /\ claimed.peers = recovery[s].peers
        /\ claimed.peer = recovery[s].peer
        /\ claimed.target = recovery[s].target
    BY RecordNow DEF Recoveries
  <2>3. Good(s, claimed)
    BY <1>1, <2>2, RecordNow DEF Good, Expanding
  <2>4. recovery' = [recovery EXCEPT ![s] = claimed]
    BY <1>2 DEF Continue
  <2> HIDE DEF claimed
  <2> QED
    BY <1>1, <1>2, <2>1, <2>3, <2>4, RecordNow, ClaimType, StillGrows, FaultType,
       InvStep
<1>3. CASE PeerDone(s) /\ UNCHANGED cooldownUntil
  BY <1>1, <1>3, PeerDoneHolds, RecordNow, StillGrows, FaultType, InvStep
<1> QED
  BY <1>2, <1>3 DEF ClaimPeer

LEMMA ChooseTargetStep ==
  ASSUME Inv, NEW s \in Services, ChooseTarget(s)
  PROVE  Inv'
<1> DEFINE revisions == history[recovery[s].peer]
           t == LastHealthyRevision(revisions, Len(revisions))
           chosen == [recovery[s] EXCEPT !.at = "apply", !.target = t]
<1>1. recovery[s].at = "target" /\ UNCHANGED <<now, cooldownUntil, graph, releases>>
  BY DEF ChooseTarget, At, clock
<1>2. CASE /\ t # 0 /\ recovery' = [recovery EXCEPT ![s] = chosen]
           /\ UNCHANGED faults
  <2>1. t \in 0..Len(revisions) /\ t \in Nat
    BY RecordNow, TargetInHistory
  <2>2. chosen \in Recoveries
    BY <2>1, RecordNow, RecordOf DEF Points
  <2>3. /\ chosen.at = "apply" /\ chosen.faulty = recovery[s].faulty
        /\ chosen.peers = recovery[s].peers
        /\ chosen.peer = recovery[s].peer /\ chosen.target = t
    BY RecordNow DEF Recoveries
  <2> HIDE DEF t, chosen
  <2>4. Good(s, chosen)
    BY <1>1, <1>2, <2>1, <2>3, RecordNow DEF Good, Expanding
  <2> QED
    BY <1>1, <1>2, <2>2, <2>4, RecordNow, StillGrows, FaultType, InvStep
<1>3. CASE PeerDone(s) /\ (Fault \/ UNCHANGED faults)
  BY <1>1, <1>3, PeerDoneHolds, RecordNow, StillGrows, FaultType, InvStep
<1> QED
  BY <1>2, <1>3 DEF ChooseTarget

LEMMA ApplyStep ==
  ASSUME Inv, NEW s \in Services, Apply(s)
  PROVE  Inv'
<1>1. /\ recovery[s].at = "apply" /\ PeerDone(s)
      /\ UNCHANGED <<now, cooldownUntil, graph>>
      /\ \/ RolledBack(recovery[s].peer, recovery[s].target) /\ UNCHANGED faults
         \/ LeftBehind(recovery[s].peer, recovery[s].target) /\ Fault
  BY DEF Apply, At, clock
<1>2. recovery[s].target \in 1..Len(history[recovery[s].peer])
  BY <1>1, RecordNow DEF Good
<1>3. Grows
  BY <1>1, <1>2, RecordNow, RollbackGrows
<1> QED
  BY <1>1, <1>3, PeerDoneHolds, RecordNow, FaultType, InvStep

\* An upgrade, a refresh and the clock write no recovery's record.
LEMMA OutsideStep ==
  ASSUME Inv, Grows, recovery' = recovery, faults' = faults,
         cooldownUntil' = cooldownUntil, now' \in Times,
         graph' \subseteq Services \X Services,
         graph' \subseteq Seed \cup Observable
  PROVE  Inv'
<1>1. Releases
  BY DEF Inv, TypeOK, Releases
<1>2. ASSUME NEW s \in Services PROVE Good(s, recovery[s])'
  <2>1. recovery[s] \in Recoveries /\ Good(s, recovery[s])
    BY RecordNow
  <2>2. \A x \in Recoveries : Good(s, x) => Good(s, x)'
    BY <1>1, GoodGrows
  <2> QED
    BY <2>1, <2>2 DEF Good, Linked, NearRevision
<1>3. TypeOK'
  BY <1>2 DEF Inv, TypeOK, Grows, Releases, Good
<1> QED
  BY <1>2, <1>3 DEF Inv

LEMMA UpgradeStep ==
  ASSUME Inv, NEW s \in Services, Upgrade(s)
  PROVE  Inv'
<1>1. PICK config \in Configs : Revised(s, Upgraded(history[s], config))
  BY Constants DEF Upgrade
<1>2. history[s] \in Seq(Revisions)
  BY DEF Inv, TypeOK
<1>3. Grows
  BY <1>1, <1>2, UpgradedHolds, RevisedGrows
<1> QED
  BY <1>3, OutsideStep DEF Upgrade, clock, Inv, TypeOK

LEMMA RefreshStep == ASSUME Inv, Refresh PROVE Inv'
<1>1. PICK observed \in SUBSET Observable : graph' = Merged(Seed, observed)
  BY DEF Refresh
<1>2. graph' \subseteq Seed \cup Observable
  BY <1>1 DEF Merged
<1>3. UNCHANGED <<now, cooldownUntil, releases, recovery, faults>>
  BY DEF Refresh, clock
<1> QED
  BY <1>2, <1>3, Constants, StillGrows, OutsideStep DEF Inv, TypeOK

LEMMA TickStep == ASSUME Inv, Tick PROVE Inv'
<1>1. now' \in Times
  BY Constants DEF Tick, Inv, TypeOK, Times
<1>2. UNCHANGED <<cooldownUntil, graph, releases, recovery, faults>>
  BY DEF Tick
<1> QED
  BY <1>1, <1>2, StillGrows, OutsideStep DEF Inv, TypeOK

-----------------------------------------------------------------------------
LEMMA InvInit == Init => Inv
<1> SUFFICES ASSUME Init PROVE Inv
  OBVIOUS
<1> DEFINE first == [config |-> Old, status |-> "deployed"]
<1>1. first \in Revisions
  BY Constants DEF Revisions, Statuses
<1>2. /\ <<first>> \in Seq(Revisions) /\ Len(<<first>>) = 1
      /\ <<0>> \in Seq(Times) /\ Len(<<0>>) = 1
  BY <1>1, Constants DEF Times
<1>3. /\ history \in [Services -> Seq(Revisions)]
      /\ deployedAt \in [Services -> Seq(Times)]
      /\ \A s \in Services : Len(history[s]) = 1 /\ Len(deployedAt[s]) = 1
  BY <1>2 DEF Init
<1>4. /\ recovery \in [Services -> Recoveries]
      /\ \A s \in Services : /\ recovery[s].at = "idle" /\ recovery[s].faulty = 0
                             /\ recovery[s].peers = {} /\ recovery[s].target = 0
  BY DEF Init, Recoveries, Points
<1>5. /\ now \in Times
      /\ cooldownUntil \in [Keys -> 0..(Horizon + GateWindow)]
      /\ graph \subseteq Services \X Services
      /\ graph \subseteq Seed \cup Observable
      /\ faults \in 0..MaxFaults
  BY Constants DEF Init, Times, NoWindows
<1>6. ASSUME NEW s \in Services PROVE Good(s, recovery[s])
  <2>1. recovery[s].peer \in Services
    BY <1>4 DEF Recoveries
  <2> QED
    BY <1>3, <1>4, <2>1 DEF Good, Expanding
<1>7. \A s \in Services : /\ Len(history[s]) = Len(deployedAt[s]) /\ Len(history[s]) > 0
                          /\ recovery[s].faulty \in 0..Len(history[s])
                          /\ recovery[s].target \in 0..Len(history[recovery[s].peer])
  <2> TAKE s \in Services
  <2>1. Len(history[s]) = Len(deployedAt[s]) /\ Len(history[s]) > 0
    <3>1. history[s] = <<first>> /\ deployedAt[s] = <<0>>
      BY DEF Init
    <3> QED
      BY <1>2, <3>1
  <2>2. /\ recovery[s].faulty \in 0..Len(history[s])
        /\ recovery[s].target \in 0..Len(history[recovery[s].peer])
    BY <1>6 DEF Good
  <2> QED
    BY <2>1, <2>2
<1>8. TypeOK
  BY <1>3, <1>4, <1>5, <1>7 DEF TypeOK
<1> QED
  BY <1>5, <1>6, <1>8 DEF Inv

LEMMA InvNext == Inv /\ [Next]_vars => Inv'
<1> SUFFICES ASSUME Inv, [Next]_vars PROVE Inv'
  OBVIOUS
<1>1. ASSUME NEW s \in Services,
             Claim(s) \/ Execute(s) \/ Expansion(s) \/ Upgrade(s)
      PROVE  Inv'
  BY <1>1, ClaimStep, ExecuteStep, FindStep, NextPeerStep, ClaimPeerStep,
     ChooseTargetStep, ApplyStep, UpgradeStep DEF Expansion
<1>2. CASE Refresh
  BY <1>2, RefreshStep
<1>3. CASE Tick
  BY <1>3, TickStep
<1>4. CASE UNCHANGED vars
  BY <1>4, StillGrows, OutsideStep DEF vars, releases, Inv, TypeOK
<1> QED
  BY <1>1, <1>2, <1>3, <1>4 DEF Next

-----------------------------------------------------------------------------
\* The clock, the gate, the graph, the releases and the recoveries keep their
\* types.
THEOREM TypeCorrect == Spec => []TypeOK
<1>1. Inv => TypeOK
  BY DEF Inv
<1> QED
  BY <1>1, InvInit, InvNext, PTL DEF Spec

\* A batch rollback stays within the neighbours of the failed service that had
\* a revision from the time of the faulty one, whatever is upgraded, rolled
\* back and refreshed between the questions it asks.
THEOREM BlastRadiusHolds == Spec => BlastRadius
<1>1. Inv /\ [Next]_vars =>
        [\A s \in Services :
           At(s, "apply") /\ recovery'[s] # recovery[s] =>
             LET t == recovery[s].peer
             IN  /\ <<s, t>> \in Seed \cup Observable \/ <<t, s>> \in Seed \cup Observable
                 /\ Near(s, t)]_vars
  <2> SUFFICES ASSUME Inv, NEW s \in Services, At(s, "apply")
               PROVE  Linked(s, recovery[s].peer) /\ Near(s, recovery[s].peer)
    BY DEF Linked
  <2> QED
    BY RecordNow DEF At, Good, Near, NearRevision
<1> QED
  BY <1>1, InvInit, InvNext, PTL DEF Spec, BlastRadius

-----------------------------------------------------------------------------
(* The first window of the gate *)

\* Until the first window of the gate has passed, a slot that was claimed stays
\* claimed: every service is rolled back at most once.
Claimed(t) == cooldownUntil[ExecKey(t)] # 0

\* The recovery of s is the one that may roll t back.
Works(s, t) ==
  \/ s = t /\ recovery[s].at = "rollback"
  \/ recovery[s].at \in {"target", "apply"} /\ recovery[s].peer = t

\* A history of the first window: the old values, an upgrade and a rollback.
Fits(h) ==
  /\ Len(h) \in 1..3
  /\ h[1].config = Old
  /\ Len(h) < 3 => h[1].status \in {"deployed", "superseded"}
  /\ Len(h) = 3 => h[3].config = Old

\* Services are claimed after their upgrade and before their rollback.
Once(t) ==
  /\ Fits(history[t])
  /\ Claimed(t) => cooldownUntil[ExecKey(t)] >= GateWindow /\ Len(history[t]) > 1
  /\ Len(history[t]) = 3 => Claimed(t)

\* What a recovery was told of its peers is still so.
Turn(s) ==
  /\ recovery[s].at = "claim" => Len(history[recovery[s].peer]) > 1
  /\ recovery[s].at = "apply" => recovery[s].target = 1
  /\ recovery[s].at \in Expanding => recovery[s].faulty = 2
  /\ \A c \in recovery[s].upgraded : Len(history[c]) > 1 /\ history[c][2].config = New

\* No two recoveries work on one service.
Alone ==
  \A s, t \in Services :
    Works(s, t) => /\ Claimed(t)
                   /\ Len(history[t]) = 2
                   /\ \A q \in Services : Works(q, t) => q = s

FirstWindow == Alone /\ \A s \in Services : Once(s) /\ Turn(s)

\* A service that was claimed with its new values is rolled back or has a
\* recovery that will do so.
Settled(t) ==
  Claimed(t) /\ Len(history[t]) = 2 /\ history[t][2].config = New =>
    \E s \in Services : Works(s, t)

\* A caller of the batch is claimed or is still to come.
Reaches(r, c) ==
  \/ r.at = "parents"
  \/ <<"parent", c>> \in r.peers
  \/ r.at = "claim" /\ r.peer = c
Owes(s, c) ==
  recovery[s].at \in Expanding /\ c \in recovery[s].upgraded /\ ReleasedTogether(c, s)
    => Claimed(c) \/ Reaches(recovery[s], c)

Follow ==
  faults = 0 => /\ \A t \in Services : Settled(t)
                /\ \A e \in Seed : Owes(e[2], e[1])

WindowInv ==
  Inv /\ Seed \subseteq graph /\ (now < GateWindow => FirstWindow /\ Follow)

Early == WindowInv /\ now < GateWindow
Onward == FirstWindow' /\ Follow'

\* What is known throughout the first window.
LEMMA EarlyHolds ==
  ASSUME Early
  PROVE  /\ Inv /\ Seed \subseteq graph
         /\ Alone
         /\ \A t \in Services : Once(t) /\ Turn(t)
         /\ Follow
  BY DEF Early, WindowInv, FirstWindow

\* A claim takes the slot of its service and of no other.
LEMMA ClaimTakes ==
  ASSUME Inv, NEW t \in Services,
         cooldownUntil' = SlotClaimed(cooldownUntil, now, t, GateWindow)
  PROVE  /\ cooldownUntil'[ExecKey(t)] = now + GateWindow
         /\ \A u \in Services \ {t} :
              cooldownUntil'[ExecKey(u)] = cooldownUntil[ExecKey(u)]
<1>1. cooldownUntil \in [Keys -> 0..(Horizon + GateWindow)]
  BY DEF Inv, TypeOK
<1>2. \A u \in Services : ExecKey(u) \in Keys
  BY DEF ExecKey, Keys
<1>3. \A u \in Services : ExecKey(u) = ExecKey(t) => u = t
  BY DEF ExecKey
<1> QED
  BY <1>1, <1>2, <1>3 DEF SlotClaimed

\* Within the window a slot is free exactly when it was never claimed.
LEMMA FreeIsUnclaimed ==
  ASSUME Early, NEW t \in Services
  PROVE  SlotIsFree(cooldownUntil, now, t) <=> ~Claimed(t)
<1>1. /\ cooldownUntil \in [Keys -> 0..(Horizon + GateWindow)]
      /\ now \in Nat /\ GateWindow \in Nat /\ Horizon \in Nat
  BY EarlyHolds, Constants DEF Inv, TypeOK, Times
<1>2. ExecKey(t) \in Keys
  BY DEF ExecKey, Keys
<1>3. cooldownUntil[ExecKey(t)] \in Nat
  BY <1>1, <1>2
<1>4. Claimed(t) => cooldownUntil[ExecKey(t)] >= GateWindow
  BY EarlyHolds DEF Once
<1>5. now < GateWindow
  BY DEF Early
<1> HIDE DEF ExecKey
<1> QED
  BY <1>1, <1>3, <1>4, <1>5 DEF SlotIsFree, Claimed

\* The record that is written, and all the others.
LEMMA OneWrite ==
  ASSUME Inv, NEW s \in Services, NEW r, recovery' = [recovery EXCEPT ![s] = r]
  PROVE  /\ recovery'[s] = r
         /\ \A q \in Services \ {s} : recovery'[q] = recovery[q]
  BY DEF Inv, TypeOK

\* The revisions that were there keep their times, so that two services were
\* released together or not for good.
LEMMA TogetherKept ==
  ASSUME Inv, Grows, NEW s \in Services, NEW c \in Services,
         Len(history[s]) > 1, Len(history[c]) > 1, ReleasedTogether(c, s)'
  PROVE  ReleasedTogether(c, s)
<1>1. Releases
  BY DEF Inv, TypeOK, Releases
<1>2. Len(history[s]) \in Nat /\ Len(history[c]) \in Nat
  BY <1>1, Lengths
<1>3. 2 \in 1..Len(history[s]) /\ 2 \in 1..Len(history[c])
  BY <1>2
<1>4. /\ deployedAt'[s][2] = deployedAt[s][2]
      /\ deployedAt'[c][2] = deployedAt[c][2]
  BY <1>3 DEF Grows
<1> QED
  BY <1>4 DEF ReleasedTogether

\* A recovery that expands has rolled its service back, and its callers of the
\* batch have had their upgrades.
LEMMA ExpandingHas ==
  ASSUME Early, NEW s \in Services, NEW c \in recovery[s].upgraded,
         recovery[s].at \in Expanding
  PROVE  c \in Services /\ Len(history[s]) > 1 /\ Len(history[c]) > 1
<1>1. recovery[s].upgraded \subseteq Services
  BY EarlyHolds DEF Inv, TypeOK, Recoveries
<1>2. recovery[s].faulty = 2 /\ Len(history[c]) > 1
  BY EarlyHolds DEF Turn
<1>3. /\ recovery[s].faulty \in 0..Len(history[s]) /\ Len(history[s]) \in Nat
  BY EarlyHolds, RecordNow DEF Good
<1>4. Len(history[s]) > 1
  BY <1>2, <1>3
<1> QED
  BY <1>1, <1>2, <1>4

\* The number of revisions of a service.
LEMMA Count ==
  ASSUME Early, NEW t \in Services
  PROVE  /\ Len(history[t]) \in 1..3
         /\ Len(history[t]) > 1 /\ ~Claimed(t) => Len(history[t]) = 2
<1>1. Fits(history[t]) /\ (Len(history[t]) = 3 => Claimed(t))
  BY EarlyHolds DEF Once
<1>2. Len(history[t]) \in 1..3
  BY <1>1 DEF Fits
<1>3. \A k \in 1..3 : k > 1 /\ k # 3 => k = 2
  OBVIOUS
<1> QED
  BY <1>1, <1>2, <1>3

-----------------------------------------------------------------------------
\* A recovery claims a slot that nobody has claimed: its own or its peer's.
LEMMA ClaimOnward ==
  ASSUME Early, NEW s \in Services, NEW t \in Services, NEW r,
         ~Claimed(t), Len(history[t]) > 1,
         cooldownUntil' = SlotClaimed(cooldownUntil, now, t, GateWindow),
         UNCHANGED <<now, releases, faults>>,
         recovery' = [recovery EXCEPT ![s] = r],
         \/ recovery[s].at = "idle" /\ r.at = "rollback" /\ s = t
         \/ recovery[s].at = "claim" /\ r.at = "target" /\ recovery[s].peer = t,
         r.peer = recovery[s].peer, r.peers = recovery[s].peers,
         r.faulty = recovery[s].faulty, r.upgraded = recovery[s].upgraded
  PROVE  Onward
<1>1. /\ recovery'[s] = r
      /\ \A q \in Services \ {s} : recovery'[q] = recovery[q]
  BY EarlyHolds, OneWrite
<1>2. history' = history /\ deployedAt' = deployedAt /\ faults' = faults
  BY DEF releases
<1>3. now \in Nat /\ GateWindow \in Nat
  BY EarlyHolds, Constants DEF Inv, TypeOK, Times
<1>4. /\ cooldownUntil'[ExecKey(t)] = now + GateWindow
      /\ \A u \in Services \ {t} :
           cooldownUntil'[ExecKey(u)] = cooldownUntil[ExecKey(u)]
  BY EarlyHolds, ClaimTakes
<1>5. now + GateWindow >= GateWindow /\ now + GateWindow # 0
  BY <1>3 DEF Early
<1>6. /\ Claimed(t)'
      /\ \A u \in Services \ {t} : Claimed(u)' <=> Claimed(u)
  BY <1>4, <1>5 DEF Claimed
<1>7. /\ \A q \in Services \ {s}, u \in Services : Works(q, u)' <=> Works(q, u)
      /\ \A u \in Services : Works(s, u)' => u = t
      /\ Works(s, t)'
      /\ \A u \in Services : ~Works(s, u)
  BY <1>1 DEF Works
<1>8. \A u \in Services : Once(u)'
  BY <1>2, <1>4, <1>5, <1>6, EarlyHolds DEF Once
<1>9. \A q \in Services : Turn(q)'
  BY <1>1, <1>2, EarlyHolds DEF Turn, Expanding
<1>10. Alone'
  <2>1. Len(history[t]) = 2
    BY Count
  <2>2. \A q \in Services : ~Works(q, t)
    BY EarlyHolds DEF Alone
  <2> QED
    BY <1>2, <1>6, <1>7, <2>1, <2>2, EarlyHolds DEF Alone
<1>11. ASSUME faults' = 0, NEW u \in Services PROVE Settled(u)'
  <2>1. Settled(u)
    BY <1>2, <1>11, EarlyHolds DEF Follow
  <2> QED
    BY <1>2, <1>6, <1>7, <2>1 DEF Settled
<1>12. ASSUME faults' = 0, NEW e \in Seed PROVE Owes(e[2], e[1])'
  <2>1. Owes(e[2], e[1]) /\ e[1] \in Services /\ e[2] \in Services
    BY <1>2, <1>12, EarlyHolds, Constants DEF Follow
  <2>2. ReleasedTogether(e[1], e[2])' <=> ReleasedTogether(e[1], e[2])
    BY <1>2 DEF ReleasedTogether
  <2>3. Claimed(e[1]) => Claimed(e[1])'
    BY <1>6, <2>1
  <2>4. CASE e[2] # s
    BY <1>1, <2>1, <2>2, <2>3, <2>4 DEF Owes
  <2>5. CASE e[2] = s
    <3> SUFFICES ASSUME recovery'[s].at \in Expanding,
                        e[1] \in recovery'[s].upgraded,
                        ReleasedTogether(e[1], s)', ~Claimed(e[1])'
                 PROVE  Reaches(r, e[1])
      BY <1>1, <2>5 DEF Owes
    <3>1. recovery[s].at = "claim" /\ recovery[s].peer = t
      BY <1>1 DEF Expanding
    <3>2. Reaches(recovery[s], e[1])
      BY <1>1, <2>1, <2>2, <2>3, <2>5, <3>1 DEF Owes, Expanding
    <3>3. e[1] # t
      BY <1>6
    <3> QED
      BY <3>1, <3>2, <3>3 DEF Reaches
  <2> QED
    BY <2>4, <2>5
<1> QED
  BY <1>8, <1>9, <1>10, <1>11, <1>12 DEF Onward, FirstWindow, Follow

-----------------------------------------------------------------------------
\* The recovery that works on a service adds the one rollback of its window.
LEMMA ReleaseOnward ==
  ASSUME Early, Grows, NEW s \in Services, NEW t \in Services, NEW r,
         Works(s, t), UNCHANGED <<now, cooldownUntil>>,
         faults' = 0 => faults = 0,
         \A u \in Services \ {t} : history'[u] = history[u],
         Fits(history'[t]), Len(history'[t]) = 3,
         history'[t][2].config = history[t][2].config,
         recovery' = [recovery EXCEPT ![s] = r],
         r.at \in {"parents", "next", "failed"},
         r.at = "parents" =>
           /\ r.faulty = 2
           /\ \A u \in r.upgraded : u \in Services /\ IsUpgraded(u),
         r.at # "parents" =>
           r.faulty = recovery[s].faulty /\ r.upgraded = recovery[s].upgraded,
         r.at = "next" => recovery[s].at = "apply" /\ r.peers = recovery[s].peers
  PROVE  Onward
<1>1. /\ recovery'[s] = r
      /\ \A q \in Services \ {s} : recovery'[q] = recovery[q]
  BY EarlyHolds, OneWrite
<1>2. \A u \in Services : Claimed(u)' <=> Claimed(u)
  BY DEF Claimed
<1>3. /\ \A q \in Services \ {s}, u \in Services : Works(q, u)' <=> Works(q, u)
      /\ \A u \in Services : ~Works(s, u)'
      /\ \A u \in Services : Works(s, u) => u = t
  BY <1>1 DEF Works
<1>4. /\ Claimed(t) /\ Len(history[t]) = 2
      /\ \A q \in Services : Works(q, t) => q = s
  BY EarlyHolds DEF Alone
<1>5. 3 > 1 /\ 2 > 1 /\ 3 # 2
  OBVIOUS
<1>6. \A u \in Services : Once(u)'
  BY <1>2, <1>4, <1>5, EarlyHolds DEF Once
<1>7. Alone'
  BY <1>2, <1>3, <1>4, EarlyHolds DEF Alone
<1>8. \A u \in Services : Len(history[u]) > 1 =>
        Len(history'[u]) > 1 /\ history'[u][2].config = history[u][2].config
  BY <1>5
<1>9. \A u \in Services : IsUpgraded(u) =>
        Len(history[u]) > 1 /\ history[u][2].config = New
  <2> SUFFICES ASSUME NEW u \in Services, IsUpgraded(u)
               PROVE  Len(history[u]) > 1 /\ history[u][2].config = New
    OBVIOUS
  <2>1. Fits(history[u]) /\ Old # New
    BY EarlyHolds, PeerAssumption DEF Once
  <2>2. Len(history[u]) # 1 /\ Len(history[u]) # 3
    BY <2>1 DEF IsUpgraded, Serves, Fits
  <2>3. \A k \in 1..3 : k # 1 /\ k # 3 => k = 2
    OBVIOUS
  <2>4. Len(history[u]) = 2
    BY <2>1, <2>2, <2>3 DEF Fits
  <2> QED
    BY <1>5, <2>4 DEF IsUpgraded, Serves
<1>10. \A q \in Services \ {s} : Turn(q)'
  <2> TAKE q \in Services \ {s}
  <2>1. recovery[q].peer \in Services /\ recovery[q].upgraded \subseteq Services
    BY EarlyHolds DEF Inv, TypeOK, Recoveries
  <2>2. Turn(q)
    BY EarlyHolds
  <2> QED
    BY <1>1, <1>8, <2>1, <2>2 DEF Turn
<1>11. Turn(s)'
  <2>1. recovery[s].upgraded \subseteq Services /\ Turn(s)
    BY EarlyHolds DEF Inv, TypeOK, Recoveries
  <2>2. CASE r.at = "parents"
    BY <1>1, <1>8, <1>9, <2>2 DEF Turn
  <2>3. CASE r.at # "parents"
    BY <1>1, <1>8, <2>1, <2>3 DEF Turn, Expanding
  <2> QED
    BY <2>2, <2>3
<1>12. ASSUME faults' = 0, NEW u \in Services PROVE Settled(u)'
  <2>1. Settled(u)
    BY <1>12, EarlyHolds DEF Follow
  <2> QED
    BY <1>2, <1>3, <1>4, <1>5, <2>1 DEF Settled
<1>13. ASSUME faults' = 0, NEW e \in Seed PROVE Owes(e[2], e[1])'
  <2>1. Owes(e[2], e[1]) /\ e[1] \in Services /\ e[2] \in Services
    BY <1>13, EarlyHolds, Constants DEF Follow
  <2>2. ASSUME recovery[e[2]].at \in Expanding, e[1] \in recovery[e[2]].upgraded,
               ReleasedTogether(e[1], e[2])'
        PROVE  ReleasedTogether(e[1], e[2])
    BY <2>1, <2>2, EarlyHolds, ExpandingHas, TogetherKept
  <2>3. CASE e[2] # s
    BY <1>1, <1>2, <2>1, <2>2, <2>3 DEF Owes
  <2>4. CASE e[2] = s
    <3>1. CASE r.at = "parents"
      BY <1>1, <2>4, <3>1 DEF Owes, Reaches
    <3>2. CASE r.at = "failed"
      BY <1>1, <2>4, <3>2 DEF Owes, Expanding
    <3>3. CASE r.at = "next"
      BY <1>1, <1>2, <2>1, <2>2, <2>4, <3>3 DEF Owes, Reaches, Expanding
    <3> QED
      BY <3>1, <3>2, <3>3
  <2> QED
    BY <2>3, <2>4
<1> QED
  BY <1>6, <1>7, <1>10, <1>11, <1>12, <1>13 DEF Onward, FirstWindow, Follow

\* A recovery goes on without touching the slots or the releases.  Should it
\* leave off the service it works on, then because of a fault or because the
\* service has its old values; and a caller it still owes stays within reach.
LEMMA StaysOnward ==
  ASSUME Early, NEW s \in Services, NEW r,
         UNCHANGED <<now, cooldownUntil, releases>>, faults' = 0 => faults = 0,
         recovery' = [recovery EXCEPT ![s] = r],
         \A t \in Services : Works(s, t)' => Works(s, t),
         faults' = 0 => \A t \in Services :
           Works(s, t) /\ ~Works(s, t)' => history[t][2].config # New,
         r.at = "claim" => Len(history[r.peer]) > 1,
         r.at = "apply" => r.target = 1,
         r.at \in Expanding => recovery[s].at \in Expanding,
         r.faulty = recovery[s].faulty, r.upgraded = recovery[s].upgraded,
         faults' = 0 =>
           \A c : /\ <<c, s>> \in Seed
                  /\ recovery[s].at \in Expanding /\ c \in recovery[s].upgraded
                  /\ ReleasedTogether(c, s) /\ r.at \in Expanding
                  /\ Reaches(recovery[s], c)
                  => Claimed(c) \/ Reaches(r, c)
  PROVE  Onward
<1>1. /\ recovery'[s] = r
      /\ \A q \in Services \ {s} : recovery'[q] = recovery[q]
  BY EarlyHolds, OneWrite
<1>2. /\ \A u : Claimed(u)' <=> Claimed(u)
      /\ history' = history /\ deployedAt' = deployedAt
  BY DEF Claimed, releases
<1>3. \A q \in Services \ {s}, u \in Services : Works(q, u)' <=> Works(q, u)
  BY <1>1 DEF Works
<1>4. \A u \in Services : Once(u)'
  BY <1>2, EarlyHolds DEF Once
<1>5. Alone'
  BY <1>2, <1>3, EarlyHolds DEF Alone
<1>6. \A q \in Services : Turn(q)'
  BY <1>1, <1>2, EarlyHolds DEF Turn
<1>7. ASSUME faults' = 0, NEW u \in Services PROVE Settled(u)'
  <2>1. Settled(u)
    BY <1>7, EarlyHolds DEF Follow
  <2> QED
    BY <1>2, <1>3, <1>7, <2>1 DEF Settled
<1>8. ASSUME faults' = 0, NEW e \in Seed PROVE Owes(e[2], e[1])'
  <2>1. /\ Owes(e[2], e[1]) /\ e[1] \in Services /\ e[2] \in Services
        /\ e = <<e[1], e[2]>>
    BY <1>8, EarlyHolds, Constants DEF Follow
  <2>2. ReleasedTogether(e[1], e[2])' <=> ReleasedTogether(e[1], e[2])
    BY <1>2 DEF ReleasedTogether
  <2>3. CASE e[2] # s
    BY <1>1, <1>2, <2>1, <2>2, <2>3 DEF Owes
  <2>4. CASE e[2] = s
    BY <1>1, <1>2, <1>8, <2>1, <2>2, <2>4 DEF Owes
  <2> QED
    BY <2>3, <2>4
<1> QED
  BY <1>4, <1>5, <1>6, <1>7, <1>8 DEF Onward, FirstWindow, Follow

\* An upgrade comes before its service is claimed; the graph and the clock are
\* no matter.
LEMMA OutsideOnward ==
  ASSUME Early, Grows, UNCHANGED <<cooldownUntil, recovery, faults>>,
         NEW t \in Services, \A u \in Services \ {t} : history'[u] = history[u],
         \/ history'[t] = history[t]
         \/ Len(history[t]) = 1 /\ Len(history'[t]) = 2 /\ Fits(history'[t])
  PROVE  Onward
<1>1. /\ \A u : Claimed(u)' <=> Claimed(u)
      /\ \A q, u \in Services : Works(q, u)' <=> Works(q, u)
  BY DEF Claimed, Works
<1>2. 1 # 2 /\ ~(1 > 1) /\ 2 > 1 /\ 2 # 3
  OBVIOUS
<1>3. \A u \in Services : Len(history[u]) > 1 => history'[u] = history[u]
  BY <1>2
<1>4. \A u \in Services : Once(u)'
  BY <1>1, <1>2, EarlyHolds DEF Once
<1>5. Alone'
  BY <1>1, <1>2, <1>3, EarlyHolds DEF Alone
<1>6. \A q \in Services : Turn(q)'
  <2> TAKE q \in Services
  <2>1. recovery[q].peer \in Services /\ recovery[q].upgraded \subseteq Services
    BY EarlyHolds DEF Inv, TypeOK, Recoveries
  <2> QED
    BY <1>3, <2>1, EarlyHolds DEF Turn
<1>7. ASSUME faults' = 0, NEW u \in Services PROVE Settled(u)'
  <2>1. Settled(u) /\ (Claimed(u) => Len(history[u]) > 1)
    BY <1>7, EarlyHolds DEF Follow, Once
  <2> QED
    BY <1>1, <1>3, <2>1 DEF Settled
<1>8. ASSUME faults' = 0, NEW e \in Seed PROVE Owes(e[2], e[1])'
  <2>1. Owes(e[2], e[1]) /\ e[1] \in Services /\ e[2] \in Services
    BY <1>8, EarlyHolds, Constants DEF Follow
  <2>2. ASSUME recovery[e[2]].at \in Expanding, e[1] \in recovery[e[2]].upgraded,
               ReleasedTogether(e[1], e[2])'
        PROVE  ReleasedTogether(e[1], e[2])
    BY <2>1, <2>2, EarlyHolds, ExpandingHas, TogetherKept
  <2> QED
    BY <1>1, <2>1, <2>2 DEF Owes
<1> QED
  BY <1>4, <1>5, <1>6, <1>7, <1>8 DEF Onward, FirstWindow, Follow

-----------------------------------------------------------------------------
\* The one rollback of a service restores the old values, or fails to and
\* leaves a revision with them.
LEMMA RollbackFits ==
  ASSUME NEW h \in Seq(Revisions), Len(h) = 2, Fits(h),
         NEW after \in {Finished(Begun(h, 1)), Aborted(Begun(h, 1))}
  PROVE  Fits(after) /\ Len(after) = 3 /\ after[2].config = h[2].config
<1> DEFINE begun == Begun(h, 1)
<1>1. 1 \in 1..2 /\ 2 \in 1..2 /\ 2 + 1 = 3 /\ 3 > 0 /\ 3 > 1 /\ 3 \in 1..3
      /\ ~(3 < 3) /\ 1 \in 1..3 /\ 2 \in 1..3
  OBVIOUS
<1>2. /\ begun \in Seq(Revisions)
      /\ Len(begun) = Len(h) + 1
      /\ \A n \in 1..Len(h) : begun[n] = h[n]
      /\ begun[Len(begun)] = [config |-> h[1].config, status |-> "pending"]
  BY <1>1, BegunHolds
<1>3. /\ Len(begun) = 3
      /\ begun[1] = h[1] /\ begun[2] = h[2] /\ begun[3].config = h[1].config
  BY <1>1, <1>2
<1> HIDE DEF begun
<1>4. /\ Len(Finished(begun)) = 3 /\ SameConfigs(begun, Finished(begun))
  BY <1>1, <1>2, <1>3, FinishedHolds
<1>5. /\ Len(Aborted(begun)) = 3 /\ SameConfigs(begun, Aborted(begun))
  BY <1>1, <1>2, <1>3, AbortedHolds
<1>6. Len(after) = 3 /\ SameConfigs(begun, after)
  BY <1>4, <1>5 DEF begun
<1>7. /\ after[1].config = h[1].config
      /\ after[2].config = h[2].config
      /\ after[3].config = h[1].config
  BY <1>1, <1>3, <1>6 DEF SameConfigs
<1> QED
  BY <1>1, <1>6, <1>7 DEF Fits

\* After its upgrade a service is rolled back to its first revision, or, when
\* it has its old values, not at all.
LEMMA TargetOf ==
  ASSUME NEW h \in Seq(Revisions), Len(h) = 2, Fits(h)
  PROVE  LET target == LastHealthyRevision(h, Len(h))
         IN  /\ target # 0 => target = 1
             /\ h[2].config = New => target = 1
<1> DEFINE target == LastHealthyRevision(h, Len(h))
<1>1. DOMAIN h = 1..2
  BY LenProperties
<1>2. CurrentConfig(h, Len(h)) = h[2].config
  BY <1>1 DEF CurrentConfig
<1>3. target \in 0..2
  BY TargetIsCandidate
<1>4. target # 0 => target \in DOMAIN h /\ target # 2
  BY TargetIsCandidate DEF Candidates
<1>5. ASSUME h[2].config = New PROVE target # 0
  <2>1. /\ h[1].config = Old /\ Old # New /\ New # NoValues
        /\ h[1].status \in {"deployed", "superseded"}
    <3>1. 2 < 3
      OBVIOUS
    <3> QED
      BY <3>1, PeerAssumption DEF Fits
  <2>2. 1 \in DOMAIN h /\ 1 # 2
    BY <1>1
  <2>3. 1 \in Candidates(h, Len(h))
    BY <1>2, <1>5, <2>1, <2>2 DEF Candidates
  <2>4. target >= 1
    BY <2>3, TargetIsNewest
  <2> HIDE DEF target
  <2> QED
    BY <2>4
<1> HIDE DEF target
<1>6. target # 0 => target = 1
  BY <1>1, <1>3, <1>4
<1> QED
  BY <1>5, <1>6 DEF target

\* The recovery that works on a service finds one revision to go back to.
LEMMA WorkersTarget ==
  ASSUME Early, NEW s \in Services, NEW t \in Services, Works(s, t)
  PROVE  LET target == LastHealthyRevision(history[t], Len(history[t]))
         IN  /\ history[t] \in Seq(Revisions) /\ Len(history[t]) = 2
             /\ Fits(history[t])
             /\ target # 0 => target = 1
             /\ history[t][2].config = New => target = 1
<1>1. history[t] \in Seq(Revisions) /\ Len(history[t]) = 2 /\ Fits(history[t])
  BY EarlyHolds DEF Inv, TypeOK, Alone, Once
<1> QED
  BY <1>1, TargetOf

\* What a rollback to the first revision does to the releases.
LEMMA RollbackReleases ==
  ASSUME Early, NEW s \in Services, NEW t \in Services, Works(s, t),
         RolledBack(t, 1) \/ LeftBehind(t, 1)
  PROVE  /\ Grows
         /\ \A u \in Services \ {t} : history'[u] = history[u]
         /\ Fits(history'[t]) /\ Len(history'[t]) = 3
         /\ history'[t][2].config = history[t][2].config
<1>1. history[t] \in Seq(Revisions) /\ Len(history[t]) = 2 /\ Fits(history[t])
  BY WorkersTarget
<1>2. 1 \in 1..Len(history[t])
  BY <1>1
<1>3. Grows
  BY <1>2, EarlyHolds, RollbackGrows
<1>4. PICK after \in {Finished(Begun(history[t], 1)), Aborted(Begun(history[t], 1))} :
        history' = [history EXCEPT ![t] = after]
  BY DEF RolledBack, LeftBehind, Revised
<1>5. history \in [Services -> Seq(Revisions)]
  BY EarlyHolds DEF Inv, TypeOK
<1>6. history'[t] = after /\ \A u \in Services \ {t} : history'[u] = history[u]
  BY <1>4, <1>5
<1> QED
  BY <1>1, <1>3, <1>6, RollbackFits

\* Once Helm has failed, nothing is owed any more.
LEMMA FaultCounts == ASSUME Inv, Fault PROVE faults' # 0
<1>1. faults \in Nat
  BY Constants DEF Inv, TypeOK
<1> QED
  BY <1>1 DEF Fault

-----------------------------------------------------------------------------
LEMMA ClaimEarly ==
  ASSUME Early, NEW s \in Services, Claim(s)
  PROVE  Onward
<1> DEFINE r == [recovery[s] EXCEPT !.at = "rollback"]
<1>1. /\ recovery[s].at = "idle" /\ Len(history[s]) > 1
      /\ SlotIsFree(cooldownUntil, now, s)
      /\ cooldownUntil' = SlotClaimed(cooldownUntil, now, s, GateWindow)
      /\ recovery' = [recovery EXCEPT ![s] = r]
      /\ UNCHANGED <<now, releases, faults>>
  BY DEF Claim, At, Continue
<1>2. ~Claimed(s)
  BY <1>1, FreeIsUnclaimed
<1>3. /\ r.at = "rollback" /\ r.peer = recovery[s].peer
      /\ r.peers = recovery[s].peers /\ r.faulty = recovery[s].faulty
      /\ r.upgraded = recovery[s].upgraded
  BY EarlyHolds, RecordNow DEF Recoveries
<1> HIDE DEF r
<1> QED
  BY <1>1, <1>2, <1>3, ClaimOnward

LEMMA ExecuteEarly ==
  ASSUME Early, NEW s \in Services, Execute(s)
  PROVE  Onward
<1> DEFINE current == Len(history[s])
           target == LastHealthyRevision(history[s], current)
           failed == [recovery[s] EXCEPT !.at = "failed"]
           done == [recovery[s] EXCEPT !.at = "parents", !.faulty = current,
                      !.upgraded = {t \in Services : IsUpgraded(t)}]
<1>1. Inv /\ recovery[s] \in Recoveries
  BY EarlyHolds, RecordNow
<1>2. recovery[s].at = "rollback" /\ UNCHANGED <<now, cooldownUntil>>
  BY DEF Execute, At, clock
<1>3. Works(s, s)
  BY <1>2 DEF Works
<1>4. /\ current = 2
      /\ target # 0 => target = 1
      /\ history[s][2].config = New => target = 1
  BY <1>3, WorkersTarget
<1>5. /\ failed.at = "failed" /\ failed.faulty = recovery[s].faulty
      /\ failed.upgraded = recovery[s].upgraded
  BY <1>1 DEF Recoveries
<1>6. /\ done.at = "parents" /\ done.faulty = 2
      /\ done.upgraded = {t \in Services : IsUpgraded(t)}
  BY <1>1, <1>4 DEF Recoveries
<1>7. CASE /\ target # 0 /\ RolledBack(s, target)
           /\ recovery' = [recovery EXCEPT ![s] = done] /\ UNCHANGED faults
  <2> HIDE DEF done, target
  <2>1. RolledBack(s, 1)
    BY <1>4, <1>7
  <2> QED
    BY <1>2, <1>3, <1>6, <1>7, <2>1, RollbackReleases, ReleaseOnward
<1>8. CASE /\ target # 0 /\ Fault /\ LeftBehind(s, target) /\ Continue(s, "failed")
  <2>1. recovery' = [recovery EXCEPT ![s] = failed]
    BY <1>8 DEF Continue
  <2> HIDE DEF failed, target
  <2>2. LeftBehind(s, 1)
    BY <1>4, <1>8
  <2>3. faults' # 0
    BY <1>1, <1>8, FaultCounts
  <2> QED
    BY <1>2, <1>3, <1>5, <2>1, <2>2, <2>3, RollbackReleases, ReleaseOnward
<1>9. CASE target = 0 /\ Continue(s, "failed") /\ UNCHANGED <<releases, faults>>
  <2>1. recovery' = [recovery EXCEPT ![s] = failed]
    BY <1>9 DEF Continue
  <2> HIDE DEF failed, target
  <2>2. recovery'[s] = failed
    BY <1>1, <2>1, OneWrite
  <2>3. \A t \in Services : ~Works(s, t)'
    BY <1>5, <2>2 DEF Works
  <2>4. \A t \in Services : Works(s, t) => t = s
    BY <1>2 DEF Works
  <2>5. history[s][2].config # New
    BY <1>4, <1>9
  <2> QED
    BY <1>2, <1>5, <1>9, <2>1, <2>3, <2>4, <2>5, StaysOnward DEF Expanding
<1> QED
  BY <1>7, <1>8, <1>9 DEF Execute

\* The snapshot of the graph holds the declared callers.
LEMMA FindEarly ==
  ASSUME Early, NEW s \in Services, FindParents(s) \/ FindChildren(s)
  PROVE  Onward
<1> DEFINE parents == [recovery[s] EXCEPT !.at = "children",
                         !.peers = {"parent"} \X GetParents(graph, s)]
           children == [recovery[s] EXCEPT !.at = "next",
                          !.peers = @ \cup ({"child"} \X GetChildren(graph, s))]
           failed == [recovery[s] EXCEPT !.at = "failed"]
<1>1. Inv /\ recovery[s] \in Recoveries /\ Seed \subseteq graph
  BY EarlyHolds, RecordNow
<1>2. UNCHANGED <<now, cooldownUntil, releases>>
  BY DEF FindParents, FindChildren, clock
<1>3. /\ recovery[s].at \in {"parents", "children"}
      /\ recovery[s].at \in Expanding
  BY DEF FindParents, FindChildren, At, Expanding
<1>4. \A t \in Services : ~Works(s, t)
  BY <1>3 DEF Works
<1>5. CASE /\ recovery[s].at = "parents"
           /\ recovery' = [recovery EXCEPT ![s] = parents] /\ UNCHANGED faults
  <2>1. /\ parents.at = "children" /\ parents.faulty = recovery[s].faulty
        /\ parents.peers = {"parent"} \X GetParents(graph, s)
        /\ parents.upgraded = recovery[s].upgraded
    BY <1>1 DEF Recoveries
  <2>2. \A c : <<c, s>> \in Seed => <<"parent", c>> \in parents.peers
    BY <1>1, <2>1 DEF GetParents
  <2> HIDE DEF parents
  <2>3. \A t \in Services : Works(s, t)' => Works(s, t)
    BY <1>1, <1>5, <2>1, OneWrite DEF Works
  <2> QED
    BY <1>2, <1>3, <1>4, <1>5, <2>1, <2>2, <2>3, StaysOnward DEF Reaches
<1>6. CASE /\ recovery[s].at = "children"
           /\ recovery' = [recovery EXCEPT ![s] = children] /\ UNCHANGED faults
  <2>1. /\ children.at = "next" /\ children.faulty = recovery[s].faulty
        /\ recovery[s].peers \subseteq children.peers
        /\ children.upgraded = recovery[s].upgraded
    BY <1>1 DEF Recoveries
  <2> HIDE DEF children
  <2>2. \A t \in Services : Works(s, t)' => Works(s, t)
    BY <1>1, <1>6, <2>1, OneWrite DEF Works
  <2> QED
    BY <1>2, <1>3, <1>4, <1>6, <2>1, <2>2, StaysOnward DEF Reaches
<1>7. CASE Fault /\ recovery' = [recovery EXCEPT ![s] = failed]
  <2>1. /\ failed.at = "failed" /\ failed.faulty = recovery[s].faulty
        /\ failed.upgraded = recovery[s].upgraded
    BY <1>1 DEF Recoveries
  <2> HIDE DEF failed
  <2>2. \A t \in Services : Works(s, t)' => Works(s, t)
    BY <1>1, <1>7, <2>1, OneWrite DEF Works
  <2>3. faults' # 0
    BY <1>1, <1>7, FaultCounts
  <2> QED
    BY <1>2, <1>3, <1>4, <1>7, <2>1, <2>2, <2>3, StaysOnward DEF Expanding
<1> QED
  BY <1>5, <1>6, <1>7 DEF FindParents, FindChildren, Continue, At

\* A caller of the batch that has not been claimed has the revision it was
\* upgraded to, and so is considered.
LEMMA CallerIsConsidered ==
  ASSUME Early, NEW s \in Services, NEW c \in recovery[s].upgraded,
         recovery[s].at \in Expanding, ReleasedTogether(c, s), ~Claimed(c)
  PROVE  Len(history[c]) > 1 /\ InBatch(s, c)
<1>1. c \in Services /\ Len(history[c]) > 1
  BY ExpandingHas
<1>2. Len(history[c]) = 2
  BY <1>1, Count
<1>3. recovery[s].faulty = 2
  BY EarlyHolds DEF Turn
<1> QED
  BY <1>1, <1>2, <1>3 DEF InBatch, ReleasedTogether

LEMMA NextPeerEarly ==
  ASSUME Early, NEW s \in Services, NextPeer(s)
  PROVE  Onward
<1>1. PICK role \in Roles, peer \in Services :
        LET others == recovery[s].peers \ {<<role, peer>>}
            considered == Len(history[peer]) > 1 /\ InBatch(s, peer)
        IN  \/ /\ considered
               /\ recovery' = [recovery EXCEPT ![s].at = "claim",
                    ![s].peers = others, ![s].peer = peer]
               /\ UNCHANGED faults
            \/ /\ \/ ~considered /\ UNCHANGED faults
                  \/ Fault
               /\ recovery' = [recovery EXCEPT ![s].peers = others]
  BY DEF NextPeer
<1> DEFINE others == recovery[s].peers \ {<<role, peer>>}
           taken == [recovery[s] EXCEPT !.at = "claim", !.peers = others,
                                        !.peer = peer]
           left == [recovery[s] EXCEPT !.peers = others]
<1>2. /\ recovery[s].at = "next" /\ recovery[s].at \in Expanding
      /\ UNCHANGED <<now, cooldownUntil, releases>>
  BY DEF NextPeer, At, clock, Expanding
<1>3. Inv /\ recovery[s] \in Recoveries
  BY EarlyHolds, RecordNow
<1>4. \A t \in Services : ~Works(s, t)
  BY <1>2 DEF Works
<1>5. CASE /\ Len(history[peer]) > 1
           /\ recovery' = [recovery EXCEPT ![s] = taken] /\ UNCHANGED faults
  <2>1. /\ taken.at = "claim" /\ taken.faulty = recovery[s].faulty
        /\ taken.peers = others /\ taken.peer = peer
        /\ taken.upgraded = recovery[s].upgraded
    BY <1>3 DEF Recoveries
  <2> HIDE DEF taken
  <2>2. \A t \in Services : Works(s, t)' => Works(s, t)
    BY <1>3, <1>5, <2>1, OneWrite DEF Works
  <2>3. \A c : Reaches(recovery[s], c) => Reaches(taken, c)
    BY <1>2, <2>1 DEF Reaches
  <2> QED
    BY <1>2, <1>4, <1>5, <2>1, <2>2, <2>3, StaysOnward
<1>6. CASE /\ recovery' = [recovery EXCEPT ![s] = left]
           /\ \/ ~(Len(history[peer]) > 1 /\ InBatch(s, peer)) /\ UNCHANGED faults
              \/ Fault
  <2>1. /\ left.at = "next" /\ left.faulty = recovery[s].faulty
        /\ left.peers = others
        /\ left.upgraded = recovery[s].upgraded
    BY <1>2, <1>3 DEF Recoveries
  <2> HIDE DEF left
  <2>2. \A t \in Services : Works(s, t)' => Works(s, t)
    BY <1>3, <1>6, <2>1, OneWrite DEF Works
  <2>3. ASSUME faults' = 0, NEW c \in recovery[s].upgraded,
               ReleasedTogether(c, s), Reaches(recovery[s], c), ~Claimed(c)
        PROVE  Reaches(left, c)
    <3>1. c # peer
      BY <1>2, <1>3, <1>6, <2>3, FaultCounts, CallerIsConsidered
    <3> QED
      BY <1>2, <2>1, <2>3, <3>1 DEF Reaches
  <2>4. faults' = 0 => faults = 0
    BY <1>3, <1>6, FaultCounts
  <2> QED
    BY <1>2, <1>4, <1>6, <2>1, <2>2, <2>3, <2>4, StaysOnward
<1> QED
  BY <1>1, <1>5, <1>6, <1>3 DEF Recoveries

LEMMA ClaimPeerEarly ==
  ASSUME Early, NEW s \in Services, ClaimPeer(s)
  PROVE  Onward
<1> DEFINE claimed == [recovery[s] EXCEPT !.at = "target"]
           done == [recovery[s] EXCEPT !.at = "next", !.peer = s, !.target = 0]
           peer == recovery[s].peer
<1>1. Inv /\ recovery[s] \in Recoveries /\ peer \in Services
  BY EarlyHolds, RecordNow
<1>2. /\ recovery[s].at = "claim" /\ recovery[s].at \in Expanding
      /\ UNCHANGED <<now, releases, faults>>
  BY DEF ClaimPeer, At, Expanding
<1>3. CASE /\ SlotIsFree(cooldownUntil, now, peer)
           /\ cooldownUntil' = SlotClaimed(cooldownUntil, now, peer, GateWindow)
           /\ Continue(s, "target")
  <2>1. ~Claimed(peer) /\ Len(history[peer]) > 1
    BY <1>1, <1>2, <1>3, FreeIsUnclaimed, EarlyHolds DEF Turn
  <2>2. recovery' = [recovery EXCEPT ![s] = claimed]
    BY <1>3 DEF Continue
  <2>3. /\ claimed.at = "target" /\ claimed.peer = peer
        /\ claimed.peers = recovery[s].peers
        /\ claimed.faulty = recovery[s].faulty
        /\ claimed.upgraded = recovery[s].upgraded
    BY <1>1 DEF Recoveries
  <2> HIDE DEF claimed
  <2> QED
    BY <1>1, <1>2, <1>3, <2>1, <2>2, <2>3, ClaimOnward
<1>4. CASE /\ ~SlotIsFree(cooldownUntil, now, peer)
           /\ PeerDone(s) /\ UNCHANGED cooldownUntil
  <2>1. Claimed(peer)
    BY <1>1, <1>4, FreeIsUnclaimed
  <2>2. recovery' = [recovery EXCEPT ![s] = done]
    BY <1>4 DEF PeerDone
  <2>3. /\ done.at = "next" /\ done.peers = recovery[s].peers
        /\ done.faulty = recovery[s].faulty
        /\ done.upgraded = recovery[s].upgraded
    BY <1>1 DEF Recoveries
  <2> HIDE DEF done
  <2>4. \A t \in Services : ~Works(s, t)' /\ ~Works(s, t)
    BY <1>1, <1>2, <2>2, <2>3, OneWrite DEF Works
  <2>5. \A c : Reaches(recovery[s], c) => Claimed(c) \/ Reaches(done, c)
    BY <1>2, <2>1, <2>3 DEF Reaches
  <2> QED
    BY <1>2, <1>4, <2>2, <2>3, <2>4, <2>5, StaysOnward
<1> QED
  BY <1>3, <1>4 DEF ClaimPeer

LEMMA ChooseTargetEarly ==
  ASSUME Early, NEW s \in Services, ChooseTarget(s)
  PROVE  Onward
<1> DEFINE peer == recovery[s].peer
           t == LastHealthyRevision(history[peer], Len(history[peer]))
           chosen == [recovery[s] EXCEPT !.at = "apply", !.target = t]
           done == [recovery[s] EXCEPT !.at = "next", !.peer = s, !.target = 0]
<1>1. Inv /\ recovery[s] \in Recoveries /\ peer \in Services
  BY EarlyHolds, RecordNow
<1>2. /\ recovery[s].at = "target" /\ recovery[s].at \in Expanding
      /\ UNCHANGED <<now, cooldownUntil, releases>>
  BY DEF ChooseTarget, At, clock, Expanding
<1>3. /\ Works(s, peer)
      /\ \A u \in Services : Works(s, u) => u = peer
  BY <1>2 DEF Works
<1>4. /\ t # 0 => t = 1
      /\ history[peer][2].config = New => t = 1
  BY <1>1, <1>3, WorkersTarget
<1>5. CASE /\ t # 0 /\ recovery' = [recovery EXCEPT ![s] = chosen]
           /\ UNCHANGED faults
  <2>1. /\ chosen.at = "apply" /\ chosen.target = t /\ chosen.peer = peer
        /\ chosen.peers = recovery[s].peers
        /\ chosen.faulty = recovery[s].faulty
        /\ chosen.upgraded = recovery[s].upgraded
    BY <1>1 DEF Recoveries
  <2> HIDE DEF chosen, t
  <2>2. \A u \in Services : Works(s, u)' <=> Works(s, u)
    BY <1>1, <1>2, <1>5, <2>1, OneWrite DEF Works
  <2>3. \A c : Reaches(recovery[s], c) => Reaches(chosen, c)
    BY <1>2, <2>1 DEF Reaches
  <2> QED
    BY <1>2, <1>4, <1>5, <2>1, <2>2, <2>3, StaysOnward
<1>6. CASE PeerDone(s) /\ (Fault \/ (t = 0 /\ UNCHANGED faults))
  <2>1. recovery' = [recovery EXCEPT ![s] = done]
    BY <1>6 DEF PeerDone
  <2>2. /\ done.at = "next" /\ done.peers = recovery[s].peers
        /\ done.faulty = recovery[s].faulty
        /\ done.upgraded = recovery[s].upgraded
    BY <1>1 DEF Recoveries
  <2> HIDE DEF done, t
  <2>3. \A u \in Services : ~Works(s, u)'
    BY <1>1, <2>1, <2>2, OneWrite DEF Works
  <2>4. faults' = 0 => faults = 0 /\ history[peer][2].config # New
    BY <1>1, <1>4, <1>6, FaultCounts
  <2>5. \A c : Reaches(recovery[s], c) => Reaches(done, c)
    BY <1>2, <2>2 DEF Reaches
  <2> QED
    BY <1>2, <1>3, <2>1, <2>2, <2>3, <2>4, <2>5, StaysOnward
<1> QED
  BY <1>5, <1>6 DEF ChooseTarget

LEMMA ApplyEarly ==
  ASSUME Early, NEW s \in Services, Apply(s)
  PROVE  Onward
<1> DEFINE peer == recovery[s].peer
           done == [recovery[s] EXCEPT !.at = "next", !.peer = s, !.target = 0]
<1>1. Inv /\ recovery[s] \in Recoveries /\ peer \in Services
  BY EarlyHolds, RecordNow
<1>2. /\ recovery[s].at = "apply" /\ recovery' = [recovery EXCEPT ![s] = done]
      /\ UNCHANGED <<now, cooldownUntil>>
      /\ \/ RolledBack(peer, recovery[s].target) /\ UNCHANGED faults
         \/ LeftBehind(peer, recovery[s].target) /\ Fault
  BY DEF Apply, At, clock, PeerDone
<1>3. recovery[s].target = 1 /\ Works(s, peer)
  BY <1>2, EarlyHolds DEF Turn, Works
<1>4. /\ done.at = "next" /\ done.peers = recovery[s].peers
      /\ done.faulty = recovery[s].faulty
      /\ done.upgraded = recovery[s].upgraded
  BY <1>1 DEF Recoveries
<1> HIDE DEF done
<1>5. faults' = 0 => faults = 0
  BY <1>1, <1>2, FaultCounts
<1>6. RolledBack(peer, 1) \/ LeftBehind(peer, 1)
  BY <1>2, <1>3
<1> QED
  BY <1>1, <1>2, <1>3, <1>4, <1>5, <1>6, RollbackReleases, ReleaseOnward

LEMMA UpgradeEarly ==
  ASSUME Early, NEW s \in Services, Upgrade(s)
  PROVE  Onward
<1>1. PICK config \in Configs : Revised(s, Upgraded(history[s], config))
  BY Constants DEF Upgrade
<1>2. Inv /\ history \in [Services -> Seq(Revisions)] /\ Fits(history[s])
  BY EarlyHolds DEF Inv, TypeOK, Once
<1> DEFINE after == Upgraded(history[s], config)
<1>3. Len(history[s]) = 1 /\ UNCHANGED <<cooldownUntil, recovery, faults>>
  BY DEF Upgrade, clock
<1>4. /\ after \in Seq(Revisions) /\ Len(after) = Len(history[s]) + 1
      /\ SameConfigs(history[s], after)
      /\ \A n \in 1..Len(history[s]) :
           after[n].status \in {history[s][n].status} \cup
             (IF history[s][n].status = "deployed" THEN {"superseded"} ELSE {})
  BY <1>2, UpgradedHolds
<1>5. 1 \in 1..1 /\ 1 + 1 = 2 /\ 1 < 3 /\ 2 # 3 /\ 2 \in 1..3
  OBVIOUS
<1>6. Len(after) = 2
  BY <1>3, <1>4, <1>5
<1>7. Grows
  BY <1>1, <1>2, <1>4, RevisedGrows
<1> HIDE DEF after
<1>8. history[s][1].config = Old /\ history[s][1].status \in {"deployed", "superseded"}
  BY <1>2, <1>3, <1>5 DEF Fits
<1>9. after[1].config = Old /\ after[1].status \in {"deployed", "superseded"}
  BY <1>3, <1>4, <1>5, <1>8 DEF SameConfigs
<1>10. Fits(after)
  BY <1>5, <1>6, <1>9 DEF Fits
<1>11. history'[s] = after /\ \A u \in Services \ {s} : history'[u] = history[u]
  BY <1>1, <1>2 DEF Revised, after
<1> QED
  BY <1>3, <1>6, <1>7, <1>10, <1>11, OutsideOnward

\* A refresh, a tick or no step at all.
LEMMA QuietEarly ==
  ASSUME Early, UNCHANGED <<cooldownUntil, releases, recovery, faults>>
  PROVE  Onward
<1>1. Inv /\ history' = history /\ deployedAt' = deployedAt
  BY EarlyHolds DEF releases
<1>2. Grows
  BY <1>1, StillGrows DEF releases
<1>3. CASE Services = {}
  BY <1>3, <1>1, Constants DEF Onward, FirstWindow, Alone, Follow
<1>4. CASE Services # {}
  BY <1>1, <1>2, <1>4, OutsideOnward
<1> QED
  BY <1>3, <1>4

LEMMA WindowInit == Init => WindowInv
<1> SUFFICES ASSUME Init PROVE WindowInv
  OBVIOUS
<1>1. Inv /\ Seed \subseteq graph
  BY InvInit DEF Init
<1>2. \A t \in Services : ~Claimed(t)
  <2>1. \A t \in Services : ExecKey(t) \in Keys
    BY DEF ExecKey, Keys
  <2> QED
    BY <2>1 DEF Init, NoWindows, Claimed
<1>3. /\ \A s \in Services : recovery[s].at = "idle" /\ recovery[s].upgraded = {}
      /\ \A s, t \in Services : ~Works(s, t)
  BY DEF Init, Works
<1>4. \A t \in Services : Fits(history[t]) /\ Len(history[t]) = 1
  <2> TAKE t \in Services
  <2>1. history[t] = <<[config |-> Old, status |-> "deployed"]>>
    BY DEF Init
  <2>2. Len(history[t]) = 1 /\ history[t][1] = [config |-> Old, status |-> "deployed"]
    BY <2>1
  <2>3. 1 # 3 /\ 1 \in 1..3
    OBVIOUS
  <2> QED
    BY <2>2, <2>3 DEF Fits
<1>5. 1 # 3 /\ 1 # 2
  OBVIOUS
<1>6. FirstWindow
  BY <1>2, <1>3, <1>4, <1>5 DEF FirstWindow, Alone, Once, Turn, Expanding
<1>7. Follow
  BY <1>2, <1>3, Constants DEF Follow, Settled, Owes, Expanding
<1> QED
  BY <1>1, <1>6, <1>7 DEF WindowInv

\* One case per action; the clock never goes back into the first window.
LEMMA WindowNext == WindowInv /\ [Next]_vars => WindowInv'
<1> SUFFICES ASSUME WindowInv, [Next]_vars PROVE WindowInv'
  OBVIOUS
<1>1. Inv /\ Seed \subseteq graph /\ now \in Nat
  BY DEF WindowInv, Inv, TypeOK, Times
<1>2. Inv'
  BY <1>1, InvNext
<1>3. Seed \subseteq graph'
  <2>1. CASE Refresh
    BY <2>1 DEF Refresh, Merged
  <2>2. CASE UNCHANGED graph
    BY <1>1, <2>2
  <2> QED
    BY <2>1, <2>2 DEF Next, vars, Claim, Execute, Expansion, FindParents,
       FindChildren, NextPeer, ClaimPeer, ChooseTarget, Apply, Upgrade, Tick
<1>4. now' = now \/ now' = now + 1
  BY DEF Next, vars, clock, Claim, Execute, Expansion, FindParents, FindChildren,
         NextPeer, ClaimPeer, ChooseTarget, Apply, Upgrade, Refresh, Tick
<1>5. ASSUME now' < GateWindow PROVE Onward
  <2>1. now < GateWindow
    BY <1>1, <1>4, <1>5, Constants
  <2>2. Early
    BY <2>1 DEF Early
  <2>3. ASSUME NEW s \in Services, Claim(s) \/ Execute(s) \/ Expansion(s) \/ Upgrade(s)
        PROVE  Onward
    BY <2>2, <2>3, ClaimEarly, ExecuteEarly, FindEarly, NextPeerEarly,
       ClaimPeerEarly, ChooseTargetEarly, ApplyEarly, UpgradeEarly DEF Expansion
  <2>4. CASE Refresh \/ Tick \/ UNCHANGED vars
    BY <2>2, <2>4, QuietEarly DEF Refresh, Tick, vars, clock, releases
  <2> QED
    BY <2>3, <2>4 DEF Next
<1>6. (now < GateWindow)' => FirstWindow' /\ Follow'
  BY <1>5 DEF Onward
<1> QED
  BY <1>2, <1>3, <1>6 DEF WindowInv

\* A history of the first window has the new values once at most.
LEMMA FitsOnce ==
  ASSUME NEW h \in Seq(Revisions), Fits(h)
  PROVE  Cardinality({n \in DOMAIN h : h[n].config = New /\ h[n].status # "failed"}) <= 1
<1> DEFINE S == {n \in DOMAIN h : h[n].config = New /\ h[n].status # "failed"}
<1>1. DOMAIN h = 1..Len(h) /\ Len(h) \in 1..3
  BY LenProperties DEF Fits
<1>2. Old # New
  BY PeerAssumption
<1>3. ASSUME NEW n \in S PROVE n = 2
  <2>1. n \in 1..Len(h) /\ h[n].config = New
    BY <1>1
  <2>2. n # 1 /\ (Len(h) = 3 => n # 3)
    BY <1>2, <2>1 DEF Fits
  <2>3. \A k \in 1..3, m \in 1..3 : m <= k /\ m # 1 /\ (k = 3 => m # 3) => m = 2
    OBVIOUS
  <2>4. n \in 1..3 /\ n <= Len(h)
    BY <1>1, <2>1
  <2> QED
    BY <1>1, <2>2, <2>3, <2>4
<1>4. S \subseteq {2}
  BY <1>3
<1> HIDE DEF S
<1>5. IsFiniteSet({2}) /\ Cardinality({2}) = 1
  BY FS_Singleton
<1>6. Cardinality(S) <= Cardinality({2})
  BY <1>4, <1>5, FS_Subset
<1> QED
  BY <1>5, <1>6 DEF S

\* Until the first window of the gate has passed, no service goes back to the
\* values of the batch, whatever recoveries roll it back and however Helm
\* fails: the slot that the first of them claimed keeps all others off.
THEOREM NoReturnWithinWindow ==
  Spec => [](now < GateWindow => NoReturnToTheBatch)
<1>1. WindowInv => (now < GateWindow => NoReturnToTheBatch)
  <2> SUFFICES ASSUME WindowInv, now < GateWindow PROVE NoReturnToTheBatch
    OBVIOUS
  <2>1. \A s \in Services : history[s] \in Seq(Revisions) /\ Fits(history[s])
    BY EarlyHolds DEF Early, Inv, TypeOK, Once
  <2> QED
    BY <2>1, FitsOnce DEF NoReturnToTheBatch
<1> QED
  BY <1>1, WindowInit, WindowNext, PTL DEF Spec

\* When every recovery of the first window is over and Helm never failed, the
\* declared callers that were released with a service that was rolled back are
\* on their old values again, whoever rolled them back and however the graph
\* was refreshed in the meantime.
THEOREM CallersFollowWithinWindow ==
  Spec => [](now < GateWindow => CallersFollow)
<1>1. WindowInv => (now < GateWindow => CallersFollow)
  <2> SUFFICES ASSUME WindowInv, now < GateWindow,
                      \A s \in Services : ~Busy(s), faults = 0,
                      NEW e \in Seed, ExpansionDone(e[2]),
                      e[1] \in recovery[e[2]].upgraded,
                      ReleasedTogether(e[1], e[2])
               PROVE  Serves(e[1]) = Old
    BY DEF CallersFollow
  <2> DEFINE c == e[1]
             s == e[2]
  <2>1. Early /\ c \in Services /\ s \in Services
    BY Constants DEF Early
  <2>2. /\ recovery[s].at = "next" /\ recovery[s].peers = {}
        /\ recovery[s].at \in Expanding
    BY DEF ExpansionDone, At, Expanding
  <2>3. Owes(s, c) /\ Settled(c)
    BY <2>1, EarlyHolds DEF Follow
  <2>4. Claimed(c)
    BY <2>2, <2>3 DEF Owes, Reaches
  <2>5. \A q \in Services : ~Works(q, c)
    BY DEF Busy, At, ExpansionDone, Works
  <2>6. Len(history[c]) > 1 /\ history[c][2].config = New /\ Fits(history[c])
    BY <2>1, EarlyHolds DEF Turn, Once
  <2>7. Len(history[c]) # 2
    BY <2>1, <2>3, <2>4, <2>5, <2>6 DEF Settled
  <2>8. \A k \in 1..3 : k > 1 /\ k # 2 => k = 3
    OBVIOUS
  <2>9. Len(history[c]) = 3
    BY <2>6, <2>7, <2>8 DEF Fits
  <2> QED
    BY <2>6, <2>9 DEF Serves, Fits
<1> QED
  BY <1>1, WindowInit, WindowNext, PTL DEF Spec

-----------------------------------------------------------------------------
(* The root cause is the deepest service in trouble *)

\* Induction over the numbers, for a set of them.
LEMMA AllNumbers ==
  ASSUME NEW S \in SUBSET Nat, 0 \in S, \A n \in S : n + 1 \in S
  PROVE  S = Nat
<1> SUFFICES ASSUME S # Nat PROVE FALSE
  OBVIOUS
<1> DEFINE T == Nat \ S
<1>1. T \subseteq Nat /\ T # {}
  OBVIOUS
<1>2. PICK t \in T : \A u \in T : <<u, t>> \notin Less
  BY <1>1, LessIsWellFounded, WFMin
<1>3. t \in Nat /\ t # 0 /\ t - 1 \in Nat /\ t - 1 < t
  BY <1>2
<1>4. t - 1 \notin T
  BY <1>2, <1>3 DEF Less
<1>5. (t - 1) + 1 = t
  BY <1>3
<1> QED
  BY <1>2, <1>3, <1>4, <1>5

\* The two directions of the search, in one.
Neighbours(edges, up, v) ==
  IF up THEN GetParents(edges, v) ELSE GetChildren(edges, v)
Ends(edges, up) == IF up THEN {e[1] : e \in edges} ELSE {e[2] : e \in edges}
Widened(edges, up, X) == X \cup UNION {Neighbours(edges, up, v) : v \in X}
Closed(edges, up, X) == \A v \in X : Neighbours(edges, up, v) \subseteq X
Searches(f, edges, up, s, c) ==
  f = [n \in 0..c |-> IF n = 0 THEN {s} ELSE Widened(edges, up, f[n - 1])]

\* A service and all that are above it, or below it.
Closure(edges, up, s) ==
  {s} \cup (IF up THEN GetUpstream(edges, s) ELSE GetDownstream(edges, s))

LEMMA ClosureUnfolds ==
  ASSUME NEW edges, NEW up \in BOOLEAN, NEW s
  PROVE  LET c == Cardinality(edges)
         IN  Closure(edges, up, s) =
               {s} \cup ((CHOOSE f : Searches(f, edges, up, s, c))[c] \ {s})
<1>1. CASE up
  BY <1>1 DEF Closure, Reached, GetUpstream, Searches, Widened, Neighbours
<1>2. CASE ~up
  BY <1>2 DEF Closure, Reached, GetDownstream, Searches, Widened, Neighbours
<1> QED
  BY <1>1, <1>2

\* The recursion of the search has a solution.
LEMMA SearchExists ==
  ASSUME NEW edges, NEW up \in BOOLEAN, NEW s, NEW c \in Nat
  PROVE  \E f : Searches(f, edges, up, s, c)
<1> DEFINE N == {n \in Nat : \E f : Searches(f, edges, up, s, n)}
<1>1. 0 \in N
  <2> DEFINE f == [n \in 0..0 |-> {s}]
  <2>1. f = [n \in 0..0 |-> IF n = 0 THEN {s} ELSE Widened(edges, up, f[n - 1])]
    OBVIOUS
  <2> QED
    BY <2>1 DEF Searches
<1>2. ASSUME NEW n \in N PROVE n + 1 \in N
  <2>1. PICK g : g = [k \in 0..n |-> IF k = 0 THEN {s}
                                     ELSE Widened(edges, up, g[k - 1])]
    BY <1>2 DEF Searches
  <2> DEFINE f == [k \in 0..(n + 1) |-> IF k = 0 THEN {s}
                                        ELSE Widened(edges, up, g[k - 1])]
  <2>2. ASSUME NEW k \in 0..(n + 1), k # 0 PROVE f[k - 1] = g[k - 1]
    <3>1. k - 1 \in 0..n /\ k - 1 \in 0..(n + 1) /\ n \in Nat
      BY <2>2
    <3> QED
      BY <2>1, <3>1
  <2>3. f = [k \in 0..(n + 1) |-> IF k = 0 THEN {s}
                                  ELSE Widened(edges, up, f[k - 1])]
    BY <2>2
  <2> HIDE DEF f
  <2>4. Searches(f, edges, up, s, n + 1)
    BY <2>3 DEF Searches
  <2> QED
    BY <1>2, <2>4
<1>3. N = Nat
  <2> HIDE DEF N
  <2>1. N \in SUBSET Nat
    BY DEF N
  <2> QED
    BY <1>1, <1>2, <2>1, AllNumbers
<1> QED
  BY <1>3

\* What the search finds is in every closed set around its start.
LEMMA SearchStaysInside ==
  ASSUME NEW edges, NEW up \in BOOLEAN, NEW s, NEW c \in Nat, NEW f,
         Searches(f, edges, up, s, c), NEW X, s \in X, Closed(edges, up, X)
  PROVE  \A n \in 0..c : f[n] \subseteq X
<1> DEFINE N == {n \in Nat : n \in 0..c => f[n] \subseteq X}
<1>1. f = [n \in 0..c |-> IF n = 0 THEN {s} ELSE Widened(edges, up, f[n - 1])]
  BY DEF Searches
<1>2. 0 \in N
  BY <1>1
<1>3. ASSUME NEW n \in N PROVE n + 1 \in N
  <2> SUFFICES ASSUME n + 1 \in 0..c PROVE f[n + 1] \subseteq X
    BY <1>3
  <2>1. n \in 0..c /\ n + 1 # 0 /\ (n + 1) - 1 = n
    BY <1>3
  <2>2. f[n] \subseteq X /\ f[n + 1] = Widened(edges, up, f[n])
    BY <1>1, <1>3, <2>1
  <2> QED
    BY <2>2 DEF Widened, Closed
<1>4. N = Nat
  <2> HIDE DEF N
  <2>1. N \in SUBSET Nat
    BY DEF N
  <2> QED
    BY <1>2, <1>3, <2>1, AllNumbers
<1> QED
  BY <1>4

LEMMA EndsAreFew ==
  ASSUME NEW edges, IsFiniteSet(edges), NEW up \in BOOLEAN
  PROVE  /\ IsFiniteSet(Ends(edges, up))
         /\ Cardinality(Ends(edges, up)) <= Cardinality(edges)
         /\ \A v : Neighbours(edges, up, v) \subseteq Ends(edges, up)
<1> DEFINE f == [e \in edges |-> IF up THEN e[1] ELSE e[2]]
           T == Ends(edges, up)
<1>1. f \in Surjection(edges, T)
  BY DEF Ends, Surjection
<1>2. \A v : Neighbours(edges, up, v) \subseteq T
  BY DEF Ends, Neighbours, GetParents, GetChildren
<1> QED
  BY <1>1, <1>2, FS_Surjection
\* Each step finds a service more or has found all: as many steps as there are
\* edges find all of them.
LEMMA SearchFindsAll ==
  ASSUME NEW edges, IsFiniteSet(edges), NEW up \in BOOLEAN, NEW s, NEW f,
         Searches(f, edges, up, s, Cardinality(edges))
  PROVE  LET found == f[Cardinality(edges)]
         IN  /\ s \in found /\ Closed(edges, up, found)
             /\ IsFiniteSet(found)
<1> DEFINE c == Cardinality(edges)
           All == Ends(edges, up) \cup {s}
           N == {n \in Nat : n \in 0..c =>
                   /\ s \in f[n] /\ f[n] \subseteq All
                   /\ Closed(edges, up, f[n]) \/ Cardinality(f[n]) >= n + 1}
<1>1. f = [n \in 0..c |-> IF n = 0 THEN {s} ELSE Widened(edges, up, f[n - 1])]
  BY DEF Searches
<1>2. c \in Nat
  BY FS_CardinalityType
<1>3. /\ IsFiniteSet(All) /\ Cardinality(All) \in Nat /\ Cardinality(All) <= c + 1
      /\ \A v : Neighbours(edges, up, v) \subseteq All
  <2>1. /\ IsFiniteSet(Ends(edges, up)) /\ Cardinality(Ends(edges, up)) <= c
        /\ \A v : Neighbours(edges, up, v) \subseteq Ends(edges, up)
        /\ Cardinality(Ends(edges, up)) \in Nat
    BY EndsAreFew, FS_CardinalityType
  <2>2. IsFiniteSet(All) /\ Cardinality(All) \in Nat
    BY <2>1, FS_AddElement, FS_CardinalityType
  <2>3. Cardinality(All) = IF s \in Ends(edges, up) THEN Cardinality(Ends(edges, up))
                           ELSE Cardinality(Ends(edges, up)) + 1
    BY <2>1, FS_AddElement
  <2>4. Cardinality(All) <= c + 1
    BY <1>2, <2>1, <2>3
  <2> QED
    BY <2>1, <2>2, <2>4
<1>4. 0 \in N
  <2>1. f[0] = {s}
    BY <1>1, <1>2
  <2>2. Cardinality({s}) = 1
    BY FS_Singleton
  <2> QED
    BY <2>1, <2>2
<1>5. ASSUME NEW n \in N PROVE n + 1 \in N
  <2> SUFFICES ASSUME n + 1 \in 0..c
               PROVE  /\ s \in f[n + 1] /\ f[n + 1] \subseteq All
                      /\ \/ Closed(edges, up, f[n + 1])
                         \/ Cardinality(f[n + 1]) >= (n + 1) + 1
    BY <1>5
  <2>1. n \in Nat /\ n \in 0..c /\ n + 1 # 0 /\ (n + 1) - 1 = n
    BY <1>2, <1>5
  <2>2. /\ s \in f[n] /\ f[n] \subseteq All
        /\ Closed(edges, up, f[n]) \/ Cardinality(f[n]) >= n + 1
    BY <1>5, <2>1
  <2>3. f[n + 1] = Widened(edges, up, f[n])
    BY <1>1, <2>1
  <2>4. f[n] \subseteq f[n + 1] /\ f[n + 1] \subseteq All
    BY <1>3, <2>2, <2>3 DEF Widened
  <2>5. CASE Closed(edges, up, f[n])
    <3>1. f[n + 1] = f[n]
      BY <2>3, <2>5 DEF Widened, Closed
    <3> QED
      BY <2>2, <2>5, <3>1
  <2>6. CASE ~Closed(edges, up, f[n])
    <3>1. f[n + 1] # f[n]
      BY <2>3, <2>6 DEF Widened, Closed
    <3>2. IsFiniteSet(f[n + 1]) /\ IsFiniteSet(f[n])
      BY <1>3, <2>2, <2>4, FS_Subset
    <3>3. Cardinality(f[n]) \in Nat /\ Cardinality(f[n + 1]) \in Nat
      BY <3>2, FS_CardinalityType
    <3>4. /\ Cardinality(f[n]) <= Cardinality(f[n + 1])
          /\ Cardinality(f[n]) # Cardinality(f[n + 1])
      BY <2>4, <3>1, <3>2, FS_Subset
    <3>5. Cardinality(f[n]) >= n + 1
      BY <2>2, <2>6
    <3>6. \A k, m \in Nat : k <= m /\ k # m /\ k >= n + 1 => m >= (n + 1) + 1
      BY <2>1
    <3>7. Cardinality(f[n + 1]) >= (n + 1) + 1
      BY <3>3, <3>4, <3>5, <3>6
    <3> QED
      BY <2>2, <2>4, <3>7
  <2> QED
    BY <2>5, <2>6
<1>6. N = Nat
  <2> HIDE DEF N
  <2>1. N \in SUBSET Nat
    BY DEF N
  <2> QED
    BY <1>4, <1>5, <2>1, AllNumbers
<1>7. c \in N /\ c \in 0..c
  BY <1>2, <1>6
<1>8. /\ s \in f[c] /\ f[c] \subseteq All
      /\ Closed(edges, up, f[c]) \/ Cardinality(f[c]) >= c + 1
  BY <1>7
<1>9. IsFiniteSet(f[c]) /\ Cardinality(f[c]) \in Nat
      /\ Cardinality(f[c]) <= Cardinality(All)
      /\ (Cardinality(All) = Cardinality(f[c]) => All = f[c])
  BY <1>3, <1>8, FS_Subset, FS_CardinalityType
<1>10. Closed(edges, up, f[c])
  <2> SUFFICES ASSUME Cardinality(f[c]) >= c + 1 PROVE Closed(edges, up, f[c])
    BY <1>8
  <2>1. Cardinality(All) = Cardinality(f[c])
    <3> DEFINE all == Cardinality(All)
               found == Cardinality(f[c])
    <3>1. all \in Nat /\ found \in Nat /\ c \in Nat
          /\ all <= c + 1 /\ found <= all /\ found >= c + 1
      BY <1>2, <1>3, <1>9
    <3> HIDE DEF all, found, c
    <3>2. all = found
      BY <3>1
    <3> QED
      BY <3>2 DEF all, found
  <2> QED
    BY <1>3, <1>9, <2>1 DEF Closed
<1> QED
  BY <1>8, <1>9, <1>10

\* So the services above or below are the least closed set around a service.
LEMMA ClosureIsLeast ==
  ASSUME NEW edges, IsFiniteSet(edges), NEW up \in BOOLEAN, NEW s
  PROVE  /\ s \in Closure(edges, up, s) /\ IsFiniteSet(Closure(edges, up, s))
         /\ Closed(edges, up, Closure(edges, up, s))
         /\ \A X : s \in X /\ Closed(edges, up, X) => Closure(edges, up, s) \subseteq X
<1> DEFINE c == Cardinality(edges)
           f == CHOOSE g : Searches(g, edges, up, s, c)
<1>1. c \in Nat
  BY FS_CardinalityType
<1>2. Searches(f, edges, up, s, c)
  BY <1>1, SearchExists
<1>3. Closure(edges, up, s) = {s} \cup (f[c] \ {s})
  BY ClosureUnfolds
<1> HIDE DEF f
<1>4. s \in f[c] /\ Closed(edges, up, f[c]) /\ IsFiniteSet(f[c])
  BY <1>2, SearchFindsAll
<1>5. Closure(edges, up, s) = f[c]
  BY <1>3, <1>4
<1>6. ASSUME NEW X, s \in X, Closed(edges, up, X) PROVE f[c] \subseteq X
  BY <1>1, <1>2, <1>6, SearchStaysInside
<1> QED
  BY <1>4, <1>5, <1>6

\* Who is below a service has it above, and all that are above it.
LEMMA ClosureTurnsRound ==
  ASSUME NEW edges, IsFiniteSet(edges), NEW up \in BOOLEAN,
         NEW down \in BOOLEAN, down = ~up, NEW s,
         NEW t \in Closure(edges, down, s)
  PROVE  /\ s \in Closure(edges, up, t)
         /\ Closure(edges, up, s) \subseteq Closure(edges, up, t)
<1>1. \A v, w : w \in Neighbours(edges, down, v) => v \in Neighbours(edges, up, w)
  BY DEF Neighbours, GetParents, GetChildren
<1> DEFINE X == {v \in Closure(edges, down, s) : s \in Closure(edges, up, v)}
<1>2. \A v : /\ v \in Closure(edges, up, v) /\ Closed(edges, up, Closure(edges, up, v))
             /\ \A Y : v \in Y /\ Closed(edges, up, Y) => Closure(edges, up, v) \subseteq Y
  BY ClosureIsLeast
<1>3. /\ s \in Closure(edges, down, s) /\ Closed(edges, down, Closure(edges, down, s))
      /\ \A Y : s \in Y /\ Closed(edges, down, Y) => Closure(edges, down, s) \subseteq Y
  BY ClosureIsLeast
<1>4. Closed(edges, down, X)
  <2> SUFFICES ASSUME NEW v \in X, NEW w \in Neighbours(edges, down, v)
               PROVE  w \in X
    BY DEF Closed
  <2>1. w \in Closure(edges, down, s)
    BY <1>3 DEF Closed
  <2>2. v \in Closure(edges, up, w)
    BY <1>1, <1>2 DEF Closed
  <2>3. Closure(edges, up, v) \subseteq Closure(edges, up, w)
    BY <1>2, <2>2
  <2> QED
    BY <2>1, <2>3
<1>5. s \in Closure(edges, up, t)
  BY <1>2, <1>3, <1>4
<1> QED
  BY <1>2, <1>5

\* Without circles, no other service is above and below the same one.
LEMMA NoneAboveAndBelow ==
  ASSUME NEW edges, IsFiniteSet(edges), Acyclic(edges),
         NEW s, NEW t \in Closure(edges, FALSE, s), t # s
  PROVE  t \notin Closure(edges, TRUE, s)
<1> SUFFICES ASSUME t \in Closure(edges, TRUE, s) PROVE FALSE
  OBVIOUS
<1> DEFINE Below(v) == Closure(edges, FALSE, v)
           X == {t} \cup UNION {Below(w) : w \in GetChildren(edges, t) \ {t}}
<1>1. \A v : /\ v \in Below(v) /\ Closed(edges, FALSE, Below(v))
             /\ \A Y : v \in Y /\ Closed(edges, FALSE, Y) => Below(v) \subseteq Y
  BY ClosureIsLeast
<1>2. s \in Below(t)
  <2>1. TRUE = ~FALSE /\ FALSE \in BOOLEAN /\ TRUE \in BOOLEAN
    OBVIOUS
  <2> QED
    BY <2>1, ClosureTurnsRound
<1> HIDE DEF Below
<1>3. Closed(edges, FALSE, X)
  <2> SUFFICES ASSUME NEW v \in X, NEW u \in GetChildren(edges, v) PROVE u \in X
    BY DEF Closed, Neighbours
  <2>1. CASE v = t
    BY <1>1, <2>1
  <2>2. CASE v # t
    <3>1. PICK w \in GetChildren(edges, t) \ {t} : v \in Below(w)
      BY <2>2
    <3>2. u \in Below(w)
      BY <1>1, <3>1 DEF Closed, Neighbours
    <3> QED
      BY <3>1, <3>2
  <2> QED
    BY <2>1, <2>2
<1>4. s \in X
  <2>1. t \in X
    OBVIOUS
  <2> HIDE DEF X
  <2> QED
    BY <1>1, <1>2, <1>3, <2>1
<1>5. PICK w \in GetChildren(edges, t) \ {t} : s \in Below(w)
  BY <1>4
<1>6. t \in Below(w)
  <2>1. Below(s) \subseteq Below(w)
    BY <1>1, <1>5
  <2> QED
    BY <2>1 DEF Below
<1>7. t \in GetDownstream(edges, w)
  BY <1>5, <1>6 DEF Below, Closure
<1>8. PICK e \in edges : e[1] = t /\ e[2] = w
  BY <1>5 DEF GetChildren
<1> QED
  BY <1>7, <1>8 DEF Acyclic

\* A service is estimated deeper than those that reach it.
LEMMA DeeperBelow ==
  ASSUME NEW edges, IsFiniteSet(edges), Acyclic(edges), NEW s,
         NEW t \in GetDownstream(edges, s)
  PROVE  /\ Depth(edges, s) \in Nat /\ Depth(edges, t) \in Nat
         /\ Depth(edges, s) < Depth(edges, t)
<1> DEFINE above == GetUpstream(edges, s)
           higher == GetUpstream(edges, t)
<1>1. t # s /\ s \notin above /\ t \notin higher
  BY DEF GetDownstream, GetUpstream, Reached
<1>2. t \in Closure(edges, FALSE, s)
  BY DEF Closure
<1>3. /\ s \in Closure(edges, TRUE, t)
      /\ Closure(edges, TRUE, s) \subseteq Closure(edges, TRUE, t)
  <2>1. FALSE = ~TRUE /\ FALSE \in BOOLEAN /\ TRUE \in BOOLEAN
    OBVIOUS
  <2> QED
    BY <1>2, <2>1, ClosureTurnsRound
<1>4. t \notin Closure(edges, TRUE, s)
  BY <1>1, <1>2, NoneAboveAndBelow
<1>5. above \cup {s} \subseteq higher
  BY <1>1, <1>3, <1>4 DEF Closure
<1>6. IsFiniteSet(above) /\ IsFiniteSet(higher)
  <2>1. IsFiniteSet(Closure(edges, TRUE, s)) /\ IsFiniteSet(Closure(edges, TRUE, t))
    BY ClosureIsLeast
  <2>2. above \subseteq Closure(edges, TRUE, s) /\ higher \subseteq Closure(edges, TRUE, t)
    BY DEF Closure
  <2> QED
    BY <2>1, <2>2, FS_Subset
<1> HIDE DEF above, higher
<1>7. /\ Cardinality(above) \in Nat /\ Cardinality(higher) \in Nat
      /\ Cardinality(above \cup {s}) = Cardinality(above) + 1
      /\ IsFiniteSet(above \cup {s})
      /\ Cardinality(above \cup {s}) <= Cardinality(higher)
  BY <1>1, <1>5, <1>6, FS_AddElement, FS_CardinalityType, FS_Subset
<1>8. Cardinality(above) < Cardinality(higher)
  BY <1>7
<1> QED
  BY <1>7, <1>8 DEF Depth, above, higher

LEMMA BlameIsDeepest ==
  ASSUME NEW edges, IsFiniteSet(edges), Acyclic(edges), NEW alerted, NEW violating
  PROVE  BlamesTheDeepest(edges, alerted, violating)
<1> DEFINE degraded == GetDownstream(edges, alerted) \cap violating
<1> SUFFICES ASSUME NEW cause \in RootCauses(edges, alerted, violating),
                    NEW t \in GetDownstream(edges, cause) \cap degraded
             PROVE  FALSE
  BY DEF BlamesTheDeepest
<1>1. /\ cause \in degraded
      /\ \A other \in degraded : Depth(edges, other) <= Depth(edges, cause)
  BY DEF RootCauses
<1>2. /\ Depth(edges, cause) \in Nat /\ Depth(edges, t) \in Nat
      /\ Depth(edges, cause) < Depth(edges, t)
  BY DeeperBelow
<1>3. Depth(edges, t) <= Depth(edges, cause)
  BY <1>1
<1> QED
  BY <1>2, <1>3

\* Root cause analysis never blames a service that calls another one in
\* trouble, for any finite number of services and whatever traffic is observed,
\* unless services call each other in circles (rootcause/analyzer.go:98-112).
\* The services must be finitely many for a depth to be a number.
THEOREM DeepestIsBlamed ==
  ASSUME IsFiniteSet(Services)
  PROVE  Spec => RootCauseIsDeepest
<1> DEFINE Upgrades == {s \in Services : IsUpgraded(s)}
<1>1. TypeOK' /\ Acyclic(graph') =>
        \A alerted \in Services : BlamesTheDeepest(graph', alerted, Upgrades)
  <2> SUFFICES ASSUME TypeOK', Acyclic(graph'), NEW alerted \in Services
               PROVE  BlamesTheDeepest(graph', alerted, Upgrades)
    OBVIOUS
  <2>1. IsFiniteSet(Services \X Services) /\ graph' \in SUBSET (Services \X Services)
    BY FS_Product DEF TypeOK
  <2>2. IsFiniteSet(graph')
    BY <2>1, FS_Subset
  <2> HIDE DEF Upgrades
  <2> QED
    BY <2>2, BlameIsDeepest
<1> QED
  BY <1>1, TypeCorrect, PTL DEF RootCauseIsDeepest
=============================================================================
