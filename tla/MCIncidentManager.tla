------------------------- MODULE MCIncidentManager -------------------------
(***************************************************************************)
(* Instances of IncidentManager: a service that calls another one, an      *)
(* error-rate alert of the caller and a stock alert of the callee.         *)
(***************************************************************************)
EXTENDS IncidentManager

CONSTANTS order, inventory, errors, stock

Rollback2 == [action |-> "PrepareRollback", cooldown |-> 1, maxRetries |-> 2]
Rollback1 == [Rollback2 EXCEPT !.maxRetries = 1]
Restart1 == [action |-> "PrepareRestart", cooldown |-> 1, maxRetries |-> 1]

\* One service: all deliveries contend for its slot.
AlertsOfOneService ==
  [f \in Fingerprints |-> [service |-> order, name |-> f,
                           policy |-> Rollback2]]
\* Two services; the alert of the caller may have its cause in the callee.
AlertsOfTwoServices ==
  [f \in Fingerprints |->
     IF f = stock THEN [service |-> inventory, name |-> f, policy |-> Restart1]
     ELSE [service |-> order, name |-> f, policy |-> Rollback1]]

EachItself == [s \in Services |-> {s}]
NoPeers == [s \in Services |-> {}]
\* order calls inventory: inventory may be the cause of order's alerts, and
\* order is rolled back together with it.
CallChain == [s \in Services |-> IF s = order THEN Services ELSE {s}]
CallersOfEach == [s \in Services |-> Services \ CallChain[s]]

NoHistory == {<<>>}
OneFailure == {<<[service |-> order, success |-> FALSE]>>}
=============================================================================
