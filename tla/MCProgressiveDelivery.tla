----------------------- MODULE MCProgressiveDelivery -----------------------
(***************************************************************************)
(* ProgressiveDelivery for TLC: inventory-service with the objectives of   *)
(* config.go:198-204 (rounded to hundredths of a percent) and a service    *)
(* without any, which depends on it.                                       *)
(***************************************************************************)
EXTENDS ProgressiveDelivery

InventorySLO == [s \in {"inventory"} |->
                 [availability |-> 9995, latency |-> 200, errorRate |-> 50,
                  throughput |-> 5]]
OnInventory == [s \in Services |-> IF s = "inventory" THEN {} ELSE {"inventory"}]

Reading(latency, errors, traffic) ==
  [availability |-> All - errors, latency |-> latency, errorRate |-> errors,
   traffic |-> traffic]
\* Sound, slow, half the budget spent, burning fast, and without traffic.
SomeSamples == { Reading(100, 0, 20), Reading(300, 0, 20), Reading(100, 3, 20),
                 Reading(100, 100, 20), Reading(0, 0, 0) }
=============================================================================
