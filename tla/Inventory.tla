----------------------------- MODULE Inventory -----------------------------
(***************************************************************************)
(* The stock of the inventory service (inventory-service/repository): how  *)
(* many units of each item are reserved.  Each operator is one critical    *)
(* section of the repository's mutex.  Nothing says who reserved what, so  *)
(* a release gives back units of an item, not those of an order.           *)
(***************************************************************************)
EXTENDS Naturals

CONSTANTS Items,   \* the items of the catalogue
          Stock    \* the units of each that exist

ASSUME StockAssumption == Stock \in [Items -> Nat]

NothingReserved == [i \in Items |-> 0]

\* A plausible mistake, for the checks of the properties: the stock is
\* compared before what is reserved is taken off.
HasAvailableInStock(reserved, item, quantity) == Stock[item] >= quantity

HasAvailable(reserved, item, quantity) ==
  Stock[item] - reserved[item] >= quantity

Reserve(reserved, item, quantity) == [reserved EXCEPT ![item] = @ + quantity]

Release(reserved, item, quantity) ==
  [reserved EXCEPT ![item] = IF quantity > @ THEN 0 ELSE @ - quantity]

=============================================================================
