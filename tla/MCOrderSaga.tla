---------------------------- MODULE MCOrderSaga ----------------------------
(***************************************************************************)
(* OrderSaga for TLC: enough mice for every saga, one hub to contend for.  *)
(***************************************************************************)
EXTENDS OrderSaga

Line1(i) == [item |-> i, quantity |-> 1]
BothItems == << Line1("mouse"), Line1("hub") >>
OneItem == << Line1("mouse") >>

SmallCarts == {BothItems, OneItem}
OneCart == {OneItem}
OneHub == [i \in Items |-> IF i = "hub" THEN 1 ELSE Cardinality(Sagas)]
=============================================================================
