---------------------------- MODULE OrderLedger ----------------------------
(***************************************************************************)
(* What the order saga promises for each order, without saying how: an     *)
(* order collects the units it wants, is charged once it has all of them,  *)
(* and is confirmed once it is charged; or it gives everything back,       *)
(* uncharged, and fails.  An order whose calls met a fault is excused from *)
(* the books, but is still never confirmed without a charge, and what is   *)
(* decided stays decided.                                                   *)
(***************************************************************************)
EXTENDS Integers

CONSTANTS Orders, Items

VARIABLES wanted,   \* the units each order asks for
          entry,    \* the status, the units and the charges of each order
          excused   \* the orders whose calls met a fault

Nothing == [i \in Items |-> 0]
Entry(status, held, charged) ==
  [status |-> status, held |-> held, charged |-> charged]

Init == /\ wanted \in [Orders -> [Items -> Nat]]
        /\ entry = [o \in Orders |-> Entry("none", Nothing, 0)]
        /\ excused = {}

Becomes(o, e) == entry' = [entry EXCEPT ![o] = e]

Open(o) == /\ entry[o].status = "none"
           /\ Becomes(o, Entry("PENDING", Nothing, 0))

\* Holding more or less, within what is wanted, is for uncharged orders.
Hold(o) == /\ entry[o].status = "PENDING" /\ entry[o].charged = 0
           /\ \A i \in Items : entry'[o].held[i] \in 0..wanted[o][i]
           /\ Becomes(o, Entry("PENDING", entry'[o].held, 0))

Charge(o) == /\ entry[o].status = "PENDING" /\ entry[o].charged = 0
             /\ entry[o].held = wanted[o]
             /\ Becomes(o, Entry("PENDING", wanted[o], 1))

Confirm(o) == /\ entry[o].status = "PENDING" /\ entry[o].charged = 1
              /\ Becomes(o, [entry[o] EXCEPT !.status = "CONFIRMED"])

Fail(o) == /\ entry[o] = Entry("PENDING", Nothing, 0)
           /\ Becomes(o, Entry("FAILED", Nothing, 0))

Settled(o) == entry[o].status \in {"CONFIRMED", "FAILED"}

\* The others are untouched, and a decision is never taken back.
Disturbed(o) == /\ o \in excused'
                /\ Becomes(o, entry'[o])
                /\ Settled(o) => entry'[o].status = entry[o].status
                /\ entry'[o].status = "CONFIRMED" => entry'[o].charged > 0

Next == /\ UNCHANGED wanted
        /\ excused \subseteq excused'
        /\ \/ UNCHANGED entry
           \/ \E o \in Orders : \/ Open(o) \/ Hold(o) \/ Charge(o)
                                \/ Confirm(o) \/ Fail(o) \/ Disturbed(o)

Spec == Init /\ [][Next]_<<wanted, entry, excused>>

=============================================================================
