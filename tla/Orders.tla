------------------------------- MODULE Orders -------------------------------
(***************************************************************************)
(* The order vocabulary of domain/order.rs and of the broker boundary: ids,*)
(* statuses and the requests an order turns into.  Prices are left out:    *)
(* what the runtime does with an order does not depend on them.            *)
(***************************************************************************)
EXTENDS Naturals

CONSTANTS
  MaxOrders,    \* bound on the order ids one process draws
  Symbols,      \* tradable symbols
  Quantities,   \* the order quantities a strategy asks for
  Lives,        \* process incarnations; 0 is the first
  None          \* "no entry"

ASSUME MaxOrdersAssumption == MaxOrders \in Nat
ASSUME QuantitiesAssumption == Quantities \subseteq Nat \ {0}
ASSUME LivesAssumption == 0 \in Lives

\* A client_order_id is "<prefix>-<seq>"; the prefix is fixed, so the
\* sequence number identifies the order.
ClientIds == 1 .. MaxOrders

Statuses == {"Pending", "Submitted", "PartiallyFilled", "Filled",
             "Cancelled", "Rejected", "Unknown"}

Terminal == {"Filled", "Cancelled", "Rejected"}

\* The statuses of an order the venue is still working.
Live == {"Submitted", "PartiallyFilled"}

Sides == {"Buy", "Sell"}

\* life is not sent: it only tells the requests of two processes apart.
Requests == [client : ClientIds, life : Lives, symbol : Symbols,
             side : Sides, qty : Quantities]

ASSUME NoneAssumption == None \notin Requests
=============================================================================
