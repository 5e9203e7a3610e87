----------------------------- MODULE StockLedger -----------------------------
(***************************************************************************)
(* The inventory as its consumers understand it: a row changes only by the *)
(* effect of one event on the row as it is at that moment, and a           *)
(* reservation is announced only after it was entered.  An event may be    *)
(* entered more than once (delivery is at least once).                     *)
(***************************************************************************)
EXTENDS StockLevels

CONSTANTS Msgs, Event, InitialStock

VARIABLES stock,       \* the rows
          entered,     \* the events whose effect was entered
          announced    \* the orders whose reservation was announced

ledgerVars == <<stock, entered, announced>>

(* The effect of an event on a row, and when the event has one. *)
Affects(e, row) ==
  \/ e.kind = "OrderPlaced" /\ CanReserve(row, e.qty)
  \/ e.kind \in {"OrderCancelled", "OrderShipped"} /\ row.reserved # 0
  \/ e.kind = "ShipmentCancelled" /\ e.qty > 0

Effect(e, row) ==
  CASE e.kind = "OrderPlaced"       -> Reserve(row, e.qty)
    [] e.kind = "OrderCancelled"    -> Release(row, e.qty)
    [] e.kind = "OrderShipped"      -> Ship(row, e.qty)
    [] e.kind = "ShipmentCancelled" -> Restore(row, e.qty)

Init ==
  /\ stock = InitialStock
  /\ entered = {}
  /\ announced = {}

Enter(m) ==
  LET k == Event[m].key
  IN  /\ k \in DOMAIN stock
      /\ Affects(Event[m], stock[k])
      /\ CheckConstraint(Effect(Event[m], stock[k]))
      /\ FitsColumns(Effect(Event[m], stock[k]))
      /\ stock' = [stock EXCEPT ![k] = Effect(Event[m], @)]
      /\ entered' = entered \cup {m}
      /\ UNCHANGED announced

AnnounceReservation(m) ==
  /\ Event[m].kind = "OrderPlaced"
  /\ m \in entered
  /\ announced' = announced \cup {m}
  /\ UNCHANGED <<stock, entered>>

Next == \E m \in Msgs : Enter(m) \/ AnnounceReservation(m)

Spec == Init /\ [][Next]_ledgerVars
=============================================================================
