----------------------------- MODULE StockLevels -----------------------------
(***************************************************************************)
(* The arithmetic of one inventory row, as the handlers of                 *)
(* service/handlers.go compute it and as the table of migrate.sql          *)
(* constrains it.                                                          *)
(*                                                                         *)
(* Quantities are int64 in Go and INTEGER in the table.  A sum or a        *)
(* difference that wraps around in 64 bits starts from a row of the table  *)
(* (or from the blank row) and an int64 quantity, and lands outside the 32 *)
(* bits of the column on either side of the wrap; so unbounded integers    *)
(* with FitsColumns at the UPDATE refuse exactly the same rows.            *)
(*                                                                         *)
(* "incoming" and "updated_at" are left out: no handler changes the first  *)
(* or reads the second.                                                    *)
(***************************************************************************)
EXTENDS Integers

CONSTANT MaxInteger     \* the largest INTEGER of the table: 2^31 - 1

ASSUME MaxIntegerAssumption == MaxInteger \in Nat

Row == [onHand : Int, reserved : Int]

BlankRow == [onHand |-> 0, reserved |-> 0]      \* domain.Inventory{}

(* The CHECK clauses of the table. *)
CheckConstraint(row) ==
  /\ row.onHand >= 0
  /\ row.reserved >= 0
  /\ row.reserved <= row.onHand

(* The range of the INTEGER columns. *)
FitsColumns(row) ==
  /\ row.onHand \in -MaxInteger - 1 .. MaxInteger
  /\ row.reserved \in -MaxInteger - 1 .. MaxInteger

AtMost(quantity, limit) == IF quantity > limit THEN limit ELSE quantity

Available(row) == row.onHand - row.reserved

(* Variant: stock that is reserved counts as available. *)
CanReserveOnHand(row, quantity) == row.onHand >= quantity

CanReserve(row, quantity) == Available(row) >= quantity

(* Variant: the new reservation replaces the earlier ones. *)
ReserveAnew(row, quantity) == [row EXCEPT !.reserved = quantity]

Reserve(row, quantity) == [row EXCEPT !.reserved = @ + quantity]

Release(row, quantity) ==
  [row EXCEPT !.reserved = @ - AtMost(quantity, row.reserved)]

(* Variant: the cap by the reservation is missing. *)
ShipQuantityUncapped(row, quantity) == AtMost(quantity, row.onHand)

(* What leaves the shelf is capped by the reservation first, then by the   *)
(* stock on hand.                                                          *)
ShipQuantity(row, quantity) ==
  AtMost(AtMost(quantity, row.reserved), row.onHand)

Ship(row, quantity) ==
  LET shipped == ShipQuantity(row, quantity)
  IN  [onHand   |-> row.onHand - shipped,
       reserved |-> row.reserved - shipped]

Restore(row, quantity) == [row EXCEPT !.onHand = @ + quantity]
=============================================================================
