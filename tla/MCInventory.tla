----------------------------- MODULE MCInventory -----------------------------
(***************************************************************************)
(* Scenarios for TLC: the events of each run and the rows it starts from.  *)
(* A configuration picks an Event function, the replicas, and the faults.  *)
(***************************************************************************)
EXTENDS InventoryProperties, TLC

CONSTANTS r1, r2, sku1, sku2, unknown

AllKeys == {sku1, sku2, unknown}

AllIds == {"o1", "o2", "o3"}

OneReplica  == {r1}
TwoReplicas == {r1, r2}
Replicas    == Permutations(TwoReplicas)

E(kind, id, key, qty) == [kind |-> kind, id |-> id, key |-> key, qty |-> qty]

Stock(onHand, reserved) == [onHand |-> onHand, reserved |-> reserved]

NoMalformed == {}

-----------------------------------------------------------------------------
(* Two orders compete for the last two pieces. *)
TwoOrders == ("a" :> E("OrderPlaced", "o1", sku1, 1))
          @@ ("b" :> E("OrderPlaced", "o2", sku1, 2))

(* An order, published twice by its producer, and on another row two      *)
(* shipment events that announce the row as they find it.                  *)
Duplicated == ("a"  :> E("OrderPlaced",       "o1", sku1, 1))
           @@ ("a2" :> E("OrderPlaced",       "o1", sku1, 1))
           @@ ("r"  :> E("ShipmentCreated",   "o2", sku2, 1))
           @@ ("d"  :> E("ShipmentDelivered", "o3", sku2, 1))

(* One writer for each row; the cancellation comes without id. *)
OneWriter == ("a" :> E("OrderPlaced",       "o1", sku1,    1))
          @@ ("c" :> E("OrderCancelled",    NoId, sku2,    1))
          @@ ("s" :> E("OrderShipped",      "o3", unknown, 2))

(* Events that cannot be handled: unmarshalling fails, the row does not    *)
(* exist, the quantity does not fit the column.                            *)
Poison == ("garbled"  :> E("OrderPlaced",       "o1", sku1, 1))
       @@ ("nowhere"  :> E("ShipmentCreated",   "o2", unknown, 1))
       @@ ("overflow" :> E("ShipmentCancelled", "o3", sku1, 5))

GarbledOnly == {"garbled"}

(* A reservation and its cancellation, of the same order. *)
PlacedThenCancelled == ("placed"    :> E("OrderPlaced",    "o1", sku1, 1))
                    @@ ("cancelled" :> E("OrderCancelled", "o1", sku1, 1))

(* An order for more than there is, and one that fits. *)
TooMuchThenSome == ("a" :> E("OrderPlaced", "o1", sku1, 3))
                @@ ("b" :> E("OrderPlaced", "o2", sku1, 1))

-----------------------------------------------------------------------------
EachStock == (sku1 :> Stock(3, 1)) @@ (sku2 :> Stock(1, 1)) @@ (unknown :> Stock(2, 1))
SomeStock == (sku1 :> Stock(2, 0)) @@ (sku2 :> Stock(1, 0))
=============================================================================
