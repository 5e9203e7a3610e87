-------------------------- MODULE MCInventoryProcess --------------------------
(* Two deployments with two subjects, an event of the second one and one    *)
(* stock row: an inventory process, and a shipment process that sets up the *)
(* stream, with MaxFaults faults; or two inventory processes, and a stream  *)
(* that captures what they need, without a fault other than a signal.       *)
EXTENDS InventoryProcess, TLC

TwoSubjects == <<"order.placed", "shipment.cancelled">>

OneEvent == "b" :> "shipment.cancelled"

OneId == "b" :> "id"

OneRow == "b" :> "row"

(* What handleOrderPlaced and handleShipmentCancelled do, for positive      *)
(* quantities, with a row that has what they need, and with a blank one.    *)
StockedDecisions == "order.placed" :> {"update"} @@ "shipment.cancelled" :> {"update"}

BlankDecisions == "order.placed" :> {"publish"} @@ "shipment.cancelled" :> {"update"}

Tag == "p" :> "develop"

(* The operator's stream captures everything the inventory service needs,  *)
(* or only what it consumes.                                                *)
OperatorConfigs ==
  {[subjects |-> <<"order.placed", "shipment.cancelled", "outputs", "dlq">>,
    storage |-> "file", maxAge |-> 72],
   [subjects |-> <<"order.placed", "shipment.cancelled">>,
    storage |-> "memory", maxAge |-> 72]}

WideConfig == {[subjects |-> <<"order.placed", "shipment.cancelled", "outputs", "dlq">>,
                storage |-> "file", maxAge |-> 72]}

Alone == /\ phase = ("r1" :> "down" @@ "r2" :> "absent")
         /\ shipper = ("p" :> "down") /\ faults = 0

Pair == /\ phase = ("r1" :> "down" @@ "r2" :> "down")
        /\ shipper = ("p" :> "absent") /\ faults = MaxFaults
        /\ stream \in WideConfig

Deployed == Init /\ (Alone \/ Pair)

DeployedSpec == Deployed /\ [][Next]_vars /\ Fairness
=============================================================================
