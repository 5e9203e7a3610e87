----------------------------- MODULE MCShipment -----------------------------
(***************************************************************************)
(* Scenarios for the shipment service's consumer.                          *)
(***************************************************************************)
EXTENDS ShipmentConsumerProperties, TLC

CONSTANTS r1, r2

OneReplica  == {r1}
TwoReplicas == {r1, r2}
Symmetric   == Permutations(TwoReplicas)

AllIds == {"s1", "s2", "s3"}

(* Two chains; the first recovers no panic. *)
Claiming   == <<"Metrics", "WithTryClaim", "Timeout">>
Idempotent == <<"Metrics", "Panics", "nil", "WithIdempotency">>

-----------------------------------------------------------------------------
(* A shipment event published twice, and one that always fails. *)
TwiceAndFailing == ("a"  :> "s1") @@ ("a2" :> "s1") @@ ("f" :> "s2")

WhatTheyDo == ("a" :> "succeeds") @@ ("a2" :> "succeeds") @@ ("f" :> "fails")

(* One of each: handled, failing, panicking, garbled. *)
OneOfEach == ("a" :> "s1") @@ ("f" :> "s2") @@ ("p" :> "s3") @@ ("g" :> NoId)

WhatEachDoes == ("a" :> "succeeds") @@ ("f" :> "fails")
             @@ ("p" :> "panics")   @@ ("g" :> "succeeds")

NoneMalformed == {}
GarbledOnly   == {"g"}
=============================================================================
