--------------------------- MODULE MCShipmentStore ---------------------------
(* A small instance: two clients, two shipments, one key or two per part. *)
EXTENDS ShipmentStore, TLC

CONSTANTS c1, c2

Callers == {c1, c2}
Symmetry == Permutations(Callers)

Numbers == ("here" :> "") @@ ("there" :> "") @@ ("moved" :> "trk") @@ ("seed" :> "trk")

Whole(id, h) == [id |-> id, header |-> h, items |-> {<<id, 1>>}, logs |-> {<<id, 1>>},
                 history |-> {<<id, 1>>}, twice |-> FALSE]

Handed == {Whole("s2", "there")}

(* The items of a new shipment name one that exists. *)
Ordered == {[header |-> "here", items |-> {<<"s1", 2>>}]}

(* Items left alone, replaced, and replaced by none; rows that name "s2",   *)
(* whichever shipment is updated.                                          *)
Changes == {[header |-> "moved", given |-> FALSE, items |-> {},
             logs |-> {<<"s2", 2>>}, history |-> {<<"s2", 2>>}],
            [header |-> "moved", given |-> TRUE, items |-> {<<"s2", 2>>},
             logs |-> {<<"s2", 1>>}, history |-> {}],
            [header |-> "there", given |-> TRUE, items |-> {},
             logs |-> {}, history |-> {}]}

FromSeed == Whole("s1", "seed")
=============================================================================
