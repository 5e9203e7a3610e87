------------------------- MODULE InventoryProperties -------------------------
(***************************************************************************)
(* What the inventory service is held to.  Each property says under which  *)
(* faults and with how many replicas it is claimed; the configurations of  *)
(* MCInventory give exactly those.                                         *)
(***************************************************************************)
EXTENDS InventoryInvariant, FiniteSets, FiniteSetsExt

Published(m, subject) == \E n \in events : n.msg = m /\ n.subject = subject

SameId(m, n) == Event[m].id = Event[n].id /\ Event[m].id # NoId

-----------------------------------------------------------------------------
(* Safety under every fault. *)

(* Only a malformed event, or one that failed at its last delivery, is put *)
(* aside (no panic).                                                       *)
BuriedOnlyWhenExhausted ==
  \A m \in dlq : m \in Malformed \/ deliveries[m] = MaxDeliver

(* An OrderPlaced that left its stream as handled was answered: some       *)
(* delivery of the order published a reservation or a refusal, whatever    *)
(* crashed or failed in between.  Claimed when every event of the order is *)
(* an OrderPlaced.                                                         *)
HandledIsAnswered ==
  \A m \in Msgs :
    Event[m].kind = "OrderPlaced" /\ status[m] = "acked" =>
      \E n \in Msgs :
        /\ n = m \/ SameId(m, n)
        /\ \/ Published(n, "InventoryReserved")
           \/ Published(n, "InventoryReservationFailed")

-----------------------------------------------------------------------------
(* At-most-once effects, under the faults the wrapper is there for. *)

(* When answers to the server get lost, but nothing else goes wrong, no    *)
(* event with an id changes the stock twice, on any number of replicas;    *)
(* on one replica, not even when copies are redelivered early.             *)
AppliedOnce == \A m \in Msgs : Event[m].id # NoId => applied[m] <= 1

(* Nor is an order answered both ways. *)
OneAnswer ==
  \A m, n \in Msgs :
    m = n \/ SameId(m, n) =>
      ~(Published(m, "InventoryReserved") /\ Published(n, "InventoryReservationFailed"))

(* One replica handles the copies of an event a producer published twice   *)
(* one after the other: together they change the stock at most once.       *)
OncePerOrder ==
  \A m, n \in Msgs :
    m # n /\ SameId(m, n) => applied[m] + applied[n] <= 1

-----------------------------------------------------------------------------
(* Consistency of the stock when each row has one writer at a time. *)

Total(quantity, S) == MapThenSumSet(LAMBDA m : quantity[m], S)

Ordered == [m \in Msgs |-> Event[m].qty]

Reservations(k) ==
  {m \in Msgs : Event[m].key = k /\ Published(m, "InventoryReserved")}

(* The events that take reserved stock away, once for each commit. *)
TakenFrom(k) ==
  Total([m \in Msgs |-> applied[m] * Event[m].qty],
        {m \in Msgs : /\ Event[m].key = k
                      /\ Event[m].kind \in {"OrderCancelled", "OrderShipped"}})

(* Reservations that were announced are held: the reserved quantity of the *)
(* row covers them, less what was cancelled or shipped since.              *)
ReservationsHeld ==
  \A k \in Stocked :
    Total(Ordered, Reservations(k)) <=
      table[k].reserved - InitialStock[k].reserved + TakenFrom(k)

(* The service implements the ledger: no update is lost. *)
Ledger == INSTANCE StockLedger WITH
  stock     <- table,
  entered   <- {m \in Msgs : applied[m] > 0},
  announced <- {m \in Msgs : Published(m, "InventoryReserved")}

LedgerSpec == Ledger!Spec

-----------------------------------------------------------------------------
(* The promise of the subscriber and of the idempotency wrapper. *)

Promise == INSTANCE EventHandling WITH
  outcome  <- [m \in Msgs |-> IF status[m] = "acked" THEN "handled"
                              ELSE IF status[m] = "termed" THEN "dead" ELSE "open"],
  recorded <- marked,
  copied   <- dlq,
  IdOf     <- [m \in Msgs |-> Event[m].id]

(* Events leave their streams only as EventHandling allows, under every    *)
(* fault but the loss of a dead letter (its publish error is dropped).     *)
HandlingSpec == Promise!Spec

-----------------------------------------------------------------------------
(* Liveness, under FairSpec: the number of faults is finite. *)

(* Every event leaves its stream: a failing one does not circulate for     *)
(* ever, and a lost answer does not keep it there.                         *)
EverySettles == \A m \in Msgs : <>Settled(m)

(* An event that can never be handled ends with a copy in its dead letter  *)
(* subject: it cannot be unmarshalled, names no row of the table, or puts  *)
(* back more than a column can hold.                                       *)
PoisonIsBuried ==
  \A m \in Msgs :
    \/ m \in Malformed
    \/ Event[m].key \notin Stocked
    \/ Event[m].kind = "ShipmentCancelled" /\ Event[m].qty > MaxInteger
    => <>(m \in dlq)

-----------------------------------------------------------------------------
(* What the contracts say and the code does not do. *)

(* contracts/order/v1/order_events.proto: "Order cancelled -> release      *)
(* inventory".  A cancellation that was handled after the reservation of   *)
(* its order was announced has released stock.                             *)
CancelReleases ==
  \A c, p \in Msgs :
    /\ Event[c].kind = "OrderCancelled" /\ status[c] = "acked"
    /\ SameId(c, p) /\ Published(p, "InventoryReserved")
    => applied[c] > 0

(* domain.go: "insufficient stock to satisfy reservation".  An order is    *)
(* refused only when the stock is short.                                   *)
RefusedOnlyWhenShort ==
  [][\A m \in Msgs :
       /\ Published(m, "InventoryReservationFailed")'
       /\ ~Published(m, "InventoryReservationFailed")
       /\ Event[m].key \in Stocked
       => ~CanReserve(table[Event[m].key], Event[m].qty)]_vars
=============================================================================
