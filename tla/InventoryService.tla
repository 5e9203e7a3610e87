--------------------------- MODULE InventoryService ---------------------------
(***************************************************************************)
(* The inventory service: six JetStream subscriptions per replica          *)
(* (service/service.go), each handling one message at a time through the   *)
(* subscriber (messaging/subscriber.go), the idempotency wrapper           *)
(* (messaging/idempotency.go), a handler (service/handlers.go), the Redis  *)
(* cache in front of the table (stores/invcache, stores/invdb) and the     *)
(* publisher (messaging/publisher.go).                                     *)
(*                                                                         *)
(* A worker <<i, k>> is the goroutine of replica i that runs the callbacks *)
(* of the subscription for events of kind k.  Every call that leaves the   *)
(* process is a step of its own: between two of them every other worker    *)
(* may run, the replica may crash and the call may fail, before or after   *)
(* it took effect.                                                         *)
(***************************************************************************)
EXTENDS StockLevels, DurableConsumer

CONSTANTS Instances,      \* replicas of the service
          Keys,           \* (location, SKU) pairs that events may name
          Ids,            \* order and shipment ids
          NoKey,          \* the blank (location, SKU) of domain.Inventory{}
          NoId,           \* the empty id
          NoMsg,          \* no message: an idle worker
          Event,          \* what each message says
          Malformed,      \* the messages proto.Unmarshal rejects
          InitialStock,   \* the rows of the table
          Faults,         \* the kinds of fault this instance considers
          MaxFaults       \* bound: how many faults happen in a behaviour

Kinds == {"OrderPlaced", "OrderCancelled", "OrderShipped",
          "ShipmentCreated", "ShipmentDelivered", "ShipmentCancelled"}

Events == [kind : Kinds, id : Ids \cup {NoId}, key : Keys, qty : Int]

Stocked == DOMAIN InitialStock

FaultKinds == {"redis", "db", "publish", "ack", "slow", "panic", "crash", "ttl"}

ASSUME ServiceAssumption ==
  /\ Event \in [Msgs -> Events]
  /\ Malformed \subseteq Msgs
  /\ Stocked \subseteq Keys
  /\ InitialStock \in [Stocked -> Row]
  /\ \A k \in Stocked : /\ CheckConstraint(InitialStock[k])
                        /\ FitsColumns(InitialStock[k])
  /\ NoKey \notin Keys
  /\ NoId \notin Ids
  /\ NoMsg \notin Msgs
  /\ Faults \subseteq FaultKinds
  /\ MaxFaults \in Nat

VARIABLES table,      \* the inventory table: stocked key -> row
          cached,     \* the keys with an entry "inventory:<location>:<sku>"
          marked,     \* the ids with an entry "evt:<id>"
          pc,         \* what each worker does next
          job,        \* the locals of the callback each worker runs
          events,     \* the events the service has published
          dlq,        \* the messages copied to their dead letter subject
          applied,    \* history: UPDATEs committed for each message
          faults      \* faults so far

storeVars   == <<table, cached, marked>>
outputVars  == <<events, dlq>>
vars == <<consumerVars, storeVars, pc, job, outputVars, applied, faults>>

-----------------------------------------------------------------------------
(* Workers and their control state. *)

Workers == Instances \X Kinds

Stages == {"idle", "checkSeen", "readCache", "readTable", "fillCache", "handle",
           "update", "evict", "reserved", "updated", "refused", "mark",
           "ack", "nak", "bury", "term"}

(* The stages in which the handler and its wrapper run. *)
Handling == Stages \ {"idle", "ack", "nak", "bury", "term"}

IdleJob == [msg |-> NoMsg, attempt |-> 1, key |-> NoKey, row |-> BlankRow]

Jobs == [msg : Msgs \cup {NoMsg}, attempt : 1..MaxDeliver,
         key : Keys \cup {NoKey}, row : Row]

(* The callback of a copy starts from its message and delivery count. *)
NewJob(c) == [msg |-> c.msg, attempt |-> c.attempt, key |-> NoKey, row |-> BlankRow]

EventOf(w) == Event[job[w].msg]

At(w, stage) == pc[w] = stage

Goto(w, stage) == pc' = [pc EXCEPT ![w] = stage] /\ UNCHANGED job

GotoWith(w, stage, row) ==
  /\ pc' = [pc EXCEPT ![w] = stage]
  /\ job' = [job EXCEPT ![w].row = row]

Finish(w) ==
  /\ pc' = [pc EXCEPT ![w] = "idle"]
  /\ job' = [job EXCEPT ![w] = IdleJob]

(* Variants of Failed: no limit, a limit one too low, no dead letter. *)
FailedForever(w) == "nak"
FailedEarly(w)   == IF job[w].attempt >= MaxDeliver - 1 THEN "bury" ELSE "nak"
FailedNoCopy(w)  == IF job[w].attempt >= MaxDeliver THEN "term" ELSE "nak"

(* An error of the handler: the fifth delivery is buried, others given back. *)
Failed(w) == IF job[w].attempt >= MaxDeliver THEN "bury" ELSE "nak"

(* Variant of Done: the id is never marked. *)
DoneUnmarked(w) == "ack"

(* The handler returned nil: the wrapper marks the id, if there is one. *)
Done(w) == IF EventOf(w).id = NoId THEN "ack" ELSE "mark"

Fault(f) == f \in Faults /\ faults < MaxFaults /\ faults' = faults + 1

NoFault == UNCHANGED faults

-----------------------------------------------------------------------------
(* The subscriber: delivery, unmarshalling and the idempotency check. *)

Deliver(w) ==
  /\ \E m \in Msgs : Event[m].kind = w[2] /\ Push(m, w)
  /\ UNCHANGED <<storeVars, pc, job, outputVars, applied, faults>>

(* The first stage of a message: an event without id skips the check. *)
Entry(m) == IF m \in Malformed THEN "bury"
            ELSE IF Event[m].id = NoId THEN "readCache" ELSE "checkSeen"

Take(w) ==
  /\ At(w, "idle")
  /\ \E c \in inbox :
       /\ c.to = w
       /\ inbox' = inbox \ {c}
       /\ pc' = [pc EXCEPT ![w] = Entry(c.msg)]
       /\ job' = [job EXCEPT ![w] = NewJob(c)]
  /\ UNCHANGED <<status, deliveries, storeVars, outputVars, applied, faults>>

(* Variant of CheckSeen: the id is claimed before the handler runs. *)
CheckSeenClaiming(w) ==
  /\ At(w, "checkSeen")
  /\ NoFault
  /\ Goto(w, IF EventOf(w).id \in marked THEN "ack" ELSE "readCache")
  /\ marked' = marked \cup {EventOf(w).id}
  /\ UNCHANGED <<consumerVars, table, cached, outputVars, applied>>

(* Seen: an error of Redis counts as "not seen". *)
CheckSeen(w) ==
  /\ At(w, "checkSeen")
  /\ \/ /\ NoFault
        /\ Goto(w, IF EventOf(w).id \in marked THEN "ack" ELSE "readCache")
     \/ /\ Fault("redis")
        /\ Goto(w, "readCache")
  /\ UNCHANGED <<consumerVars, storeVars, outputVars, applied>>

-----------------------------------------------------------------------------
(* GetInventory: the cache, then the table, then the cache is filled. *)

(* A hit returns domain.Inventory{}: blank quantities and a blank key. *)
ReadCache(w) ==
  /\ At(w, "readCache")
  /\ \/ /\ NoFault
        /\ Goto(w, IF EventOf(w).key \in cached THEN "handle" ELSE "readTable")
     \/ /\ Fault("redis")
        /\ Goto(w, "readTable")
  /\ UNCHANGED <<consumerVars, storeVars, outputVars, applied>>

ReadTable(w) ==
  LET key == EventOf(w).key
  IN  /\ At(w, "readTable")
      /\ \/ /\ NoFault
            /\ key \in Stocked
            /\ pc' = [pc EXCEPT ![w] = "fillCache"]
            /\ job' = [job EXCEPT ![w].key = key, ![w].row = table[key]]
         \/ /\ NoFault
            /\ key \notin Stocked           \* ErrNotFound
            /\ Goto(w, Failed(w))
         \/ /\ Fault("db")
            /\ Goto(w, Failed(w))
      /\ UNCHANGED <<consumerVars, storeVars, outputVars, applied>>

(* writeCache: its error is dropped, and the entry has no expiry. *)
FillCache(w) ==
  /\ At(w, "fillCache")
  /\ \/ NoFault /\ cached' = cached \cup {job[w].key}
     \/ Fault("redis") /\ UNCHANGED cached
  /\ Goto(w, "handle")
  /\ UNCHANGED <<consumerVars, table, marked, outputVars, applied>>

-----------------------------------------------------------------------------
(* The handlers: what each one decides from the row it was given.  The     *)
(* decision is local; the calls that follow are the steps of the next      *)
(* section.                                                                *)

Handle(w, kind) == At(w, "handle") /\ w[2] = kind

Decided == UNCHANGED <<consumerVars, storeVars, outputVars, applied, faults>>

(* Variants: the reservation is announced before it is stored; the stock   *)
(* is not checked.                                                         *)
HandleOrderPlacedEarly(w) ==
  /\ Handle(w, "OrderPlaced")
  /\ IF CanReserve(job[w].row, EventOf(w).qty)
       THEN GotoWith(w, "reserved", Reserve(job[w].row, EventOf(w).qty))
       ELSE Goto(w, "refused")
  /\ Decided

HandleOrderPlacedBlindly(w) ==
  /\ Handle(w, "OrderPlaced")
  /\ GotoWith(w, "update", Reserve(job[w].row, EventOf(w).qty))
  /\ Decided

HandleOrderPlaced(w) ==
  /\ Handle(w, "OrderPlaced")
  /\ IF CanReserve(job[w].row, EventOf(w).qty)
       THEN GotoWith(w, "update", Reserve(job[w].row, EventOf(w).qty))
       ELSE Goto(w, "refused")
  /\ Decided

HandleOrderCancelled(w) ==
  /\ Handle(w, "OrderCancelled")
  /\ IF job[w].row.reserved = 0
       THEN Goto(w, Done(w))
       ELSE GotoWith(w, "update", Release(job[w].row, EventOf(w).qty))
  /\ Decided

HandleOrderShipped(w) ==
  /\ Handle(w, "OrderShipped")
  /\ IF job[w].row.reserved = 0
       THEN Goto(w, Done(w))
       ELSE GotoWith(w, "update", Ship(job[w].row, EventOf(w).qty))
  /\ Decided

HandleShipmentCreated(w) ==
  /\ Handle(w, "ShipmentCreated")
  /\ Goto(w, IF job[w].row.reserved < EventOf(w).qty THEN Done(w) ELSE "updated")
  /\ Decided

HandleShipmentDelivered(w) ==
  /\ Handle(w, "ShipmentDelivered")
  /\ Goto(w, "updated")
  /\ Decided

HandleShipmentCancelled(w) ==
  /\ Handle(w, "ShipmentCancelled")
  /\ IF EventOf(w).qty <= 0
       THEN Goto(w, Done(w))
       ELSE GotoWith(w, "update", Restore(job[w].row, EventOf(w).qty))
  /\ Decided

-----------------------------------------------------------------------------
(* UpdateInventory: the UPDATE of the row, then the eviction of its entry. *)

(* The UPDATE writes the row that was read, with the new quantities: there *)
(* is no transaction and no version check.  A blank key matches no row,    *)
(* which is not an error; the values must fit the columns in any case.     *)
Accepted(w) ==
  /\ FitsColumns(job[w].row)
  /\ job[w].key # NoKey => CheckConstraint(job[w].row)

Commit(w) ==
  IF job[w].key = NoKey
    THEN UNCHANGED <<table, applied>>
    ELSE /\ table' = [table EXCEPT ![job[w].key] = job[w].row]
         /\ applied' = [applied EXCEPT ![job[w].msg] = @ + 1]

Update(w) ==
  /\ At(w, "update")
  /\ \/ /\ NoFault
        /\ Accepted(w)
        /\ Commit(w)
        /\ Goto(w, "evict")
     \/ /\ NoFault
        /\ ~Accepted(w)
        /\ UNCHANGED <<table, applied>>
        /\ Goto(w, Failed(w))
     \/ /\ Fault("db")                      \* not executed
        /\ UNCHANGED <<table, applied>>
        /\ Goto(w, Failed(w))
     \/ /\ Fault("db")                      \* executed, the answer is lost
        /\ Accepted(w)
        /\ Commit(w)
        /\ Goto(w, Failed(w))
  /\ UNCHANGED <<consumerVars, cached, marked, outputVars>>

AfterUpdate(w) == IF w[2] = "OrderPlaced" THEN "reserved" ELSE "updated"

(* The eviction's error becomes the error of UpdateInventory. *)
Evict(w) ==
  /\ At(w, "evict")
  /\ \/ /\ NoFault
        /\ cached' = cached \ {job[w].key}
        /\ Goto(w, AfterUpdate(w))
     \/ /\ Fault("redis")
        /\ cached' \in {cached, cached \ {job[w].key}}
        /\ Goto(w, Failed(w))
  /\ UNCHANGED <<consumerVars, table, marked, outputVars, applied>>

-----------------------------------------------------------------------------
(* Publishing, marking and answering. *)

Notice(w, subject, about) ==
  [msg |-> job[w].msg, subject |-> subject, about |-> about]

(* A failed publish may have reached the stream all the same. *)
Announce(w, notice, next) ==
  /\ \/ /\ NoFault
        /\ events' = events \cup {notice}
        /\ Goto(w, next)
     \/ /\ Fault("publish")
        /\ events' \in {events, events \cup {notice}}
        /\ Goto(w, Failed(w))
  /\ UNCHANGED <<consumerVars, storeVars, dlq, applied>>

PublishReserved(w) ==
  /\ At(w, "reserved")
  /\ Announce(w, Notice(w, "InventoryReserved", EventOf(w).key), "updated")

(* InventoryUpdated names the row it was given: blank after a cache hit. *)
PublishUpdated(w) ==
  /\ At(w, "updated")
  /\ Announce(w, Notice(w, "InventoryUpdated", job[w].key), Done(w))

PublishRefused(w) ==
  /\ At(w, "refused")
  /\ Announce(w, Notice(w, "InventoryReservationFailed", EventOf(w).key), Done(w))

Mark(w) ==
  /\ At(w, "mark")
  /\ \/ /\ NoFault
        /\ marked' = marked \cup {EventOf(w).id}
        /\ Goto(w, "ack")
     \/ /\ Fault("redis")
        /\ marked' \in {marked, marked \cup {EventOf(w).id}}
        /\ Goto(w, Failed(w))
  /\ UNCHANGED <<consumerVars, table, cached, outputVars, applied>>

(* An answer to the server; its error is dropped, so a lost one is not     *)
(* noticed.                                                                *)
Answered(w) == Finish(w) /\ UNCHANGED <<storeVars, outputVars, applied>>

Lost == Fault("ack") /\ UNCHANGED consumerVars

Ack(w) ==
  /\ At(w, "ack")
  /\ \/ NoFault /\ Settle(job[w].msg, "acked")
     \/ Lost
  /\ Answered(w)

Nak(w) ==
  /\ At(w, "nak")
  /\ \/ NoFault /\ Requeue(job[w].msg)
     \/ Lost
  /\ Answered(w)

(* The copy to the dead letter subject; its error is dropped. *)
PublishDLQ(w) ==
  /\ At(w, "bury")
  /\ \/ NoFault /\ dlq' = dlq \cup {job[w].msg}
     \/ Fault("publish") /\ UNCHANGED dlq
  /\ Goto(w, "term")
  /\ UNCHANGED <<consumerVars, storeVars, events, applied>>

Term(w) ==
  /\ At(w, "term")
  /\ \/ NoFault /\ Settle(job[w].msg, "termed")
     \/ Lost
  /\ Answered(w)

(* A panic of the handler is recovered: the message is buried at once. *)
Panic(w) ==
  /\ Fault("panic")
  /\ pc[w] \in Handling
  /\ Goto(w, "bury")
  /\ UNCHANGED <<consumerVars, storeVars, outputVars, applied>>

-----------------------------------------------------------------------------
(* The environment: crashes, the server's timer and the expiry of marks. *)

(* A replica dies and comes back: its callbacks and its client-side queues *)
(* are gone, the stores and the server remain.                             *)
Crash(i) ==
  LET workers == {i} \X Kinds
  IN  /\ Fault("crash")
      /\ pc' = [w \in Workers |-> IF w \in workers THEN "idle" ELSE pc[w]]
      /\ job' = [w \in Workers |-> IF w \in workers THEN IdleJob ELSE job[w]]
      /\ inbox' = {c \in inbox : c.to \notin workers}
      /\ UNCHANGED <<status, deliveries, storeVars, outputVars, applied>>

(* Some subscriber still has a copy of m, waiting or in a callback. *)
Held(m) == \/ \E c \in inbox : c.msg = m
           \/ \E w \in Workers : job[w].msg = m

(* AckWait runs out.  While a copy is held this takes a callback, or a     *)
(* client-side queue, that is slower than 60 seconds: a fault.             *)
AckWait(m) ==
  /\ status[m] = "outstanding"
  /\ Requeue(m)
  /\ IF Held(m) THEN Fault("slow") ELSE NoFault
  /\ UNCHANGED <<storeVars, pc, job, outputVars, applied>>

(* A mark expires after 24 hours, long after the callback that set it. *)
ForgetMark(id) ==
  /\ Fault("ttl")
  /\ id \in marked
  /\ \A w \in Workers : job[w].msg # NoMsg => EventOf(w).id # id
  /\ marked' = marked \ {id}
  /\ UNCHANGED <<consumerVars, table, cached, pc, job, outputVars, applied>>

-----------------------------------------------------------------------------
Init ==
  /\ ConsumerInit
  /\ table = InitialStock
  /\ cached = {}
  /\ marked = {}
  /\ pc = [w \in Workers |-> "idle"]
  /\ job = [w \in Workers |-> IdleJob]
  /\ events = {}
  /\ dlq = {}
  /\ applied = [m \in Msgs |-> 0]
  /\ faults = 0

(* What a worker does with a message it has taken. *)
Step(w) ==
  \/ CheckSeen(w) \/ ReadCache(w) \/ ReadTable(w) \/ FillCache(w)
  \/ HandleOrderPlaced(w) \/ HandleOrderCancelled(w) \/ HandleOrderShipped(w)
  \/ HandleShipmentCreated(w) \/ HandleShipmentDelivered(w)
  \/ HandleShipmentCancelled(w)
  \/ Update(w) \/ Evict(w)
  \/ PublishReserved(w) \/ PublishUpdated(w) \/ PublishRefused(w)
  \/ Mark(w) \/ Ack(w) \/ Nak(w) \/ PublishDLQ(w) \/ Term(w)
  \/ Panic(w)

Next ==
  \/ \E w \in Workers : Deliver(w) \/ Take(w) \/ Step(w)
  \/ \E i \in Instances : Crash(i)
  \/ \E m \in Msgs : AckWait(m)
  \/ \E id \in Ids : ForgetMark(id)

Spec == Init /\ [][Next]_vars

(* Every subscription keeps its goroutine, which runs whenever it has a    *)
(* message; the server pushes what is due and its timer runs out when      *)
(* nobody holds the message any more.                                      *)
FairSpec ==
  /\ Spec
  /\ \A w \in Workers : WF_vars(Take(w)) /\ WF_vars(Step(w))
  /\ \A w \in Workers : WF_vars(Deliver(w))
  /\ \A m \in Msgs : WF_vars(AckWait(m) /\ ~Held(m))
=============================================================================
