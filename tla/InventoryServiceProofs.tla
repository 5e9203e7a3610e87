------------------------ MODULE InventoryServiceProofs ------------------------
(***************************************************************************)
(* The inductive invariant of the inventory service: one lemma for each    *)
(* step of a worker and for each event of its environment, and the safety  *)
(* properties that follow.                                                 *)
(***************************************************************************)
EXTENDS InventoryProperties, TLAPS

(* What Goto does to the workers: one of them changes its stage.           *)
LEMMA GotoFrame ==
  ASSUME TypeOK, NEW w \in Workers, NEW stage \in Stages, Goto(w, stage)
  PROVE  /\ pc' \in [Workers -> Stages]
         /\ job' = job
         /\ pc'[w] = stage
         /\ \A v \in Workers \ {w} : pc'[v] = pc[v] /\ job'[v] = job[v]
BY DEF TypeOK, Goto

(* What GotoWith does: one worker changes its stage and its row.           *)
LEMMA GotoWithFrame ==
  ASSUME TypeOK, NEW w \in Workers, NEW stage \in Stages, NEW row \in Row,
         GotoWith(w, stage, row)
  PROVE  /\ pc' \in [Workers -> Stages]
         /\ job' \in [Workers -> Jobs]
         /\ pc'[w] = stage
         /\ job'[w] = [job[w] EXCEPT !.row = row]
         /\ \A v \in Workers \ {w} : pc'[v] = pc[v] /\ job'[v] = job[v]
BY DEF TypeOK, GotoWith, Jobs

(* What Finish does: one worker becomes idle.                              *)
LEMMA FinishFrame ==
  ASSUME TypeOK, NEW w \in Workers, Finish(w)
  PROVE  /\ pc' \in [Workers -> Stages]
         /\ job' \in [Workers -> Jobs]
         /\ pc'[w] = "idle"
         /\ job'[w] = IdleJob
         /\ \A v \in Workers \ {w} : pc'[v] = pc[v] /\ job'[v] = job[v]
BY MaxDeliverAssumption DEF TypeOK, Finish, Jobs, IdleJob, BlankRow, Row, Stages

(* When one worker moves, what the others know stays true, as long as      *)
(* marks and commits are not taken back.                                   *)
LEMMA OneWorkerSteps ==
  ASSUME Inv, TypeOK', NEW w \in Workers, WorkerOK(w)',
         \A v \in Workers \ {w} : pc'[v] = pc[v] /\ job'[v] = job[v],
         marked \subseteq marked',
         \A m \in Msgs : applied'[m] >= applied[m],
         TableKeepsCheck', AnnouncedAreStored'
  PROVE  Inv'
<1>1. ASSUME NEW v \in Workers \ {w} PROVE WorkerOK(v)'
  <2>1. WorkerOK(v) /\ pc'[v] = pc[v] /\ job'[v] = job[v]
    BY DEF Inv
  <2>2. job[v].msg \in Msgs \cup {NoMsg}
    BY DEF Inv, TypeOK, Jobs
  <2>3. job[v].msg \in Msgs => applied[job[v].msg] \in Nat /\ applied'[job[v].msg] \in Nat
    BY DEF Inv, TypeOK
  <2>4. CommittedBeforeAnnounced(v)'
    BY <2>1, <2>2, <2>3 DEF WorkerOK, CommittedBeforeAnnounced, BusyWithMessage, EventOf
  <2>5. AckedIsMarked(v)'
    BY <2>1 DEF WorkerOK, AckedIsMarked, EventOf
  <2>6. QED
    BY <2>1, <2>4, <2>5 DEF WorkerOK, BusyWithMessage, KeyIsStocked, MarkHasId,
       ReadRowsKeepCheck, UpdateKeepsCheck, BlankReservesNothing, EventOf, CheckConstraint
<1>2. QED
  BY <1>1 DEF Inv

-----------------------------------------------------------------------------
(* Facts about one worker. *)

(* A worker that is not idle holds a message.                              *)
LEMMA BusyWorker ==
  ASSUME Inv, NEW w \in Workers, pc[w] # "idle"
  PROVE  /\ job[w] \in Jobs
         /\ job[w].msg \in Msgs
         /\ job[w].key \in Stocked \cup {NoKey}
         /\ job[w].row \in Row
         /\ EventOf(w).id \in Ids \cup {NoId}
         /\ EventOf(w).key \in Keys
         /\ EventOf(w).qty \in Int
<1>1. job[w] \in Jobs /\ WorkerOK(w)
  BY DEF Inv, TypeOK
<1>2. job[w].msg \in Msgs
  BY <1>1 DEF WorkerOK, BusyWithMessage, Jobs
<1>3. EventOf(w) \in Events
  BY <1>2, ServiceAssumption DEF EventOf
<1>4. QED
  BY <1>1, <1>2, <1>3 DEF Jobs, Events, WorkerOK, KeyIsStocked

(* A step with a fault, or without one, keeps the fault counter a number.  *)
LEMMA FaultType ==
  ASSUME TypeOK, NoFault \/ \E f \in FaultKinds : Fault(f)
  PROVE  faults' \in 0..MaxFaults
BY ServiceAssumption DEF TypeOK, NoFault, Fault

(* What Failed and Done may return.                                        *)
LEMMA NextStages ==
  ASSUME NEW w \in Workers
  PROVE  Failed(w) \in {"bury", "nak"} /\ Done(w) \in {"ack", "mark"}
BY DEF Failed, Done

(* At these stages a worker promises nothing. *)
LEMMA QuietStage ==
  ASSUME Inv, NEW w \in Workers, pc[w] # "idle", job'[w] = job[w],
         pc'[w] \in {"bury", "nak", "term", "updated", "refused"}
  PROVE  WorkerOK(w)'
BY DEF Inv, WorkerOK, BusyWithMessage, KeyIsStocked, MarkHasId, AckedIsMarked,
   ReadRowsKeepCheck, UpdateKeepsCheck, BlankReservesNothing,
   CommittedBeforeAnnounced, Reading

(* A handler that is done leads to a stage that keeps its worker's         *)
(* promises.                                                               *)
LEMMA HandlerDone ==
  ASSUME Inv, NEW w \in Workers, pc[w] # "idle", job'[w] = job[w],
         pc'[w] = Done(w)
  PROVE  WorkerOK(w)'
BY DEF Inv, WorkerOK, BusyWithMessage, KeyIsStocked, MarkHasId, AckedIsMarked,
   ReadRowsKeepCheck, UpdateKeepsCheck, BlankReservesNothing,
   CommittedBeforeAnnounced, Reading, Done, EventOf

(* An idle worker promises nothing.                                        *)
LEMMA IdleWorker ==
  ASSUME NEW w \in Workers, pc'[w] = "idle", job'[w] = IdleJob
  PROVE  WorkerOK(w)'
BY DEF WorkerOK, BusyWithMessage, KeyIsStocked, MarkHasId, AckedIsMarked,
   ReadRowsKeepCheck, UpdateKeepsCheck, BlankReservesNothing,
   CommittedBeforeAnnounced, Reading, IdleJob

(* The properties of the table and of the events survive a step that       *)
(* leaves both alone and takes no commit back.                             *)
LEMMA SameOutputs ==
  ASSUME Inv, UNCHANGED <<table, events, applied>>
  PROVE  /\ TableKeepsCheck' /\ AnnouncedAreStored'
         /\ \A m \in Msgs : applied'[m] >= applied[m]
BY DEF Inv, TypeOK, TableKeepsCheck, AnnouncedAreStored, CheckConstraint

-----------------------------------------------------------------------------
(* The initial states. *)

(* Nothing has happened yet, and the rows are the initial ones.            *)
LEMMA InitInv == Init => Inv
<1> SUFFICES ASSUME Init PROVE Inv
  OBVIOUS
<1>1. TypeOK
  <2>1. IdleJob \in Jobs
    BY MaxDeliverAssumption DEF IdleJob, Jobs, Row, BlankRow
  <2>2. table \in [Stocked -> Row]
    BY ServiceAssumption DEF Init
  <2>3. QED
    BY <2>1, <2>2, ServiceAssumption, MaxDeliverAssumption
    DEF Init, ConsumerInit, TypeOK, Statuses, Stages
<1>2. \A w \in Workers : WorkerOK(w)
  BY DEF Init, WorkerOK, BusyWithMessage, KeyIsStocked, MarkHasId, AckedIsMarked,
     ReadRowsKeepCheck, UpdateKeepsCheck, BlankReservesNothing,
     CommittedBeforeAnnounced, Reading, IdleJob
<1>3. TableKeepsCheck /\ AnnouncedAreStored
  BY ServiceAssumption DEF Init, TableKeepsCheck, AnnouncedAreStored, Stocked
<1>4. QED
  BY <1>1, <1>2, <1>3 DEF Inv

-----------------------------------------------------------------------------
(* Steps that leave the table, the events and the server alone: the checks *)
(* and marks of ids, the reads, the cache and the decisions.               *)

(* A worker's step on its own locals, on marks and on cache entries.       *)
LEMMA LocalStep ==
  ASSUME Inv, NEW w \in Workers, WorkerOK(w)',
         pc' \in [Workers -> Stages], job' \in [Workers -> Jobs],
         \A v \in Workers \ {w} : pc'[v] = pc[v] /\ job'[v] = job[v],
         UNCHANGED <<consumerVars, table, events, applied>>,
         cached' \subseteq Keys, marked \subseteq marked', marked' \subseteq Ids,
         dlq' \subseteq Msgs, faults' \in 0..MaxFaults
  PROVE  Inv'
<1>1. TypeOK'
  BY DEF Inv, TypeOK, consumerVars
<1>2. QED
  BY <1>1, SameOutputs, OneWorkerSteps

(* The same for a step that keeps the worker's job.                        *)
LEMMA LocalGoto ==
  ASSUME Inv, NEW w \in Workers, NEW stage \in Stages, Goto(w, stage),
         pc'[w] = stage /\ job'[w] = job[w] => WorkerOK(w)',
         UNCHANGED <<consumerVars, table, events, applied>>,
         cached' \subseteq Keys, marked \subseteq marked', marked' \subseteq Ids,
         dlq' \subseteq Msgs, faults' \in 0..MaxFaults
  PROVE  Inv'
<1>1. /\ pc' \in [Workers -> Stages] /\ job' = job /\ pc'[w] = stage
      /\ \A v \in Workers \ {w} : pc'[v] = pc[v] /\ job'[v] = job[v]
  BY GotoFrame DEF Inv
<1>2. job' \in [Workers -> Jobs]
  BY <1>1 DEF Inv, TypeOK
<1>3. QED
  BY <1>1, <1>2, LocalStep

(* The check of the id: what is acknowledged here is marked.               *)
LEMMA CheckSeenInv ==
  ASSUME Inv, NEW w \in Workers, CheckSeen(w)
  PROVE  Inv'
<1>1. /\ pc[w] = "checkSeen" /\ WorkerOK(w)
      /\ UNCHANGED <<consumerVars, storeVars, outputVars, applied>>
  BY DEF CheckSeen, At, Inv
<1>2. PICK stage \in {"ack", "readCache"} :
        Goto(w, stage) /\ (stage = "ack" => EventOf(w).id \in marked)
  BY DEF CheckSeen
<1>3. faults' \in 0..MaxFaults
  BY FaultType DEF CheckSeen, FaultKinds, Inv
<1>4. ASSUME pc'[w] = stage, job'[w] = job[w] PROVE WorkerOK(w)'
  BY <1>1, <1>2, <1>4 DEF WorkerOK, BusyWithMessage, KeyIsStocked, MarkHasId,
     AckedIsMarked, ReadRowsKeepCheck, UpdateKeepsCheck, BlankReservesNothing,
     CommittedBeforeAnnounced, Reading, EventOf, storeVars
<1>5. QED
  BY <1>1, <1>2, <1>3, <1>4, LocalGoto
  DEF storeVars, outputVars, Inv, TypeOK, Stages

(* Reading the cache: on a hit the job keeps its blank row.                *)
LEMMA ReadCacheInv ==
  ASSUME Inv, NEW w \in Workers, ReadCache(w)
  PROVE  Inv'
<1>1. /\ pc[w] = "readCache" /\ WorkerOK(w)
      /\ UNCHANGED <<consumerVars, storeVars, outputVars, applied>>
  BY DEF ReadCache, At, Inv
<1>2. PICK stage \in {"handle", "readTable"} : Goto(w, stage)
  BY DEF ReadCache
<1>3. faults' \in 0..MaxFaults
  BY FaultType DEF ReadCache, FaultKinds, Inv
<1>4. ASSUME pc'[w] = stage, job'[w] = job[w] PROVE WorkerOK(w)'
  BY <1>1, <1>4 DEF WorkerOK, BusyWithMessage, KeyIsStocked, MarkHasId,
     AckedIsMarked, ReadRowsKeepCheck, UpdateKeepsCheck, BlankReservesNothing,
     CommittedBeforeAnnounced, Reading
<1>5. QED
  BY <1>1, <1>2, <1>3, <1>4, LocalGoto
  DEF storeVars, outputVars, Inv, TypeOK, Stages

(* Reading the table: the row satisfied the CHECK clauses when it was      *)
(* read.                                                                   *)
LEMMA ReadTableInv ==
  ASSUME Inv, NEW w \in Workers, ReadTable(w)
  PROVE  Inv'
<1> DEFINE key == EventOf(w).key
<1>1. /\ pc[w] = "readTable" /\ WorkerOK(w)
      /\ UNCHANGED <<consumerVars, storeVars, outputVars, applied>>
  BY DEF ReadTable, At, Inv
<1>2. faults' \in 0..MaxFaults
  BY FaultType DEF ReadTable, FaultKinds, Inv
<1>3. CASE Goto(w, Failed(w))
  <2>1. pc'[w] = Failed(w) /\ job'[w] = job[w] => WorkerOK(w)'
    BY <1>1, QuietStage, NextStages
  <2>2. QED
    BY <1>1, <1>2, <1>3, <2>1, NextStages, LocalGoto
    DEF storeVars, outputVars, Inv, TypeOK, Stages
<1>4. CASE /\ key \in Stocked
           /\ pc' = [pc EXCEPT ![w] = "fillCache"]
           /\ job' = [job EXCEPT ![w].key = key, ![w].row = table[key]]
  <2>1. job[w] \in Jobs /\ key \in Keys /\ table[key] \in Row
        /\ CheckConstraint(table[key])
    BY <1>1, <1>4, BusyWorker DEF Inv, TypeOK, TableKeepsCheck
  <2>2. /\ pc' \in [Workers -> Stages] /\ pc'[w] = "fillCache"
        /\ job' \in [Workers -> Jobs]
        /\ job'[w].msg = job[w].msg /\ job'[w].key = key /\ job'[w].row = table[key]
        /\ \A v \in Workers \ {w} : pc'[v] = pc[v] /\ job'[v] = job[v]
    BY <1>4, <2>1 DEF Inv, TypeOK, Stages, Jobs
  <2>3. WorkerOK(w)'
    BY <1>1, <1>4, <2>1, <2>2, ServiceAssumption
    DEF WorkerOK, BusyWithMessage, KeyIsStocked, MarkHasId,
       AckedIsMarked, ReadRowsKeepCheck, UpdateKeepsCheck, BlankReservesNothing,
       CommittedBeforeAnnounced, Reading, CheckConstraint
  <2>4. QED
    BY <1>1, <1>2, <2>2, <2>3, LocalStep DEF storeVars, outputVars, Inv, TypeOK
<1>5. QED
  BY <1>3, <1>4 DEF ReadTable

(* Filling the cache keeps the row that was read.                          *)
LEMMA FillCacheInv ==
  ASSUME Inv, NEW w \in Workers, FillCache(w)
  PROVE  Inv'
<1>1. /\ pc[w] = "fillCache" /\ WorkerOK(w) /\ Goto(w, "handle")
      /\ UNCHANGED <<consumerVars, table, marked, outputVars, applied>>
  BY DEF FillCache, At, Inv
<1>2. faults' \in 0..MaxFaults
  BY FaultType DEF FillCache, FaultKinds, Inv
<1>3. cached' \subseteq Keys
  BY <1>1, ServiceAssumption DEF FillCache, Inv, TypeOK, WorkerOK, KeyIsStocked
<1>4. ASSUME pc'[w] = "handle", job'[w] = job[w] PROVE WorkerOK(w)'
  BY <1>1, <1>4 DEF WorkerOK, BusyWithMessage, KeyIsStocked, MarkHasId,
     AckedIsMarked, ReadRowsKeepCheck, UpdateKeepsCheck, BlankReservesNothing,
     CommittedBeforeAnnounced, Reading
<1>5. QED
  BY <1>1, <1>2, <1>3, <1>4, LocalGoto
  DEF outputVars, Inv, TypeOK, Stages

-----------------------------------------------------------------------------
(* The decisions of the handlers. *)

(* Each of them computes a row of integers that keeps the CHECK clauses    *)
(* when it started from such a row and the event carries a quantity.       *)
LEMMA ReserveKeepsCheck ==
  ASSUME NEW row \in Row, NEW quantity \in Int
  PROVE  /\ Reserve(row, quantity) \in Row
         /\ CheckConstraint(row) /\ quantity >= 0 /\ CanReserve(row, quantity)
              => CheckConstraint(Reserve(row, quantity))
BY DEF Row, Reserve, CheckConstraint, CanReserve, Available

(* A cancellation releases at most what is reserved.                       *)
LEMMA ReleaseKeepsCheck ==
  ASSUME NEW row \in Row, NEW quantity \in Int
  PROVE  /\ Release(row, quantity) \in Row
         /\ CheckConstraint(row) /\ quantity >= 0
              => CheckConstraint(Release(row, quantity))
BY DEF Row, Release, AtMost, CheckConstraint

(* A shipment takes at most what is on hand and at most what is reserved.  *)
LEMMA ShipKeepsCheck ==
  ASSUME NEW row \in Row, NEW quantity \in Int
  PROVE  /\ Ship(row, quantity) \in Row
         /\ CheckConstraint(row) /\ quantity >= 0
              => CheckConstraint(Ship(row, quantity))
BY DEF Row, Ship, ShipQuantity, AtMost, CheckConstraint

(* A cancelled shipment puts its quantity back on hand.                    *)
LEMMA RestoreKeepsCheck ==
  ASSUME NEW row \in Row, NEW quantity \in Int
  PROVE  /\ Restore(row, quantity) \in Row
         /\ CheckConstraint(row) /\ quantity >= 0
              => CheckConstraint(Restore(row, quantity))
BY DEF Row, Restore, CheckConstraint

(* A decision to update, with a row that is safe to write. *)
LEMMA DecideUpdate ==
  ASSUME Inv, NEW w \in Workers, NEW row \in Row, pc[w] = "handle",
         GotoWith(w, "update", row), Decided,
         EventOf(w).qty >= 0 => CheckConstraint(row),
         w[2] = "OrderPlaced" /\ EventOf(w).qty > 0 => job[w].key # NoKey
  PROVE  Inv'
<1>1. /\ pc' \in [Workers -> Stages] /\ job' \in [Workers -> Jobs]
      /\ pc'[w] = "update" /\ job'[w] = [job[w] EXCEPT !.row = row]
      /\ \A v \in Workers \ {w} : pc'[v] = pc[v] /\ job'[v] = job[v]
  BY GotoWithFrame DEF Inv, Stages
<1>2. /\ job'[w].msg = job[w].msg /\ job'[w].key = job[w].key /\ job'[w].row = row
  BY <1>1, BusyWorker DEF Jobs
<1>3. WorkerOK(w)'
  BY <1>1, <1>2 DEF Inv, WorkerOK, BusyWithMessage, KeyIsStocked, MarkHasId,
     AckedIsMarked, ReadRowsKeepCheck, UpdateKeepsCheck, BlankReservesNothing,
     CommittedBeforeAnnounced, Reading, EventOf, CheckConstraint
<1>4. QED
  BY <1>1, <1>3, LocalStep DEF Decided, storeVars, outputVars, Inv, TypeOK

(* A decision to refuse, to announce, or to do nothing. *)
LEMMA DecideOtherwise ==
  ASSUME Inv, NEW w \in Workers, pc[w] = "handle",
         NEW stage \in {"refused", "updated", Done(w)}, Goto(w, stage), Decided
  PROVE  Inv'
<1>1. pc'[w] = stage /\ job'[w] = job[w] => WorkerOK(w)'
  BY QuietStage, HandlerDone
<1>2. QED
  BY <1>1, NextStages, LocalGoto DEF Decided, storeVars, outputVars, Inv, TypeOK, Stages

(* The decisions of the six handlers.                                      *)
LEMMA HandlersInv ==
  ASSUME Inv, NEW w \in Workers,
         \/ HandleOrderPlaced(w) \/ HandleOrderCancelled(w)
         \/ HandleOrderShipped(w) \/ HandleShipmentCreated(w)
         \/ HandleShipmentDelivered(w) \/ HandleShipmentCancelled(w)
  PROVE  Inv'
<1> DEFINE row == job[w].row
           qty == EventOf(w).qty
<1>1. pc[w] = "handle" /\ Decided
  BY DEF HandleOrderPlaced, HandleOrderCancelled, HandleOrderShipped,
     HandleShipmentCreated, HandleShipmentDelivered, HandleShipmentCancelled, Handle, At
<1>2. row \in Row /\ qty \in Int /\ CheckConstraint(row)
      /\ (job[w].key = NoKey => row = BlankRow)
  BY <1>1, BusyWorker DEF Inv, WorkerOK, ReadRowsKeepCheck, BlankReservesNothing
<1>3. CASE HandleOrderPlaced(w)
  <2>1. CASE CanReserve(row, qty)
    <3>1. GotoWith(w, "update", Reserve(row, qty))
      BY <1>3, <2>1 DEF HandleOrderPlaced
    <3>2. qty > 0 => job[w].key # NoKey
      BY <1>2, <2>1 DEF CanReserve, Available, BlankRow
    <3>3. QED
      BY <1>1, <1>2, <2>1, <3>1, <3>2, ReserveKeepsCheck, DecideUpdate
  <2>2. CASE ~CanReserve(row, qty)
    BY <1>1, <1>3, <2>2, DecideOtherwise DEF HandleOrderPlaced
  <2>3. QED
    BY <2>1, <2>2
<1>4. CASE HandleOrderCancelled(w)
  <2>1. CASE row.reserved = 0
    BY <1>1, <1>4, <2>1, DecideOtherwise DEF HandleOrderCancelled
  <2>2. CASE row.reserved # 0
    <3>1. GotoWith(w, "update", Release(row, qty)) /\ w[2] # "OrderPlaced"
      BY <1>4, <2>2 DEF HandleOrderCancelled, Handle
    <3>2. QED
      BY <1>1, <1>2, <3>1, ReleaseKeepsCheck, DecideUpdate
  <2>3. QED
    BY <2>1, <2>2
<1>5. CASE HandleOrderShipped(w)
  <2>1. CASE row.reserved = 0
    BY <1>1, <1>5, <2>1, DecideOtherwise DEF HandleOrderShipped
  <2>2. CASE row.reserved # 0
    <3>1. GotoWith(w, "update", Ship(row, qty)) /\ w[2] # "OrderPlaced"
      BY <1>5, <2>2 DEF HandleOrderShipped, Handle
    <3>2. QED
      BY <1>1, <1>2, <3>1, ShipKeepsCheck, DecideUpdate
  <2>3. QED
    BY <2>1, <2>2
<1>6. CASE HandleShipmentCreated(w)
  BY <1>1, <1>6, DecideOtherwise DEF HandleShipmentCreated
<1>7. CASE HandleShipmentDelivered(w)
  BY <1>1, <1>7, DecideOtherwise DEF HandleShipmentDelivered
<1>8. CASE HandleShipmentCancelled(w)
  <2>1. CASE qty <= 0
    BY <1>1, <1>8, <2>1, DecideOtherwise DEF HandleShipmentCancelled
  <2>2. CASE ~(qty <= 0)
    <3>1. GotoWith(w, "update", Restore(row, qty)) /\ w[2] # "OrderPlaced"
      BY <1>8, <2>2 DEF HandleShipmentCancelled, Handle
    <3>2. QED
      BY <1>1, <1>2, <3>1, RestoreKeepsCheck, DecideUpdate
  <2>3. QED
    BY <2>1, <2>2
<1>9. QED
  BY <1>3, <1>4, <1>5, <1>6, <1>7, <1>8

-----------------------------------------------------------------------------
(* The update of the row. *)

(* A step that may commit the row of its job and moves its worker on. *)
LEMMA CommitStep ==
  ASSUME Inv, NEW w \in Workers, NEW stage \in {"evict", "bury", "nak"},
         pc[w] = "update", Goto(w, stage), faults' \in 0..MaxFaults,
         UNCHANGED <<consumerVars, cached, marked, outputVars>>,
         \/ Accepted(w) /\ Commit(w)
         \/ UNCHANGED <<table, applied>> /\ stage # "evict"
  PROVE  Inv'
<1>1. /\ job[w].msg \in Msgs /\ job[w].row \in Row
      /\ job[w].key \in Stocked \cup {NoKey} /\ WorkerOK(w)
  BY BusyWorker DEF Inv
<1>2. /\ pc' \in [Workers -> Stages] /\ job' = job /\ pc'[w] = stage
      /\ \A v \in Workers \ {w} : pc'[v] = pc[v] /\ job'[v] = job[v]
  BY GotoFrame DEF Inv, Stages
<1>3. table' \in [Stocked -> Row] /\ applied' \in [Msgs -> Nat]
  BY <1>1 DEF Inv, TypeOK, Commit
<1>4. \A m \in Msgs : applied'[m] >= applied[m]
  BY <1>1 DEF Inv, TypeOK, Commit
<1>5. TableKeepsCheck'
  <2> SUFFICES ASSUME NEW k \in Stocked PROVE CheckConstraint(table'[k])
    BY DEF TableKeepsCheck, CheckConstraint
  <2>1. table'[k] = table[k] \/ (table'[k] = job[w].row /\ CheckConstraint(job[w].row))
    BY <1>1 DEF Accepted, Commit, Inv, TypeOK
  <2>2. QED
    BY <2>1 DEF Inv, TableKeepsCheck
<1>6. AnnouncedAreStored'
  <2> SUFFICES ASSUME NEW n \in events, n.subject = "InventoryReserved",
                      Event[n.msg].qty > 0
               PROVE  applied'[n.msg] > 0
    BY DEF AnnouncedAreStored, outputVars
  <2>1. n.msg \in Msgs /\ applied[n.msg] > 0
    BY DEF Inv, TypeOK, AnnouncedAreStored
  <2>2. QED
    BY <1>3, <1>4, <2>1 DEF Inv, TypeOK
<1>7. WorkerOK(w)'
  <2>1. CASE stage # "evict"
    BY <1>2, <2>1, QuietStage
  <2>2. CASE stage = "evict"
    <3>1. w[2] = "OrderPlaced" /\ EventOf(w).qty > 0 => applied'[job[w].msg] > 0
      BY <1>1, <2>2 DEF Commit, Inv, TypeOK, WorkerOK, BlankReservesNothing
    <3>2. QED
      BY <1>1, <1>2, <2>2, <3>1 DEF WorkerOK, BusyWithMessage, KeyIsStocked, MarkHasId,
         AckedIsMarked, ReadRowsKeepCheck, UpdateKeepsCheck, BlankReservesNothing,
         CommittedBeforeAnnounced, Reading, EventOf
  <2>3. QED
    BY <2>1, <2>2
<1>8. TypeOK'
  BY <1>2, <1>3 DEF Inv, TypeOK, consumerVars, outputVars
<1>9. QED
  BY <1>2, <1>4, <1>5, <1>6, <1>7, <1>8, OneWorkerSteps

(* The UPDATE: what it writes is a row the table accepts.                  *)
LEMMA UpdateInv ==
  ASSUME Inv, NEW w \in Workers, Update(w)
  PROVE  Inv'
<1>1. pc[w] = "update" /\ UNCHANGED <<consumerVars, cached, marked, outputVars>>
  BY DEF Update, At
<1>2. faults' \in 0..MaxFaults
  BY FaultType DEF Update, FaultKinds, Inv
<1>3. PICK stage \in {"evict", "bury", "nak"} :
        /\ Goto(w, stage)
        /\ \/ Accepted(w) /\ Commit(w)
           \/ UNCHANGED <<table, applied>> /\ stage # "evict"
  BY NextStages DEF Update
<1>4. QED
  BY <1>1, <1>2, <1>3, CommitStep

(* The eviction: its worker committed an order it will announce.           *)
LEMMA EvictInv ==
  ASSUME Inv, NEW w \in Workers, Evict(w)
  PROVE  Inv'
<1>1. /\ pc[w] = "evict" /\ WorkerOK(w)
      /\ UNCHANGED <<consumerVars, table, marked, outputVars, applied>>
  BY DEF Evict, At, Inv
<1>2. faults' \in 0..MaxFaults /\ cached' \subseteq Keys
  BY FaultType DEF Evict, FaultKinds, Inv, TypeOK
<1>3. PICK stage \in {AfterUpdate(w), Failed(w)} : Goto(w, stage)
  BY DEF Evict
<1>4. stage \in {"updated", "bury", "nak"} \/ (stage = "reserved" /\ stage = AfterUpdate(w))
  BY <1>3, NextStages DEF AfterUpdate
<1>5. ASSUME pc'[w] = stage, job'[w] = job[w] PROVE WorkerOK(w)'
  <2>1. CASE stage = "reserved"
    BY <1>1, <1>4, <1>5, <2>1 DEF WorkerOK, BusyWithMessage, KeyIsStocked, MarkHasId,
       AckedIsMarked, ReadRowsKeepCheck, UpdateKeepsCheck, BlankReservesNothing,
       CommittedBeforeAnnounced, Reading, EventOf, AfterUpdate
  <2>2. QED
    BY <1>1, <1>4, <1>5, <2>1, QuietStage
<1>6. QED
  BY <1>1, <1>2, <1>3, <1>4, <1>5, LocalGoto DEF outputVars, Inv, TypeOK, Stages

-----------------------------------------------------------------------------
(* Publishing, marking and answering. *)

(* Publishing an event of a committed order, or any other event.           *)
LEMMA AnnounceInv ==
  ASSUME Inv, NEW w \in Workers, pc[w] # "idle", NEW subject \in Subjects,
         NEW about \in Keys \cup {NoKey},
         NEW next \in {"updated", Done(w)},
         Announce(w, Notice(w, subject, about), next),
         subject = "InventoryReserved" /\ EventOf(w).qty > 0 => applied[job[w].msg] > 0
  PROVE  Inv'
<1> DEFINE notice == Notice(w, subject, about)
<1>1. UNCHANGED <<consumerVars, storeVars, dlq, applied>>
  BY DEF Announce
<1>2. faults' \in 0..MaxFaults
  BY FaultType DEF Announce, FaultKinds, Inv
<1>3. PICK stage \in {next, Failed(w)} : Goto(w, stage)
  BY DEF Announce
<1>4. stage \in {"updated", "bury", "nak", Done(w)} /\ stage \in Stages
  BY <1>3, NextStages DEF Stages
<1>5. /\ pc' \in [Workers -> Stages] /\ job' = job /\ pc'[w] = stage
      /\ \A v \in Workers \ {w} : pc'[v] = pc[v] /\ job'[v] = job[v]
  BY <1>3, <1>4, GotoFrame DEF Inv
<1>6. job[w].msg \in Msgs
  BY BusyWorker
<1>7. events' \in {events, events \cup {notice}}
  BY DEF Announce
<1>8. TypeOK'
  BY <1>1, <1>2, <1>5, <1>6, <1>7
  DEF Inv, TypeOK, consumerVars, storeVars, Notice
<1>9. AnnouncedAreStored'
  BY <1>1, <1>6, <1>7 DEF Inv, AnnouncedAreStored, Notice, EventOf
<1>10. WorkerOK(w)'
  BY <1>4, <1>5, QuietStage, HandlerDone
<1>11. TableKeepsCheck' /\ \A m \in Msgs : applied'[m] >= applied[m]
  BY <1>1 DEF Inv, TypeOK, TableKeepsCheck, CheckConstraint, storeVars
<1>12. QED
  BY <1>1, <1>5, <1>8, <1>9, <1>10, <1>11, OneWorkerSteps DEF storeVars

(* The three publications of the handlers.                                 *)
LEMMA PublishInv ==
  ASSUME Inv, NEW w \in Workers,
         PublishReserved(w) \/ PublishUpdated(w) \/ PublishRefused(w)
  PROVE  Inv'
<1>1. pc[w] # "idle"
  BY DEF PublishReserved, PublishUpdated, PublishRefused, At
<1>2. EventOf(w).key \in Keys /\ job[w].key \in Keys \cup {NoKey}
  BY <1>1, BusyWorker, ServiceAssumption
<1>3. CASE PublishReserved(w)
  <2>1. Announce(w, Notice(w, "InventoryReserved", EventOf(w).key), "updated")
    BY <1>3 DEF PublishReserved
  <2>2. w[2] = "OrderPlaced" /\ EventOf(w).qty > 0 => applied[job[w].msg] > 0
    BY <1>3 DEF PublishReserved, At, Inv, WorkerOK, CommittedBeforeAnnounced
  <2>3. EventOf(w).qty > 0 => applied[job[w].msg] > 0
    BY <1>3, <2>2 DEF PublishReserved, At, Inv, WorkerOK, CommittedBeforeAnnounced
  <2>4. QED
    BY <1>1, <1>2, <2>1, <2>3, AnnounceInv DEF Subjects
<1>4. CASE PublishUpdated(w)
  BY <1>1, <1>2, <1>4, AnnounceInv DEF PublishUpdated, Subjects
<1>5. CASE PublishRefused(w)
  BY <1>1, <1>2, <1>5, AnnounceInv DEF PublishRefused, Subjects
<1>6. QED
  BY <1>3, <1>4, <1>5

(* Marking the id: only then is the message acknowledged.                  *)
LEMMA MarkInv ==
  ASSUME Inv, NEW w \in Workers, Mark(w)
  PROVE  Inv'
<1>1. /\ pc[w] = "mark" /\ WorkerOK(w)
      /\ UNCHANGED <<consumerVars, table, cached, outputVars, applied>>
  BY DEF Mark, At, Inv
<1>2. faults' \in 0..MaxFaults
  BY FaultType DEF Mark, FaultKinds, Inv
<1>3. EventOf(w).id \in Ids
  BY <1>1, BusyWorker DEF WorkerOK, MarkHasId
<1>4. marked' \subseteq Ids /\ marked \subseteq marked'
  BY <1>3 DEF Mark, Inv, TypeOK
<1>5. PICK stage \in {"ack", Failed(w)} :
        Goto(w, stage) /\ (stage = "ack" => marked' = marked \cup {EventOf(w).id})
  BY NextStages DEF Mark
<1>6. ASSUME pc'[w] = stage, job'[w] = job[w] PROVE WorkerOK(w)'
  <2>1. CASE stage = "ack"
    BY <1>1, <1>5, <1>6, <2>1 DEF WorkerOK, BusyWithMessage, KeyIsStocked, MarkHasId,
       AckedIsMarked, ReadRowsKeepCheck, UpdateKeepsCheck, BlankReservesNothing,
       CommittedBeforeAnnounced, Reading, EventOf
  <2>2. QED
    BY <1>1, <1>5, <1>6, <2>1, NextStages, QuietStage
<1>7. stage \in Stages
  BY <1>5, NextStages DEF Stages
<1>8. QED
  BY <1>1, <1>2, <1>4, <1>5, <1>6, <1>7, LocalGoto DEF outputVars, Inv, TypeOK

(* The dead letter changes nothing the workers rely on.                    *)
LEMMA PublishDLQInv ==
  ASSUME Inv, NEW w \in Workers, PublishDLQ(w)
  PROVE  Inv'
<1>1. /\ pc[w] = "bury" /\ Goto(w, "term")
      /\ UNCHANGED <<consumerVars, storeVars, events, applied>>
  BY DEF PublishDLQ, At
<1>2. faults' \in 0..MaxFaults
  BY FaultType DEF PublishDLQ, FaultKinds, Inv
<1>3. dlq' \subseteq Msgs
  BY <1>1, BusyWorker DEF PublishDLQ, Inv, TypeOK
<1>4. pc'[w] = "term" /\ job'[w] = job[w] => WorkerOK(w)'
  BY <1>1, QuietStage
<1>5. QED
  BY <1>1, <1>2, <1>3, <1>4, LocalGoto DEF storeVars, Inv, TypeOK, Stages

(* A recovered panic leads to the dead letter.                             *)
LEMMA PanicInv ==
  ASSUME Inv, NEW w \in Workers, Panic(w)
  PROVE  Inv'
<1>1. /\ pc[w] # "idle" /\ Goto(w, "bury")
      /\ UNCHANGED <<consumerVars, storeVars, outputVars, applied>>
  BY DEF Panic, Handling
<1>2. faults' \in 0..MaxFaults
  BY FaultType DEF Panic, FaultKinds, Inv
<1>3. pc'[w] = "bury" /\ job'[w] = job[w] => WorkerOK(w)'
  BY <1>1, QuietStage
<1>4. QED
  BY <1>1, <1>2, <1>3, LocalGoto DEF storeVars, outputVars, Inv, TypeOK, Stages

(* Ack, Nak and Term: the worker becomes idle.                             *)
LEMMA AnswerInv ==
  ASSUME Inv, NEW w \in Workers, Ack(w) \/ Nak(w) \/ Term(w)
  PROVE  Inv'
<1>1. /\ pc[w] # "idle" /\ Finish(w) /\ UNCHANGED <<storeVars, outputVars, applied>>
      /\ faults' \in 0..MaxFaults
  BY FaultType DEF Ack, Nak, Term, At, Answered, Lost, FaultKinds, Inv
<1>2. /\ pc' \in [Workers -> Stages] /\ job' \in [Workers -> Jobs]
      /\ pc'[w] = "idle" /\ job'[w] = IdleJob
      /\ \A v \in Workers \ {w} : pc'[v] = pc[v] /\ job'[v] = job[v]
  BY <1>1, FinishFrame DEF Inv
<1>3. status' \in [Msgs -> Statuses] /\ UNCHANGED <<deliveries, inbox>>
  BY DEF Ack, Nak, Term, Lost, Settle, Requeue, consumerVars, Statuses, Inv, TypeOK
<1>4. TypeOK'
  BY <1>1, <1>2, <1>3 DEF Inv, TypeOK, storeVars, outputVars
<1>5. QED
  BY <1>1, <1>2, <1>4, IdleWorker, SameOutputs, OneWorkerSteps DEF storeVars, outputVars

-----------------------------------------------------------------------------
(* Delivery, crashes, timers and the expiry of marks. *)

(* A push concerns the server and the queues alone.                        *)
LEMMA DeliverInv ==
  ASSUME Inv, NEW w \in Workers, Deliver(w)
  PROVE  Inv'
<1>1. UNCHANGED <<storeVars, pc, job, outputVars, applied, faults>>
  BY DEF Deliver
<1>2. PICK m \in Msgs : Push(m, w)
  BY DEF Deliver
<1>3. NextAttempt(m) \in 1..MaxDeliver
  BY MaxDeliverAssumption DEF Inv, TypeOK, NextAttempt
<1>4. /\ status' \in [Msgs -> Statuses]
      /\ deliveries' \in [Msgs -> 0..MaxDeliver]
      /\ inbox' \subseteq [to : Workers, msg : Msgs, attempt : 1..MaxDeliver]
  BY <1>2, <1>3 DEF Push, Inv, TypeOK, Statuses
<1>5. TypeOK'
  BY <1>1, <1>4 DEF Inv, TypeOK, storeVars, outputVars
<1>6. WorkerOK(w)'
  BY <1>1 DEF Inv, WorkerOK, BusyWithMessage, KeyIsStocked, MarkHasId,
     AckedIsMarked, ReadRowsKeepCheck, UpdateKeepsCheck, BlankReservesNothing,
     CommittedBeforeAnnounced, Reading, EventOf, storeVars
<1>7. QED
  BY <1>1, <1>5, <1>6, SameOutputs, OneWorkerSteps DEF storeVars, outputVars

(* A worker that takes a copy starts from the blank row.                   *)
LEMMA TakeInv ==
  ASSUME Inv, NEW w \in Workers, Take(w)
  PROVE  Inv'
<1>1. UNCHANGED <<status, deliveries, storeVars, outputVars, applied, faults>>
  BY DEF Take
<1>2. PICK c \in inbox :
        /\ inbox' = inbox \ {c}
        /\ pc' = [pc EXCEPT ![w] = Entry(c.msg)]
        /\ job' = [job EXCEPT ![w] = NewJob(c)]
  BY DEF Take
<1>3. c.msg \in Msgs /\ c.attempt \in 1..MaxDeliver
  BY DEF Inv, TypeOK
<1>4. /\ NewJob(c) \in Jobs /\ NewJob(c).msg = c.msg /\ NewJob(c).key = NoKey
      /\ NewJob(c).row = BlankRow
  BY <1>3 DEF NewJob, Jobs, BlankRow, Row
<1>5. /\ pc' \in [Workers -> Stages] /\ job' \in [Workers -> Jobs]
      /\ pc'[w] = Entry(c.msg) /\ job'[w] = NewJob(c)
      /\ \A v \in Workers \ {w} : pc'[v] = pc[v] /\ job'[v] = job[v]
  BY <1>2, <1>4 DEF Inv, TypeOK, Entry, Stages
<1>6. TypeOK'
  BY <1>1, <1>2, <1>5 DEF Inv, TypeOK, storeVars, outputVars
<1>7. WorkerOK(w)'
  BY <1>3, <1>4, <1>5, ServiceAssumption
  DEF WorkerOK, BusyWithMessage, KeyIsStocked, MarkHasId, AckedIsMarked,
      ReadRowsKeepCheck, UpdateKeepsCheck, BlankReservesNothing,
      CommittedBeforeAnnounced, Reading, EventOf, Entry, CheckConstraint, BlankRow
<1>8. QED
  BY <1>1, <1>5, <1>6, <1>7, SameOutputs, OneWorkerSteps DEF storeVars, outputVars

(* A crash makes the workers of a replica idle and leaves the stores.      *)
LEMMA CrashInv ==
  ASSUME Inv, NEW i \in Instances, Crash(i)
  PROVE  Inv'
<1>1. UNCHANGED <<status, deliveries, storeVars, outputVars, applied>>
  BY DEF Crash
<1>2. faults' \in 0..MaxFaults
  BY FaultType DEF Crash, FaultKinds, Inv
<1>3. \A w \in Workers : \/ pc'[w] = "idle" /\ job'[w] = IdleJob
                         \/ pc'[w] = pc[w] /\ job'[w] = job[w]
  BY DEF Crash
<1>4. IdleJob \in Jobs
  BY MaxDeliverAssumption DEF IdleJob, Jobs, Row, BlankRow
<1>5. pc' \in [Workers -> Stages] /\ job' \in [Workers -> Jobs]
  BY <1>4 DEF Crash, Inv, TypeOK, Stages
<1>6. TypeOK'
  BY <1>1, <1>2, <1>5 DEF Crash, Inv, TypeOK, storeVars, outputVars
<1>7. ASSUME NEW w \in Workers PROVE WorkerOK(w)'
  <2>1. CASE pc'[w] = "idle" /\ job'[w] = IdleJob
    BY <2>1, IdleWorker
  <2>2. CASE pc'[w] = pc[w] /\ job'[w] = job[w]
    BY <1>1, <2>2 DEF Inv, WorkerOK, BusyWithMessage, KeyIsStocked, MarkHasId,
       AckedIsMarked, ReadRowsKeepCheck, UpdateKeepsCheck, BlankReservesNothing,
       CommittedBeforeAnnounced, Reading, EventOf, storeVars
  <2>3. QED
    BY <1>3, <2>1, <2>2
<1>8. QED
  BY <1>1, <1>6, <1>7, SameOutputs DEF Inv, storeVars, outputVars

(* The end of AckWait concerns the server alone.                           *)
LEMMA AckWaitInv ==
  ASSUME Inv, NEW m \in Msgs, AckWait(m)
  PROVE  Inv'
<1>1. /\ UNCHANGED <<deliveries, inbox, storeVars, pc, job, outputVars, applied>>
      /\ status' \in [Msgs -> Statuses]
  BY DEF AckWait, Requeue, Statuses, Inv, TypeOK
<1>2. faults' \in 0..MaxFaults
  BY FaultType DEF AckWait, FaultKinds, Inv
<1>3. TypeOK'
  BY <1>1, <1>2 DEF Inv, TypeOK, storeVars, outputVars
<1>4. \A w \in Workers : WorkerOK(w)'
  BY <1>1 DEF Inv, WorkerOK, BusyWithMessage, KeyIsStocked, MarkHasId,
     AckedIsMarked, ReadRowsKeepCheck, UpdateKeepsCheck, BlankReservesNothing,
     CommittedBeforeAnnounced, Reading, EventOf, storeVars
<1>5. QED
  BY <1>1, <1>3, <1>4, SameOutputs DEF Inv, storeVars, outputVars

(* A mark expires only when no callback of its id runs, so what is being   *)
(* acknowledged stays marked.                                              *)
LEMMA ForgetMarkInv ==
  ASSUME Inv, NEW id \in Ids, ForgetMark(id)
  PROVE  Inv'
<1>1. /\ UNCHANGED <<consumerVars, table, cached, pc, job, outputVars, applied>>
      /\ marked' = marked \ {id}
  BY DEF ForgetMark
<1>2. faults' \in 0..MaxFaults
  BY FaultType DEF ForgetMark, FaultKinds, Inv
<1>3. TypeOK'
  BY <1>1, <1>2 DEF Inv, TypeOK, consumerVars, outputVars
<1>4. ASSUME NEW w \in Workers PROVE WorkerOK(w)'
  <2>1. pc[w] = "ack" => EventOf(w).id # id
    BY DEF ForgetMark, Inv, WorkerOK, BusyWithMessage
  <2>2. AckedIsMarked(w)'
    BY <1>1, <2>1 DEF Inv, WorkerOK, AckedIsMarked, EventOf
  <2>3. QED
    BY <1>1, <2>2 DEF Inv, WorkerOK, BusyWithMessage, KeyIsStocked, MarkHasId,
       ReadRowsKeepCheck, UpdateKeepsCheck, BlankReservesNothing,
       CommittedBeforeAnnounced, Reading, EventOf
<1>5. QED
  BY <1>1, <1>3, <1>4, SameOutputs DEF Inv, outputVars

(* A stuttering step changes nothing.                                      *)
LEMMA StutterInv == Inv /\ UNCHANGED vars => Inv'
<1> SUFFICES ASSUME Inv, UNCHANGED vars PROVE Inv'
  OBVIOUS
<1>1. UNCHANGED <<status, deliveries, inbox, table, cached, marked, pc, job,
                  events, dlq, applied, faults>>
  BY DEF vars, consumerVars, storeVars, outputVars
<1>2. TypeOK'
  BY <1>1 DEF Inv, TypeOK
<1>3. \A w \in Workers : WorkerOK(w)'
  BY <1>1 DEF Inv, WorkerOK, BusyWithMessage, KeyIsStocked, MarkHasId,
     AckedIsMarked, ReadRowsKeepCheck, UpdateKeepsCheck, BlankReservesNothing,
     CommittedBeforeAnnounced, Reading, EventOf
<1>4. QED
  BY <1>1, <1>2, <1>3, SameOutputs DEF Inv

-----------------------------------------------------------------------------
(* Every step preserves the invariant.                                     *)
LEMMA NextInv == Inv /\ [Next]_vars => Inv'
<1> SUFFICES ASSUME Inv, [Next]_vars PROVE Inv'
  OBVIOUS
<1>1. ASSUME NEW w \in Workers, Step(w) PROVE Inv'
  BY <1>1, CheckSeenInv, ReadCacheInv, ReadTableInv, FillCacheInv, HandlersInv,
     UpdateInv, EvictInv, PublishInv, MarkInv, AnswerInv, PublishDLQInv, PanicInv
  DEF Step
<1>2. QED
  BY <1>1, DeliverInv, TakeInv, CrashInv, AckWaitInv, ForgetMarkInv, StutterInv
  DEF Next

-----------------------------------------------------------------------------
(* What a worker holds. *)

(* What any step leaves in the hands of a worker: nothing, what it held,   *)
(* or a copy from its queue.                                               *)
Holds(v) ==
  \/ job'[v] = IdleJob /\ pc'[v] = "idle"
  \/ /\ job'[v].msg = job[v].msg /\ job'[v].attempt = job[v].attempt
     /\ pc'[v] = "idle" <=> pc[v] = "idle"
  \/ /\ pc[v] = "idle"
     /\ \E c \in inbox : c.to = v /\ job'[v] = NewJob(c) /\ pc'[v] = Entry(c.msg)

(* A worker that goes on to another stage holds what it held.              *)
LEMMA GotoHolds ==
  ASSUME Inv, NEW w \in Workers, pc[w] # "idle",
         \/ \E stage \in Stages \ {"idle"} : Goto(w, stage)
         \/ \E row : GotoWith(w, "update", row)
         \/ \E key, row : /\ pc' = [pc EXCEPT ![w] = "fillCache"]
                          /\ job' = [job EXCEPT ![w].key = key, ![w].row = row]
  PROVE  \A v \in Workers : Holds(v)
<1>1. CASE \E stage \in Stages \ {"idle"} : Goto(w, stage)
  BY <1>1 DEF Goto, Holds, Inv, TypeOK
<1>2. CASE \E row : GotoWith(w, "update", row)
  <2>1. PICK row : GotoWith(w, "update", row)
    BY <1>2
  <2>2. /\ job'[w].msg = job[w].msg /\ job'[w].attempt = job[w].attempt
        /\ pc'[w] = "update" /\ \A v \in Workers \ {w} : job'[v] = job[v] /\ pc'[v] = pc[v]
    BY <2>1 DEF GotoWith, Inv, TypeOK, Jobs
  <2>3. QED
    BY <2>2 DEF Holds
<1>3. CASE \E key, row : /\ pc' = [pc EXCEPT ![w] = "fillCache"]
                        /\ job' = [job EXCEPT ![w].key = key, ![w].row = row]
  <2>1. PICK key, row : /\ pc' = [pc EXCEPT ![w] = "fillCache"]
                        /\ job' = [job EXCEPT ![w].key = key, ![w].row = row]
    BY <1>3
  <2>2. job \in [Workers -> Jobs] /\ job[w] \in Jobs /\ pc \in [Workers -> Stages]
    BY DEF Inv, TypeOK
  <2>3. job'[w] = [job[w] EXCEPT !.key = key, !.row = row]
    BY <2>1, <2>2
  <2>4. /\ job'[w].msg = job[w].msg /\ job'[w].attempt = job[w].attempt
    BY <2>2, <2>3 DEF Jobs
  <2>5. pc'[w] = "fillCache" /\ \A v \in Workers \ {w} : job'[v] = job[v] /\ pc'[v] = pc[v]
    BY <2>1, <2>2
  <2>6. QED
    BY <2>4, <2>5 DEF Holds
<1>4. QED
  BY <1>1, <1>2, <1>3

(* Every step of a callback but its answer leaves its message with it, and *)
(* the copies and the server alone.                                        *)
LEMMA StepHolds ==
  ASSUME Inv, NEW w \in Workers, Step(w)
  PROVE  /\ \A v \in Workers : Holds(v)
         /\ UNCHANGED <<deliveries, inbox>>
         /\ UNCHANGED status \/ Ack(w) \/ Nak(w) \/ Term(w)
<1>1. Failed(w) \in Stages \ {"idle"} /\ Done(w) \in Stages \ {"idle"}
  BY NextStages DEF Stages
<1>2. CASE CheckSeen(w) \/ ReadCache(w) \/ FillCache(w) \/ PublishDLQ(w) \/ Panic(w)
  <2>1. pc[w] # "idle" /\ \E stage \in Stages \ {"idle"} : Goto(w, stage)
    BY <1>2 DEF CheckSeen, ReadCache, FillCache, PublishDLQ, Panic, At, Handling, Stages
  <2>2. QED
    BY <1>2, <2>1, GotoHolds
    DEF CheckSeen, ReadCache, FillCache, PublishDLQ, Panic, consumerVars
<1>3. CASE ReadTable(w)
  <2>1. /\ pc[w] # "idle"
        /\ \/ Goto(w, Failed(w))
           \/ \E key, row : /\ pc' = [pc EXCEPT ![w] = "fillCache"]
                            /\ job' = [job EXCEPT ![w].key = key, ![w].row = row]
    BY <1>3 DEF ReadTable, At
  <2>2. QED
    BY <1>1, <1>3, <2>1, GotoHolds DEF ReadTable, consumerVars
<1>4. CASE \/ HandleOrderPlaced(w) \/ HandleOrderCancelled(w) \/ HandleOrderShipped(w)
           \/ HandleShipmentCreated(w) \/ HandleShipmentDelivered(w)
           \/ HandleShipmentCancelled(w)
  <2>1. UNCHANGED consumerVars /\ pc[w] # "idle"
    BY <1>4 DEF HandleOrderPlaced, HandleOrderCancelled, HandleOrderShipped,
       HandleShipmentCreated, HandleShipmentDelivered, HandleShipmentCancelled,
       Decided, Handle, At
  <2>2. \/ \E stage \in {"refused", "updated", Done(w)} : Goto(w, stage)
        \/ \E row : GotoWith(w, "update", row)
    BY <1>4 DEF HandleOrderPlaced, HandleOrderCancelled, HandleOrderShipped,
       HandleShipmentCreated, HandleShipmentDelivered, HandleShipmentCancelled
  <2>3. QED
    BY <1>1, <2>1, <2>2, GotoHolds DEF consumerVars, Stages
<1>5. CASE Update(w) \/ Evict(w) \/ Mark(w)
  <2>1. pc[w] # "idle" /\ UNCHANGED consumerVars
        /\ \E stage \in {"evict", AfterUpdate(w), "ack", Failed(w)} : Goto(w, stage)
    BY <1>5 DEF Update, Evict, Mark, At
  <2>2. QED
    BY <1>1, <2>1, GotoHolds DEF AfterUpdate, Stages, consumerVars
<1>6. CASE PublishReserved(w) \/ PublishUpdated(w) \/ PublishRefused(w)
  <2>1. pc[w] # "idle" /\ UNCHANGED consumerVars
        /\ \E stage \in {"updated", Done(w), Failed(w)} : Goto(w, stage)
    BY <1>6 DEF PublishReserved, PublishUpdated, PublishRefused, Announce, At
  <2>2. QED
    BY <1>1, <2>1, GotoHolds DEF Stages, consumerVars
<1>7. CASE Ack(w) \/ Nak(w) \/ Term(w)
  BY <1>7 DEF Ack, Nak, Term, Answered, Finish, Lost, Settle, Requeue, consumerVars,
     Holds, Inv, TypeOK
<1>8. QED
  BY <1>2, <1>3, <1>4, <1>5, <1>6, <1>7 DEF Step

(* Every step of the system keeps to this.                                 *)
LEMMA NextHolds ==
  ASSUME Inv, [Next]_vars, NEW v \in Workers
  PROVE  Holds(v)
<1>1. ASSUME NEW w \in Workers, Take(w) PROVE Holds(v)
  BY <1>1 DEF Take, At, Holds, Inv, TypeOK
<1>2. ASSUME NEW w \in Workers, Step(w) PROVE Holds(v)
  BY <1>2, StepHolds
<1>3. ASSUME NEW i \in Instances, Crash(i) PROVE Holds(v)
  BY <1>3 DEF Crash, Holds
<1>4. ASSUME UNCHANGED <<pc, job>> PROVE Holds(v)
  BY <1>4 DEF Holds
<1>5. ASSUME NEW w \in Workers, Deliver(w) PROVE Holds(v)
  BY <1>4, <1>5 DEF Deliver
<1>6. ASSUME NEW m \in Msgs, AckWait(m) PROVE Holds(v)
  BY <1>4, <1>6 DEF AckWait
<1>7. ASSUME NEW id \in Ids, ForgetMark(id) PROVE Holds(v)
  BY <1>4, <1>7 DEF ForgetMark
<1>8. UNCHANGED vars => Holds(v)
  BY <1>4 DEF vars
<1>9. QED
  BY <1>1, <1>2, <1>3, <1>5, <1>6, <1>7, <1>8 DEF Next

(* Counts of deliveries only grow, and a copy in a queue after a step was  *)
(* there before, or was pushed to a worker for its kind with the count.    *)
LEMMA NextCopies ==
  ASSUME Inv, [Next]_vars
  PROVE  /\ \A m \in Msgs : deliveries'[m] >= deliveries[m]
         /\ \A c \in inbox' :
              \/ c \in inbox
              \/ /\ c.msg \in Msgs /\ Event[c.msg].kind = c.to[2]
                 /\ c.attempt <= deliveries'[c.msg]
<1> DEFINE Copies ==
      /\ \A m \in Msgs : deliveries'[m] >= deliveries[m]
      /\ \A c \in inbox' :
           \/ c \in inbox
           \/ /\ c.msg \in Msgs /\ Event[c.msg].kind = c.to[2]
              /\ c.attempt <= deliveries'[c.msg]
<1>1. ASSUME UNCHANGED deliveries, inbox' \subseteq inbox PROVE Copies
  BY <1>1 DEF Inv, TypeOK
<1>2. ASSUME NEW w \in Workers, Deliver(w) PROVE Copies
  <2>1. PICK m \in Msgs : Event[m].kind = w[2] /\ Push(m, w)
    BY <1>2 DEF Deliver
  <2>2. /\ NextAttempt(m) >= deliveries[m] /\ NextAttempt(m) \in Nat
        /\ deliveries' = [deliveries EXCEPT ![m] = NextAttempt(m)]
        /\ inbox' = inbox \cup {[to |-> w, msg |-> m, attempt |-> NextAttempt(m)]}
    BY <2>1, MaxDeliverAssumption DEF Push, NextAttempt, Inv, TypeOK
  <2>3. \A n \in Msgs : deliveries'[n] >= deliveries[n]
    BY <2>2 DEF Inv, TypeOK
  <2>4. deliveries'[m] = NextAttempt(m)
    BY <2>2 DEF Inv, TypeOK
  <2>5. QED
    BY <2>1, <2>2, <2>3, <2>4
<1>3. ASSUME NEW w \in Workers, Take(w) PROVE Copies
  BY <1>1, <1>3 DEF Take
<1>4. ASSUME NEW w \in Workers, Step(w) PROVE Copies
  BY <1>1, <1>4, StepHolds
<1>5. ASSUME NEW i \in Instances, Crash(i) PROVE Copies
  BY <1>1, <1>5 DEF Crash
<1>6. ASSUME NEW m \in Msgs, AckWait(m) PROVE Copies
  BY <1>1, <1>6 DEF AckWait, Requeue
<1>7. ASSUME NEW id \in Ids, ForgetMark(id) PROVE Copies
  BY <1>1, <1>7 DEF ForgetMark, consumerVars
<1>8. UNCHANGED vars => Copies
  BY <1>1 DEF vars, consumerVars
<1>9. QED
  BY <1>2, <1>3, <1>4, <1>5, <1>6, <1>7, <1>8 DEF Next

(* A subscription is for the events of one kind, so that is what waits in  *)
(* its queue and what its callback holds; and the count on a copy is one   *)
(* the server has reached.                                                 *)
CopiesOK ==
  /\ \A c \in inbox : Event[c.msg].kind = c.to[2] /\ c.attempt <= deliveries[c.msg]
  /\ \A w \in Workers : pc[w] # "idle" =>
       EventOf(w).kind = w[2] /\ job[w].attempt <= deliveries[job[w].msg]

(* At the start nothing is held.                                           *)
LEMMA InitCopies == Init => CopiesOK
BY DEF Init, ConsumerInit, CopiesOK

(* Copies are taken as they were pushed.                                   *)
LEMMA NextCopiesOK ==
  ASSUME Inv, CopiesOK, [Next]_vars
  PROVE  CopiesOK'
<1>1. \A c \in inbox : c.msg \in Msgs /\ c.attempt \in Nat
  BY DEF Inv, TypeOK
<1>2. \A m \in Msgs : deliveries[m] \in Nat /\ deliveries'[m] \in Nat
                      /\ deliveries'[m] >= deliveries[m]
  <2>1. TypeOK /\ TypeOK'
    BY NextInv DEF Inv
  <2>2. QED
    BY <2>1, NextCopies DEF TypeOK
<1>3. \A c \in inbox' : Event[c.msg].kind = c.to[2] /\ c.attempt <= deliveries'[c.msg]
  <2> SUFFICES ASSUME NEW c \in inbox'
               PROVE  Event[c.msg].kind = c.to[2] /\ c.attempt <= deliveries'[c.msg]
    OBVIOUS
  <2>1. CASE c \in inbox
    BY <1>1, <1>2, <2>1 DEF CopiesOK
  <2>2. CASE c \notin inbox
    BY <2>2, NextCopies
  <2>3. QED
    BY <2>1, <2>2
<1>4. ASSUME NEW w \in Workers, pc'[w] # "idle"
      PROVE  /\ Event[job'[w].msg].kind = w[2]
             /\ job'[w].attempt <= deliveries'[job'[w].msg]
  <2>1. CASE /\ job'[w].msg = job[w].msg /\ job'[w].attempt = job[w].attempt
             /\ pc[w] # "idle"
    <3>1. job[w].msg \in Msgs /\ job[w].attempt \in Nat
      BY <2>1, BusyWorker DEF Jobs
    <3>2. EventOf(w).kind = w[2] /\ job[w].attempt <= deliveries[job[w].msg]
      BY <2>1 DEF CopiesOK
    <3>3. QED
      BY <1>2, <2>1, <3>1, <3>2 DEF EventOf
  <2>2. CASE \E c \in inbox : c.to = w /\ job'[w] = NewJob(c)
    BY <1>1, <1>2, <2>2 DEF CopiesOK, NewJob
  <2>3. QED
    BY <1>4, <2>1, <2>2, NextHolds DEF Holds
<1>5. QED
  BY <1>3, <1>4 DEF CopiesOK, EventOf

(* So every reachable state satisfies both.                                *)
LEMMA CopiesHold == Spec => [](Inv /\ CopiesOK)
<1>1. Init => Inv /\ CopiesOK
  BY InitInv, InitCopies
<1>2. Inv /\ CopiesOK /\ [Next]_vars => (Inv /\ CopiesOK)'
  BY NextInv, NextCopiesOK
<1>3. QED
  BY <1>1, <1>2, PTL DEF Spec

-----------------------------------------------------------------------------
(* The theorems. *)

(* Every reachable state satisfies the inductive invariant, whatever the   *)
(* faults, the replicas and the events.                                    *)
THEOREM InvHolds == Spec => []Inv
<1>1. Init => Inv
  BY InitInv
<1>2. Inv /\ [Next]_vars => Inv'
  BY NextInv
<1>3. QED
  BY <1>1, <1>2, PTL DEF Spec

(* Type correctness. *)
THEOREM TypeCorrect == Spec => []TypeOK
<1>1. Inv => TypeOK
  BY DEF Inv
<1>2. QED
  BY <1>1, InvHolds, PTL

(* No CHECK clause of the table ever refuses an update whose event carries *)
(* a quantity.                                                             *)
THEOREM UpdatesAreAccepted == Spec => []UpdatesKeepCheck
<1>1. Inv => UpdatesKeepCheck
  BY DEF Inv, WorkerOK, UpdatesKeepCheck
<1>2. QED
  BY <1>1, InvHolds, PTL

(* The table satisfies its CHECK clauses in every state. *)
THEOREM TableIsConsistent == Spec => []TableKeepsCheck
<1>1. Inv => TableKeepsCheck
  BY DEF Inv
<1>2. QED
  BY <1>1, InvHolds, PTL

(* Every announced reservation was committed before it was announced. *)
THEOREM ReservationsAreStored == Spec => []AnnouncedAreStored
<1>1. Inv => AnnouncedAreStored
  BY DEF Inv
<1>2. QED
  BY <1>1, InvHolds, PTL

-----------------------------------------------------------------------------
(* How an event may leave its stream, under every fault the property       *)
(* allows: an order that was handled was answered, and an event is put     *)
(* aside only when it is malformed or failed at its last delivery.         *)

(* The stages that follow an answer to an order. *)
AnsweredStages == {"updated", "mark", "ack"}

AnswerNow(w) ==
  \E n \in events' : /\ n.msg = job[w].msg
                     /\ n.subject \in {"InventoryReserved", "InventoryReservationFailed"}

(* What a step of a callback does to its stage, the events and the marks:  *)
(* an order reaches an answered stage by its answer or by an earlier mark, *)
(* and a message is buried by a failure at the last delivery or a panic.   *)
StageMove(w) ==
  /\ \A v \in Workers \ {w} : pc'[v] = pc[v] /\ job'[v] = job[v]
  /\ pc'[w] = "bury" => job[w].attempt >= MaxDeliver \/ Panic(w)
  /\ pc'[w] \in AnsweredStages /\ w[2] = "OrderPlaced" =>
       \/ pc[w] \in AnsweredStages
       \/ pc'[w] = "ack" /\ EventOf(w).id \in marked
       \/ AnswerNow(w)
  /\ events \subseteq events'
  /\ \/ marked' = marked
     \/ pc[w] = "mark" /\ marked' = marked \cup {EventOf(w).id}
  /\ dlq' = dlq \/ (pc[w] = "bury" /\ dlq' = dlq \cup {job[w].msg})

(* A step that goes to a stage nothing is asked of.                        *)
LEMMA QuietMove ==
  ASSUME Inv, NEW w \in Workers, UNCHANGED <<events, marked, dlq>>,
         \/ \E stage \in Stages \ (AnsweredStages \cup {"bury"}) : Goto(w, stage)
         \/ Goto(w, Failed(w))
         \/ \E row : GotoWith(w, "update", row)
         \/ Finish(w)
  PROVE  StageMove(w)
<1>1. Failed(w) \in {"bury", "nak"} /\ (Failed(w) = "bury" => job[w].attempt >= MaxDeliver)
  BY DEF Failed
<1>2. pc \in [Workers -> Stages] /\ job \in [Workers -> Jobs]
  BY DEF Inv, TypeOK
<1>3. CASE \E stage \in Stages \ (AnsweredStages \cup {"bury"}) : Goto(w, stage)
  BY <1>2, <1>3 DEF Goto, StageMove
<1>4. CASE Goto(w, Failed(w))
  BY <1>1, <1>2, <1>4 DEF Goto, StageMove, AnsweredStages
<1>5. CASE (\E row : GotoWith(w, "update", row)) \/ Finish(w)
  BY <1>2, <1>5 DEF GotoWith, Finish, StageMove, AnsweredStages
<1>6. QED
  BY <1>3, <1>4, <1>5

(* A publication leads to an answered stage with the event in the stream,  *)
(* or fails.                                                               *)
LEMMA AnnounceMove ==
  ASSUME Inv, NEW w \in Workers, NEW subject, NEW about,
         NEW next \in {"updated", Done(w)},
         Announce(w, Notice(w, subject, about), next),
         \/ subject \in {"InventoryReserved", "InventoryReservationFailed"}
         \/ pc[w] \in AnsweredStages
  PROVE  StageMove(w)
<1> DEFINE notice == Notice(w, subject, about)
<1>1. pc \in [Workers -> Stages] /\ job \in [Workers -> Jobs]
  BY DEF Inv, TypeOK
<1>2. UNCHANGED <<marked, dlq>> /\ events \subseteq events'
  BY DEF Announce, storeVars
<1>3. Failed(w) \in {"bury", "nak"} /\ (Failed(w) = "bury" => job[w].attempt >= MaxDeliver)
  BY DEF Failed
<1>4. CASE events' = events \cup {notice} /\ Goto(w, next)
  <2>1. next # "bury"
    BY NextStages
  <2>2. notice \in events' /\ notice.msg = job[w].msg /\ notice.subject = subject
    BY <1>4 DEF Notice
  <2>3. AnswerNow(w) \/ pc[w] \in AnsweredStages
    BY <2>2 DEF AnswerNow
  <2>4. pc'[w] = next /\ \A v \in Workers \ {w} : pc'[v] = pc[v] /\ job'[v] = job[v]
    BY <1>1, <1>4 DEF Goto
  <2>5. QED
    BY <1>2, <2>1, <2>3, <2>4 DEF StageMove
<1>5. CASE Goto(w, Failed(w))
  BY <1>1, <1>2, <1>3, <1>5 DEF Goto, StageMove, AnsweredStages
<1>6. QED
  BY <1>4, <1>5 DEF Announce

(* Every step of a callback moves so.                                      *)
LEMMA StepMoves ==
  ASSUME Inv, NEW w \in Workers, Step(w)
  PROVE  StageMove(w)
<1> USE DEF At
<1>1. pc \in [Workers -> Stages] /\ job \in [Workers -> Jobs]
  BY DEF Inv, TypeOK
<1>2. CASE CheckSeen(w)
  <2>1. UNCHANGED <<events, marked, dlq>>
    BY <1>2 DEF CheckSeen, storeVars, outputVars
  <2>2. PICK stage \in {"ack", "readCache"} :
          Goto(w, stage) /\ (stage = "ack" => EventOf(w).id \in marked)
    BY <1>2 DEF CheckSeen
  <2>3. pc'[w] = stage /\ \A v \in Workers \ {w} : pc'[v] = pc[v] /\ job'[v] = job[v]
    BY <1>1, <2>2 DEF Goto
  <2>4. QED
    BY <2>1, <2>2, <2>3 DEF StageMove, AnsweredStages
<1>3. CASE ReadCache(w) \/ FillCache(w)
  <2>1. /\ UNCHANGED <<events, marked, dlq>>
        /\ \E stage \in Stages \ (AnsweredStages \cup {"bury"}) : Goto(w, stage)
    BY <1>3 DEF ReadCache, FillCache, storeVars, outputVars, Stages, AnsweredStages
  <2>2. QED
    BY <2>1, QuietMove
<1>4. CASE ReadTable(w)
  <2>1. UNCHANGED <<events, marked, dlq>>
    BY <1>4 DEF ReadTable, storeVars, outputVars
  <2>2. CASE Goto(w, Failed(w))
    BY <2>1, <2>2, QuietMove
  <2>3. CASE ~Goto(w, Failed(w))
    BY <1>1, <1>4, <2>1, <2>3 DEF ReadTable, StageMove, AnsweredStages
  <2>4. QED
    BY <2>2, <2>3
<1>5. CASE HandleOrderPlaced(w) \/ HandleOrderCancelled(w) \/ HandleOrderShipped(w)
           \/ HandleShipmentCreated(w) \/ HandleShipmentDelivered(w)
           \/ HandleShipmentCancelled(w)
  <2>1. UNCHANGED <<events, marked, dlq>>
    BY <1>5 DEF HandleOrderPlaced, HandleOrderCancelled, HandleOrderShipped,
       HandleShipmentCreated, HandleShipmentDelivered, HandleShipmentCancelled,
       Decided, storeVars, outputVars
  <2>2. \/ Goto(w, "refused")
        \/ \E row : GotoWith(w, "update", row)
        \/ w[2] # "OrderPlaced" /\ \E stage \in {"updated", Done(w)} : Goto(w, stage)
    BY <1>5 DEF HandleOrderPlaced, HandleOrderCancelled, HandleOrderShipped,
       HandleShipmentCreated, HandleShipmentDelivered, HandleShipmentCancelled, Handle
  <2>3. CASE w[2] # "OrderPlaced" /\ \E stage \in {"updated", Done(w)} : Goto(w, stage)
    <3>1. PICK stage \in {"updated", Done(w)} : Goto(w, stage)
      BY <2>3
    <3>2. stage # "bury"
      BY NextStages
    <3>3. pc'[w] = stage /\ \A v \in Workers \ {w} : pc'[v] = pc[v] /\ job'[v] = job[v]
      BY <1>1, <3>1 DEF Goto
    <3>4. QED
      BY <2>1, <2>3, <3>2, <3>3 DEF StageMove
  <2>4. "refused" \in Stages \ (AnsweredStages \cup {"bury"})
    BY DEF Stages, AnsweredStages
  <2>5. QED
    BY <2>1, <2>2, <2>3, <2>4, QuietMove
<1>6. CASE Update(w)
  <2>1. /\ UNCHANGED <<events, marked, dlq>>
        /\ Goto(w, "evict") \/ Goto(w, Failed(w))
    BY <1>6 DEF Update, outputVars
  <2>2. "evict" \in Stages \ (AnsweredStages \cup {"bury"})
    BY DEF Stages, AnsweredStages
  <2>3. QED
    BY <2>1, <2>2, QuietMove
<1>7. CASE Evict(w)
  <2>1. /\ UNCHANGED <<events, marked, dlq>>
        /\ Goto(w, AfterUpdate(w)) \/ Goto(w, Failed(w))
    BY <1>7 DEF Evict, outputVars
  <2>2. CASE w[2] = "OrderPlaced"
    <3>1. AfterUpdate(w) \in Stages \ (AnsweredStages \cup {"bury"})
      BY <2>2 DEF Stages, AnsweredStages, AfterUpdate
    <3>2. QED
      BY <2>1, <3>1, QuietMove
  <2>3. CASE w[2] # "OrderPlaced" /\ Goto(w, AfterUpdate(w))
    <3>1. pc'[w] = "updated" /\ \A v \in Workers \ {w} : pc'[v] = pc[v] /\ job'[v] = job[v]
      BY <1>1, <2>3 DEF Goto, AfterUpdate
    <3>2. QED
      BY <2>1, <2>3, <3>1 DEF StageMove
  <2>4. QED
    BY <2>1, <2>2, <2>3, QuietMove
<1>8. CASE PublishReserved(w) \/ PublishUpdated(w) \/ PublishRefused(w)
  <2>1. CASE PublishReserved(w)
    BY <2>1, AnnounceMove DEF PublishReserved
  <2>2. CASE PublishUpdated(w)
    <3>1. pc[w] \in AnsweredStages
      BY <2>2 DEF PublishUpdated, AnsweredStages
    <3>2. QED
      BY <2>2, <3>1, AnnounceMove DEF PublishUpdated
  <2>3. CASE PublishRefused(w)
    BY <2>3, AnnounceMove DEF PublishRefused
  <2>4. QED
    BY <1>8, <2>1, <2>2, <2>3
<1>9. CASE Mark(w)
  <2>1. /\ pc[w] = "mark" /\ UNCHANGED <<events, dlq>>
        /\ marked' \in {marked, marked \cup {EventOf(w).id}}
        /\ Goto(w, "ack") \/ Goto(w, Failed(w))
    BY <1>9 DEF Mark, outputVars
  <2>2. Failed(w) \in {"bury", "nak"} /\ (Failed(w) = "bury" => job[w].attempt >= MaxDeliver)
    BY DEF Failed
  <2>3. /\ pc'[w] = "ack" \/ pc'[w] = Failed(w)
        /\ \A v \in Workers \ {w} : pc'[v] = pc[v] /\ job'[v] = job[v]
    BY <1>1, <2>1 DEF Goto
  <2>4. QED
    BY <2>1, <2>2, <2>3 DEF StageMove, AnsweredStages
<1>10. CASE Ack(w) \/ Nak(w) \/ Term(w)
  BY <1>10, QuietMove DEF Ack, Nak, Term, Answered, storeVars, outputVars
<1>11. CASE PublishDLQ(w)
  <2>1. /\ pc[w] = "bury" /\ UNCHANGED <<events, marked>> /\ Goto(w, "term")
        /\ dlq' = dlq \cup {job[w].msg} \/ dlq' = dlq
    BY <1>11 DEF PublishDLQ, storeVars
  <2>2. pc'[w] = "term" /\ \A v \in Workers \ {w} : pc'[v] = pc[v] /\ job'[v] = job[v]
    BY <1>1, <2>1 DEF Goto
  <2>3. QED
    BY <2>1, <2>2 DEF StageMove, AnsweredStages
<1>12. CASE Panic(w)
  <2>1. UNCHANGED <<events, marked, dlq>> /\ Goto(w, "bury")
    BY <1>12 DEF Panic, storeVars, outputVars
  <2>2. pc'[w] = "bury" /\ \A v \in Workers \ {w} : pc'[v] = pc[v] /\ job'[v] = job[v]
    BY <1>1, <2>1 DEF Goto
  <2>3. QED
    BY <1>12, <2>1, <2>2 DEF StageMove, AnsweredStages
<1>13. QED
  BY <1>2, <1>3, <1>4, <1>5, <1>6, <1>7, <1>8, <1>9, <1>10, <1>11, <1>12 DEF Step

(* The rest of the system: it leaves what was published and copied, and    *)
(* forgets marks at most.                                                  *)
LEMMA OthersMove ==
  ASSUME Inv, [Next]_vars, ~(\E w \in Workers : Step(w))
  PROVE  /\ UNCHANGED <<events, dlq>> /\ marked' \subseteq marked
         /\ \A v \in Workers : \/ pc'[v] = "idle"
                               \/ pc'[v] = pc[v] /\ job'[v] = job[v]
                               \/ Take(v)
         /\ \A m \in Msgs : Settled(m)' => Settled(m) /\ status'[m] = status[m]
<1>1. ASSUME NEW w \in Workers, Take(w)
      PROVE  /\ UNCHANGED <<events, dlq, marked, status>>
             /\ \A v \in Workers \ {w} : pc'[v] = pc[v] /\ job'[v] = job[v]
  BY <1>1 DEF Take, storeVars, outputVars, Inv, TypeOK
<1>2. ASSUME NEW w \in Workers, Deliver(w)
      PROVE  /\ UNCHANGED <<events, dlq, marked, pc, job>>
             /\ \A m \in Msgs : Settled(m)' => Settled(m) /\ status'[m] = status[m]
  BY <1>2 DEF Deliver, Push, Settled, storeVars, outputVars, Inv, TypeOK
<1>3. ASSUME NEW i \in Instances, Crash(i)
      PROVE  /\ UNCHANGED <<events, dlq, marked, status>>
             /\ \A v \in Workers : pc'[v] = "idle" \/ (pc'[v] = pc[v] /\ job'[v] = job[v])
  BY <1>3 DEF Crash, storeVars, outputVars
<1>4. ASSUME NEW m \in Msgs, AckWait(m)
      PROVE  /\ UNCHANGED <<events, dlq, marked, pc, job>>
             /\ \A n \in Msgs : Settled(n)' => Settled(n) /\ status'[n] = status[n]
  BY <1>4 DEF AckWait, Requeue, Settled, storeVars, outputVars, Inv, TypeOK
<1>5. ASSUME NEW id \in Ids, ForgetMark(id)
      PROVE  UNCHANGED <<events, dlq, status, pc, job>> /\ marked' \subseteq marked
  BY <1>5 DEF ForgetMark, consumerVars, outputVars
<1>6. UNCHANGED vars => UNCHANGED <<events, dlq, marked, status, pc, job>>
  BY DEF vars, consumerVars, storeVars, outputVars
<1>7. UNCHANGED status => \A m \in Msgs : Settled(m)' => Settled(m) /\ status'[m] = status[m]
  BY DEF Settled
<1>8. QED
  BY <1>1, <1>2, <1>3, <1>4, <1>5, <1>6, <1>7 DEF Next

-----------------------------------------------------------------------------
(* What is put aside. *)

NoPanic == "panic" \notin Faults

(* What is about to be copied is malformed or was delivered for the last   *)
(* time.                                                                   *)
AboutToBury ==
  \A w \in Workers :
    pc[w] = "bury" => job[w].msg \in Malformed \/ job[w].attempt = MaxDeliver

(* Nothing is put aside at the start.                                      *)
LEMMA InitBuried == Init => AboutToBury /\ BuriedOnlyWhenExhausted
BY DEF Init, AboutToBury, BuriedOnlyWhenExhausted

(* Every step keeps it so: the handler's failures lead there only at the   *)
(* last delivery, and the server's count is not behind the copy's.         *)
LEMMA NextBuried ==
  ASSUME NoPanic, Inv, CopiesOK, [Next]_vars, AboutToBury, BuriedOnlyWhenExhausted
  PROVE  AboutToBury' /\ BuriedOnlyWhenExhausted'
<1>1. /\ \A m \in Msgs : deliveries[m] \in 0..MaxDeliver /\ deliveries'[m] \in 0..MaxDeliver
      /\ \A m \in Msgs : deliveries'[m] >= deliveries[m]
  <2>1. TypeOK /\ TypeOK'
    BY NextInv DEF Inv
  <2>2. QED
    BY <2>1, NextCopies DEF TypeOK
<1>2. dlq \subseteq Msgs
  BY DEF Inv, TypeOK
<1>3. MaxDeliver \in Nat
  BY MaxDeliverAssumption
<1>4. CASE \E w \in Workers : Step(w)
  <2>1. PICK w \in Workers : Step(w)
    BY <1>4
  <2>2. StageMove(w) /\ Holds(w)
    BY <2>1, StepMoves, StepHolds
  <2>3. ~Panic(w)
    BY DEF Panic, Fault, NoPanic
  <2>4. AboutToBury'
    <3>1. ASSUME pc'[w] = "bury" PROVE job'[w].attempt = MaxDeliver
      <4>1. job[w].attempt >= MaxDeliver /\ pc[w] # "idle"
        BY <2>1, <2>2, <2>3, <3>1 DEF StageMove, Step, CheckSeen, ReadCache, ReadTable,
           FillCache, HandleOrderPlaced, HandleOrderCancelled, HandleOrderShipped,
           HandleShipmentCreated, HandleShipmentDelivered, HandleShipmentCancelled, Handle,
           Update, Evict, PublishReserved, PublishUpdated, PublishRefused, Mark, Ack, Nak,
           PublishDLQ, Term, At
      <4>2. job'[w].attempt = job[w].attempt /\ job[w].attempt \in 1..MaxDeliver
        BY <2>2, <3>1, <4>1, BusyWorker DEF Holds, Jobs
      <4>3. QED
        BY <1>3, <4>1, <4>2
    <3>2. QED
      BY <2>2, <3>1 DEF StageMove, AboutToBury
  <2>5. BuriedOnlyWhenExhausted'
    <3> SUFFICES ASSUME NEW m \in dlq'
                 PROVE  m \in Malformed \/ deliveries'[m] = MaxDeliver
      BY DEF BuriedOnlyWhenExhausted
    <3>1. CASE m \in dlq
      BY <1>1, <1>2, <1>3, <3>1 DEF BuriedOnlyWhenExhausted
    <3>2. CASE m \notin dlq
      <4>1. pc[w] = "bury" /\ m = job[w].msg
        BY <2>2, <3>2 DEF StageMove
      <4>2. m \in Msgs /\ job[w].attempt \in Nat /\ job[w].attempt <= deliveries[m]
        BY <4>1, BusyWorker DEF Jobs, CopiesOK
      <4>3. m \in Malformed \/ job[w].attempt = MaxDeliver
        BY <4>1 DEF AboutToBury
      <4>4. QED
        BY <1>1, <1>3, <4>2, <4>3
    <3>3. QED
      BY <3>1, <3>2
  <2>6. QED
    BY <2>4, <2>5
<1>5. CASE ~\E w \in Workers : Step(w)
  <2>1. AboutToBury'
    <3> SUFFICES ASSUME NEW w \in Workers, pc'[w] = "bury"
                 PROVE  job'[w].msg \in Malformed \/ job'[w].attempt = MaxDeliver
      BY DEF AboutToBury
    <3>1. CASE Take(w)
      <4>1. PICK c \in inbox : pc' = [pc EXCEPT ![w] = Entry(c.msg)]
                            /\ job' = [job EXCEPT ![w] = NewJob(c)]
        BY <3>1 DEF Take
      <4>2. pc'[w] = Entry(c.msg) /\ job'[w].msg = c.msg
        BY <4>1 DEF Inv, TypeOK, NewJob
      <4>3. QED
        BY <4>2 DEF Entry
    <3>2. CASE pc'[w] = pc[w] /\ job'[w] = job[w]
      BY <3>2 DEF AboutToBury
    <3>3. QED
      BY <1>5, <3>1, <3>2, OthersMove
  <2>2. BuriedOnlyWhenExhausted'
    BY <1>1, <1>2, <1>3, <1>5, OthersMove DEF BuriedOnlyWhenExhausted
  <2>3. QED
    BY <2>1, <2>2
<1>6. QED
  BY <1>4, <1>5

(* As long as no handler panics, only a malformed event, or one that       *)
(* failed at its last delivery, gets to a dead letter subject: whatever    *)
(* crashes, is redelivered early or lost.                                  *)
THEOREM OnlyExhaustedAreBuried == NoPanic /\ Spec => []BuriedOnlyWhenExhausted
<1>1. ASSUME NoPanic PROVE Spec => []BuriedOnlyWhenExhausted
  <2>1. Init => AboutToBury /\ BuriedOnlyWhenExhausted
    BY InitBuried
  <2>2. /\ Inv /\ CopiesOK /\ [Next]_vars /\ AboutToBury /\ BuriedOnlyWhenExhausted
        => (AboutToBury /\ BuriedOnlyWhenExhausted)'
    BY <1>1, NextBuried
  <2>3. QED
    BY <2>1, <2>2, CopiesHold, PTL DEF Spec
<1>2. QED
  BY <1>1

-----------------------------------------------------------------------------
(* What is handled. *)

(* Every event of an order is an OrderPlaced. *)
OrdersAreOnlyPlaced ==
  \A m, n \in Msgs :
    SameId(m, n) /\ Event[m].kind = "OrderPlaced" => Event[n].kind = "OrderPlaced"

AnswerOf(m) == Published(m, "InventoryReserved") \/ Published(m, "InventoryReservationFailed")

IsAnswered(m) == \E n \in Msgs : (n = m \/ SameId(m, n)) /\ AnswerOf(n)

(* From the answer on, and once the id is marked, the order is answered.   *)
AnsweredInv ==
  /\ \A w \in Workers, m \in Msgs :
       job[w].msg = m /\ pc[w] \in AnsweredStages /\ w[2] = "OrderPlaced" => IsAnswered(m)
  /\ \A m \in Msgs :
       Event[m].kind = "OrderPlaced" /\ Event[m].id \in marked => IsAnswered(m)

(* Answers are never taken back.                                           *)
LEMMA AnswersStay ==
  ASSUME NEW m, IsAnswered(m), events \subseteq events'
  PROVE  IsAnswered(m)'
BY DEF IsAnswered, AnswerOf, Published

(* Every event of an answered order is answered.                           *)
LEMMA SameOrder ==
  ASSUME NEW m \in Msgs, NEW n \in Msgs, SameId(m, n), IsAnswered(n)
  PROVE  IsAnswered(m)
BY DEF IsAnswered, SameId

(* Nothing is marked or acknowledged at the start.                         *)
LEMMA InitAnswered == Init => AnsweredInv /\ HandledIsAnswered
BY DEF Init, ConsumerInit, AnsweredInv, HandledIsAnswered, AnsweredStages

(* A step of a callback keeps the order answered that it marks.            *)
LEMMA StepAnswered ==
  ASSUME OrdersAreOnlyPlaced, Inv, CopiesOK, NEW w \in Workers, Step(w),
         AnsweredInv, HandledIsAnswered
  PROVE  AnsweredInv' /\ HandledIsAnswered'
<1>1. StageMove(w) /\ (\A v \in Workers : Holds(v))
  BY StepMoves, StepHolds
<1>2. events \subseteq events'
  BY <1>1 DEF StageMove
<1>3. pc[w] # "idle" /\ job[w].msg \in Msgs /\ EventOf(w).kind = w[2]
  <2>1. pc[w] # "idle"
    BY DEF Step, CheckSeen, ReadCache, ReadTable,
       FillCache, HandleOrderPlaced, HandleOrderCancelled, HandleOrderShipped,
       HandleShipmentCreated, HandleShipmentDelivered, HandleShipmentCancelled, Handle,
       Update, Evict, PublishReserved, PublishUpdated, PublishRefused, Mark, Ack, Nak,
       PublishDLQ, Term, Panic, Handling, At
  <2>2. QED
    BY <2>1, BusyWorker DEF CopiesOK
<1>4. ASSUME NEW m \in Msgs, job'[w].msg = m, pc'[w] \in AnsweredStages,
             w[2] = "OrderPlaced"
      PROVE  IsAnswered(m)'
  <2>1. m = job[w].msg
    BY <1>1, <1>3, <1>4 DEF Holds, AnsweredStages
  <2>2. CASE pc[w] \in AnsweredStages
    <3>1. IsAnswered(m)
      BY <1>4, <2>1, <2>2 DEF AnsweredInv
    <3>2. QED
      BY <1>2, <3>1, AnswersStay
  <2>3. CASE EventOf(w).id \in marked
    <3>1. IsAnswered(m)
      BY <1>3, <1>4, <2>1, <2>3 DEF AnsweredInv, EventOf
    <3>2. QED
      BY <1>2, <3>1, AnswersStay
  <2>4. CASE AnswerNow(w)
    BY <1>3, <2>1, <2>4 DEF AnswerNow, IsAnswered, AnswerOf, Published
  <2>5. QED
    BY <1>1, <1>4, <2>2, <2>3, <2>4 DEF StageMove
<1>5. ASSUME NEW v \in Workers, NEW m \in Msgs, job'[v].msg = m,
             pc'[v] \in AnsweredStages, v[2] = "OrderPlaced"
      PROVE  IsAnswered(m)'
  <2>1. CASE v = w
    BY <1>4, <1>5, <2>1
  <2>2. CASE v # w
    <3>1. pc'[v] = pc[v] /\ job'[v] = job[v]
      BY <1>1, <2>2 DEF StageMove
    <3>2. IsAnswered(m)
      BY <1>5, <3>1 DEF AnsweredInv
    <3>3. QED
      BY <1>2, <3>2, AnswersStay
  <2>3. QED
    BY <2>1, <2>2
<1>6. \A m \in Msgs :
        Event[m].kind = "OrderPlaced" /\ Event[m].id \in marked' => IsAnswered(m)'
  <2> SUFFICES ASSUME NEW m \in Msgs, Event[m].kind = "OrderPlaced", Event[m].id \in marked'
               PROVE  IsAnswered(m)'
    OBVIOUS
  <2>1. CASE Event[m].id \in marked
    BY <1>2, <2>1, AnswersStay DEF AnsweredInv
  <2>2. CASE Event[m].id \notin marked
    <3>1. pc[w] = "mark" /\ Event[m].id = EventOf(w).id
      BY <1>1, <2>2 DEF StageMove
    <3>2. EventOf(w).id # NoId
      BY <3>1 DEF Inv, WorkerOK, MarkHasId
    <3>3. SameId(m, job[w].msg)
      BY <3>1, <3>2 DEF SameId, EventOf
    <3>4. w[2] = "OrderPlaced"
      BY <1>3, <3>3 DEF OrdersAreOnlyPlaced, EventOf
    <3>5. IsAnswered(job[w].msg)
      BY <1>3, <3>1, <3>4 DEF AnsweredInv, AnsweredStages
    <3>6. IsAnswered(m)
      BY <1>3, <3>3, <3>5, SameOrder
    <3>7. QED
      BY <1>2, <3>6, AnswersStay
  <2>3. QED
    BY <2>1, <2>2
<1>7. HandledIsAnswered'
  <2> SUFFICES ASSUME NEW m \in Msgs, Event[m].kind = "OrderPlaced", status'[m] = "acked"
               PROVE  IsAnswered(m)'
    BY DEF HandledIsAnswered, IsAnswered, AnswerOf
  <2>1. CASE status[m] = "acked"
    BY <1>2, <2>1, AnswersStay DEF HandledIsAnswered, IsAnswered, AnswerOf
  <2>2. CASE status[m] # "acked"
    <3>1. Ack(w) /\ m = job[w].msg
      <4>1. Ack(w) \/ Nak(w) \/ Term(w)
        BY <2>2, StepHolds
      <4>2. CASE Nak(w)
        BY <2>2, <4>2 DEF Nak, Requeue, Lost, consumerVars, Inv, TypeOK
      <4>3. CASE Term(w)
        BY <2>2, <4>3 DEF Term, Settle, Lost, consumerVars, Inv, TypeOK
      <4>4. CASE Ack(w)
        BY <2>2, <4>4 DEF Ack, Settle, Lost, consumerVars, Inv, TypeOK
      <4>5. QED
        BY <4>1, <4>2, <4>3, <4>4
    <3>2. pc[w] = "ack" /\ w[2] = "OrderPlaced"
      BY <1>3, <3>1 DEF Ack, At, EventOf
    <3>3. IsAnswered(m)
      BY <3>1, <3>2 DEF AnsweredInv, AnsweredStages
    <3>4. QED
      BY <1>2, <3>3, AnswersStay
  <2>3. QED
    BY <2>1, <2>2
<1>8. QED
  BY <1>5, <1>6, <1>7 DEF AnsweredInv

(* So does the rest of the system, which marks and publishes nothing.      *)
LEMMA NextAnswered ==
  ASSUME OrdersAreOnlyPlaced, Inv, CopiesOK, [Next]_vars, AnsweredInv, HandledIsAnswered
  PROVE  AnsweredInv' /\ HandledIsAnswered'
<1>1. CASE \E w \in Workers : Step(w)
  BY <1>1, StepAnswered
<1>2. CASE ~\E w \in Workers : Step(w)
  <2>1. events \subseteq events' /\ marked' \subseteq marked
    BY <1>2, OthersMove
  <2>2. ASSUME NEW w \in Workers, NEW m \in Msgs, job'[w].msg = m,
               pc'[w] \in AnsweredStages, w[2] = "OrderPlaced"
        PROVE  IsAnswered(m)'
    <3>1. ~Take(w)
      <4>1. ASSUME Take(w) PROVE FALSE
        <5>1. PICK c \in inbox : pc' = [pc EXCEPT ![w] = Entry(c.msg)]
          BY <4>1 DEF Take
        <5>2. pc'[w] = Entry(c.msg)
          BY <5>1 DEF Inv, TypeOK
        <5>3. QED
          BY <2>2, <5>2 DEF Entry, AnsweredStages
      <4>2. QED
        BY <4>1
    <3>2. pc'[w] = pc[w] /\ job'[w] = job[w]
      BY <1>2, <2>2, <3>1, OthersMove DEF AnsweredStages
    <3>3. IsAnswered(m)
      BY <2>2, <3>2 DEF AnsweredInv
    <3>4. QED
      BY <2>1, <3>3, AnswersStay
  <2>3. \A m \in Msgs :
          Event[m].kind = "OrderPlaced" /\ Event[m].id \in marked' => IsAnswered(m)'
    BY <2>1, AnswersStay DEF AnsweredInv
  <2>4. ASSUME NEW m \in Msgs, Event[m].kind = "OrderPlaced", status'[m] = "acked"
        PROVE  IsAnswered(m)'
    <3>1. status[m] = "acked"
      BY <1>2, <2>4, OthersMove DEF Settled
    <3>2. IsAnswered(m)
      BY <2>4, <3>1 DEF HandledIsAnswered, IsAnswered, AnswerOf
    <3>3. QED
      BY <2>1, <3>2, AnswersStay
  <2>5. QED
    BY <2>2, <2>3, <2>4 DEF AnsweredInv, HandledIsAnswered, IsAnswered, AnswerOf
<1>3. QED
  BY <1>1, <1>2

(* An order that left its stream as handled was answered: whatever         *)
(* crashes, fails, expires or is repeated, on any number of replicas.      *)
THEOREM HandledOrdersAreAnswered == OrdersAreOnlyPlaced /\ Spec => []HandledIsAnswered
<1>1. ASSUME OrdersAreOnlyPlaced PROVE Spec => []HandledIsAnswered
  <2>1. Init => AnsweredInv /\ HandledIsAnswered
    BY InitAnswered
  <2>2. /\ Inv /\ CopiesOK /\ [Next]_vars /\ AnsweredInv /\ HandledIsAnswered
        => (AnsweredInv /\ HandledIsAnswered)'
    BY <1>1, NextAnswered
  <2>3. QED
    BY <2>1, <2>2, CopiesHold, PTL DEF Spec
<1>2. QED
  BY <1>1
=============================================================================
