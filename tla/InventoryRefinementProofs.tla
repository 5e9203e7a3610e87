---------------------- MODULE InventoryRefinementProofs ----------------------
(***************************************************************************)
(* The service implements EventHandling: as long as no dead letter is      *)
(* lost, an event leaves its stream only recorded as handled or copied to  *)
(* a dead letter subject, and never comes back.  And with one writer for   *)
(* each row it implements StockLedger: no update of a row is lost, and the *)
(* reserved quantity covers what was announced.                            *)
(***************************************************************************)
EXTENDS InventoryServiceProofs, FiniteSetTheorems, WellFoundedInduction

(* What a worker terminates has been copied. *)
TermIsCopied == \A w \in Workers : pc[w] = "term" => job[w].msg \in dlq

NoDeadLetterLost == "publish" \notin Faults

Outcome == [m \in Msgs |-> IF status[m] = "acked" THEN "handled"
                           ELSE IF status[m] = "termed" THEN "dead" ELSE "open"]

(* The steps of the service that EventHandling does not see. *)
Unseen == UNCHANGED <<status, marked, dlq>>

(* A worker's step is unseen unless it marks, answers or buries.           *)
LEMMA UnseenSteps ==
  ASSUME NEW w \in Workers, Take(w) \/ Step(w)
  PROVE  Unseen \/ Mark(w) \/ Ack(w) \/ Nak(w) \/ Term(w) \/ PublishDLQ(w)
<1>1. Take(w) => Unseen
  BY DEF Take, Unseen, storeVars, outputVars
<1>2. CheckSeen(w) \/ ReadCache(w) \/ ReadTable(w) \/ FillCache(w) => Unseen
  BY DEF CheckSeen, ReadCache, ReadTable, FillCache, Unseen, consumerVars, storeVars, outputVars
<1>3. \/ HandleOrderPlaced(w) \/ HandleOrderCancelled(w) \/ HandleOrderShipped(w)
      \/ HandleShipmentCreated(w) \/ HandleShipmentDelivered(w)
      \/ HandleShipmentCancelled(w)
      => Unseen
  BY DEF HandleOrderPlaced, HandleOrderCancelled, HandleOrderShipped,
     HandleShipmentCreated, HandleShipmentDelivered, HandleShipmentCancelled,
     Decided, Unseen, consumerVars, storeVars, outputVars
<1>4. Update(w) \/ Evict(w) \/ Panic(w) => Unseen
  BY DEF Update, Evict, Panic, Unseen, consumerVars, storeVars, outputVars
<1>5. PublishReserved(w) \/ PublishUpdated(w) \/ PublishRefused(w) => Unseen
  BY DEF PublishReserved, PublishUpdated, PublishRefused, Announce, Unseen,
     consumerVars, storeVars
<1>6. QED
  BY <1>1, <1>2, <1>3, <1>4, <1>5 DEF Step

-----------------------------------------------------------------------------
(* No worker is about to terminate a message at the start.                 *)
LEMMA InitTermIsCopied == Init => TermIsCopied
BY DEF Init, TermIsCopied

(* Only PublishDLQ leads to "term", after the copy. *)
MovesElsewhere(w) ==
  /\ dlq' = dlq
  /\ \E stage \in Stages \ {"term"} : pc' = [pc EXCEPT ![w] = stage]
  /\ \A v \in Workers \ {w} : job'[v] = job[v]

(* Every step but the publication of a dead letter leads away from, or     *)
(* stays out of, the stage before Term.                                    *)
LEMMA OthersMoveElsewhere ==
  ASSUME Inv, NEW w \in Workers, Take(w) \/ Step(w), ~PublishDLQ(w)
  PROVE  MovesElsewhere(w)
<1>1. ASSUME NEW stage \in Stages \ {"term"}, Goto(w, stage), dlq' = dlq
      PROVE  MovesElsewhere(w)
  BY <1>1 DEF MovesElsewhere, Goto
<1>2. ASSUME NEW row, GotoWith(w, "update", row), dlq' = dlq
      PROVE  MovesElsewhere(w)
  BY <1>2 DEF MovesElsewhere, GotoWith, Stages, Inv, TypeOK
<1>3. ASSUME Finish(w), dlq' = dlq PROVE MovesElsewhere(w)
  BY <1>3 DEF MovesElsewhere, Finish, Stages, Inv, TypeOK
<1>4. Failed(w) \in Stages \ {"term"} /\ Done(w) \in Stages \ {"term"}
  BY NextStages DEF Stages
<1>5. CASE Take(w)
  <2>1. dlq' = dlq
    BY <1>5 DEF Take, outputVars
  <2>2. PICK c \in inbox : pc' = [pc EXCEPT ![w] = Entry(c.msg)]
                         /\ job' = [job EXCEPT ![w] = NewJob(c)]
    BY <1>5 DEF Take
  <2>3. Entry(c.msg) \in Stages \ {"term"}
    BY DEF Entry, Stages
  <2>4. QED
    BY <2>1, <2>2, <2>3 DEF MovesElsewhere, Inv, TypeOK
<1>6. CASE CheckSeen(w) \/ ReadCache(w) \/ FillCache(w) \/ Panic(w)
  BY <1>1, <1>6 DEF CheckSeen, ReadCache, FillCache, Panic, outputVars, Stages
<1>7. CASE ReadTable(w)
  <2>1. CASE Goto(w, Failed(w))
    BY <1>1, <1>4, <1>7, <2>1 DEF ReadTable, outputVars
  <2>2. CASE ~Goto(w, Failed(w))
    BY <1>7, <2>2 DEF ReadTable, outputVars, MovesElsewhere, Inv, TypeOK, Stages
  <2>3. QED
    BY <2>1, <2>2
<1>8. CASE \/ HandleOrderPlaced(w) \/ HandleOrderCancelled(w) \/ HandleOrderShipped(w)
           \/ HandleShipmentCreated(w) \/ HandleShipmentDelivered(w)
           \/ HandleShipmentCancelled(w)
  <2>1. dlq' = dlq
    BY <1>8 DEF HandleOrderPlaced, HandleOrderCancelled, HandleOrderShipped,
       HandleShipmentCreated, HandleShipmentDelivered, HandleShipmentCancelled,
       Decided, outputVars
  <2>2. \/ \E stage \in {"refused", "updated", Done(w)} : Goto(w, stage)
        \/ \E row \in {Reserve(job[w].row, EventOf(w).qty), Release(job[w].row, EventOf(w).qty),
                       Ship(job[w].row, EventOf(w).qty), Restore(job[w].row, EventOf(w).qty)} :
             GotoWith(w, "update", row)
    BY <1>8 DEF HandleOrderPlaced, HandleOrderCancelled, HandleOrderShipped,
       HandleShipmentCreated, HandleShipmentDelivered, HandleShipmentCancelled
  <2>3. QED
    BY <1>1, <1>2, <1>4, <2>1, <2>2 DEF Stages
<1>9. CASE Update(w) \/ Evict(w) \/ Mark(w)
  <2>1. \E stage \in {"evict", AfterUpdate(w), "ack", Failed(w)} : Goto(w, stage)
    BY <1>9 DEF Update, Evict, Mark
  <2>2. dlq' = dlq
    BY <1>9 DEF Update, Evict, Mark, outputVars
  <2>3. QED
    BY <1>1, <1>4, <2>1, <2>2 DEF AfterUpdate, Stages
<1>10. CASE PublishReserved(w) \/ PublishUpdated(w) \/ PublishRefused(w)
  <2>1. \E stage \in {"updated", Done(w), Failed(w)} : Goto(w, stage)
    BY <1>10 DEF PublishReserved, PublishUpdated, PublishRefused, Announce
  <2>2. dlq' = dlq
    BY <1>10 DEF PublishReserved, PublishUpdated, PublishRefused, Announce
  <2>3. QED
    BY <1>1, <1>4, <2>1, <2>2 DEF Stages
<1>11. CASE Ack(w) \/ Nak(w) \/ Term(w)
  BY <1>3, <1>11 DEF Ack, Nak, Term, Answered, outputVars
<1>12. QED
  BY <1>5, <1>6, <1>7, <1>8, <1>9, <1>10, <1>11 DEF Step

(* TermIsCopied is preserved by every step.                                *)
LEMMA NextTermIsCopied ==
  ASSUME NoDeadLetterLost, Inv, TermIsCopied, [Next]_vars
  PROVE  TermIsCopied'
<1>1. ASSUME NEW w \in Workers, Take(w) \/ Step(w), ~PublishDLQ(w) PROVE TermIsCopied'
  BY <1>1, OthersMoveElsewhere DEF MovesElsewhere, TermIsCopied, Inv, TypeOK
<1>2. ASSUME NEW w \in Workers, PublishDLQ(w) PROVE TermIsCopied'
  <2>1. dlq' = dlq \cup {job[w].msg} /\ Goto(w, "term")
    BY <1>2 DEF PublishDLQ, NoDeadLetterLost, Fault
  <2>2. QED
    BY <2>1 DEF Goto, TermIsCopied, Inv, TypeOK
<1>3. ASSUME NEW w \in Workers, Deliver(w) PROVE TermIsCopied'
  BY <1>3 DEF Deliver, outputVars, TermIsCopied
<1>4. ASSUME NEW i \in Instances, Crash(i) PROVE TermIsCopied'
  BY <1>4 DEF Crash, outputVars, TermIsCopied
<1>5. ASSUME NEW m \in Msgs, AckWait(m) PROVE TermIsCopied'
  BY <1>5 DEF AckWait, outputVars, TermIsCopied
<1>6. ASSUME NEW id \in Ids, ForgetMark(id) PROVE TermIsCopied'
  BY <1>6 DEF ForgetMark, outputVars, TermIsCopied
<1>7. UNCHANGED vars => TermIsCopied'
  BY DEF vars, outputVars, TermIsCopied
<1>8. QED
  BY <1>1, <1>2, <1>3, <1>4, <1>5, <1>6, <1>7 DEF Next

-----------------------------------------------------------------------------
(* The step simulation. *)

(* Settling a message changes its outcome alone.                           *)
LEMMA SettleOutcome ==
  ASSUME TypeOK, NEW m \in Msgs, NEW how \in {"acked", "termed"}, Settle(m, how)
  PROVE  \/ Outcome' = Outcome
         \/ /\ Outcome[m] = "open"
            /\ Outcome' = [Outcome EXCEPT ![m] = IF how = "acked" THEN "handled" ELSE "dead"]
BY DEF TypeOK, Settle, Settled, Outcome

(* The outcomes stay when the server's view of settled messages does.      *)
LEMMA SameOutcome ==
  ASSUME TypeOK, NEW m \in Msgs,
         Requeue(m) \/ (\E s \in Workers : Push(m, s)) \/ UNCHANGED status
  PROVE  Outcome' = Outcome
BY DEF TypeOK, Requeue, Push, Outcome

(* Every step of the service is one of EventHandling, or a stutter.        *)
LEMMA HandlingStep ==
  ASSUME NoDeadLetterLost, Inv, TermIsCopied, [Next]_vars
  PROVE  [Promise!Next]_(Promise!vars)
<1>1. UNCHANGED <<Outcome, marked, dlq>> => UNCHANGED Promise!vars
  BY DEF Promise!vars, Outcome
<1>2. ASSUME Unseen PROVE UNCHANGED Promise!vars
  BY <1>1, <1>2 DEF Unseen, Outcome
<1>3. ASSUME NEW w \in Workers, Mark(w) PROVE [Promise!Next]_(Promise!vars)
  <2>1. EventOf(w).id \in Ids /\ UNCHANGED <<status, dlq>>
    BY <1>3, BusyWorker DEF Mark, At, Inv, WorkerOK, MarkHasId, consumerVars, outputVars
  <2>2. CASE marked' = marked
    BY <1>2, <2>1, <2>2 DEF Unseen
  <2>3. CASE marked' = marked \cup {EventOf(w).id}
    <3>1. Promise!Record(EventOf(w).id)
      BY <2>1, <2>3 DEF Promise!Record
    <3>2. QED
      BY <2>1, <3>1 DEF Promise!Next
  <2>4. QED
    BY <1>3, <2>2, <2>3 DEF Mark
<1>4. ASSUME NEW w \in Workers, Ack(w) PROVE [Promise!Next]_(Promise!vars)
  <2> PICK m \in Msgs : m = job[w].msg
    BY <1>4, BusyWorker DEF Ack, At
  <2>1. /\ m \in Msgs /\ EventOf(w).id \in marked \cup {NoId}
        /\ UNCHANGED <<marked, dlq>>
    BY <1>4 DEF Ack, At, Inv, WorkerOK, AckedIsMarked, Answered, storeVars, outputVars
  <2>2. Settle(m, "acked") \/ UNCHANGED status
    BY <1>4 DEF Ack, Lost, consumerVars
  <2>3. CASE Outcome' = Outcome
    BY <1>1, <2>1, <2>3
  <2>4. CASE Outcome[m] = "open" /\ Outcome' = [Outcome EXCEPT ![m] = "handled"]
    <3>1. [n \in Msgs |-> Event[n].id][m] \in marked \cup {NoId}
      BY <2>1 DEF EventOf
    <3>2. Promise!Complete(m)
      BY <2>1, <2>4, <3>1 DEF Promise!Complete, Outcome
    <3>3. \E n \in Msgs : Promise!Complete(n)
      BY <2>1, <3>2
    <3>4. QED
      BY <3>3 DEF Promise!Next
  <2>5. QED
    BY <2>1, <2>2, <2>3, <2>4, SettleOutcome, SameOutcome DEF Inv
<1>5. ASSUME NEW w \in Workers, Term(w) PROVE [Promise!Next]_(Promise!vars)
  <2> PICK m \in Msgs : m = job[w].msg
    BY <1>5, BusyWorker DEF Term, At
  <2>1. m \in Msgs /\ m \in dlq /\ UNCHANGED <<marked, dlq>>
    BY <1>5 DEF Term, At, TermIsCopied, Answered, storeVars, outputVars
  <2>2. Settle(m, "termed") \/ UNCHANGED status
    BY <1>5 DEF Term, Lost, consumerVars
  <2>3. CASE Outcome' = Outcome
    BY <1>1, <2>1, <2>3
  <2>4. CASE Outcome[m] = "open" /\ Outcome' = [Outcome EXCEPT ![m] = "dead"]
    <3>1. Promise!Dismiss(m)
      BY <2>1, <2>4 DEF Promise!Dismiss, Outcome
    <3>2. \E n \in Msgs : Promise!Dismiss(n)
      BY <2>1, <3>1
    <3>3. QED
      BY <3>2 DEF Promise!Next
  <2>5. QED
    BY <2>1, <2>2, <2>3, <2>4, SettleOutcome, SameOutcome DEF Inv
<1>6. ASSUME NEW w \in Workers, PublishDLQ(w) PROVE [Promise!Next]_(Promise!vars)
  <2>1. /\ job[w].msg \in Msgs /\ UNCHANGED <<status, marked>>
        /\ dlq' = dlq \cup {job[w].msg}
    BY <1>6, BusyWorker DEF PublishDLQ, At, NoDeadLetterLost, Fault, consumerVars, storeVars
  <2>2. Promise!Copy(job[w].msg)
    BY <2>1 DEF Promise!Copy
  <2>3. QED
    BY <2>1, <2>2 DEF Promise!Next
<1>7. ASSUME NEW w \in Workers, Nak(w) PROVE UNCHANGED Promise!vars
  <2>1. job[w].msg \in Msgs /\ UNCHANGED <<marked, dlq>>
    BY <1>7, BusyWorker DEF Nak, At, Answered, storeVars, outputVars
  <2>2. Outcome' = Outcome
    BY <1>7, <2>1, SameOutcome DEF Nak, Lost, consumerVars, Inv
  <2>3. QED
    BY <1>1, <2>1, <2>2
<1>8. ASSUME NEW w \in Workers, Deliver(w) PROVE UNCHANGED Promise!vars
  <2>1. UNCHANGED <<marked, dlq>> /\ \E m \in Msgs : Push(m, w)
    BY <1>8 DEF Deliver, storeVars, outputVars
  <2>2. Outcome' = Outcome
    BY <2>1, SameOutcome DEF Inv
  <2>3. QED
    BY <1>1, <2>1, <2>2
<1>9. ASSUME NEW m \in Msgs, AckWait(m) PROVE UNCHANGED Promise!vars
  <2>1. UNCHANGED <<marked, dlq>> /\ Requeue(m)
    BY <1>9 DEF AckWait, storeVars, outputVars
  <2>2. Outcome' = Outcome
    BY <2>1, SameOutcome DEF Inv
  <2>3. QED
    BY <1>1, <2>1, <2>2
<1>10. ASSUME NEW i \in Instances, Crash(i) PROVE UNCHANGED Promise!vars
  BY <1>2, <1>10 DEF Crash, Unseen, storeVars, outputVars
<1>11. ASSUME NEW id \in Ids, ForgetMark(id) PROVE [Promise!Next]_(Promise!vars)
  <2>1. UNCHANGED <<status, dlq>> /\ marked' = marked \ {id}
    BY <1>11 DEF ForgetMark, consumerVars, outputVars
  <2>2. Promise!Forget(id)
    BY <2>1 DEF Promise!Forget
  <2>3. QED
    BY <2>2 DEF Promise!Next
<1>12. CASE UNCHANGED vars
  BY <1>2, <1>12 DEF vars, Unseen, consumerVars, storeVars, outputVars
<1>13. ASSUME NEW w \in Workers, Take(w) \/ Step(w) PROVE [Promise!Next]_(Promise!vars)
  BY <1>2, <1>3, <1>4, <1>5, <1>6, <1>7, <1>13, UnseenSteps
<1>14. QED
  BY <1>8, <1>9, <1>10, <1>11, <1>12, <1>13 DEF Next

(* As long as publishing to the dead letter subject succeeds, the service  *)
(* implements EventHandling, under every other fault.                      *)
THEOREM HandlingImplemented == NoDeadLetterLost /\ Spec => HandlingSpec
<1>1. ASSUME NoDeadLetterLost PROVE Spec => HandlingSpec
  <2>1. Init => Promise!Init
    BY DEF Init, ConsumerInit, Promise!Init
  <2>2. Spec => [](Inv /\ TermIsCopied)
    <3>1. Init => Inv /\ TermIsCopied
      BY InitInv, InitTermIsCopied
    <3>2. Inv /\ TermIsCopied /\ [Next]_vars => (Inv /\ TermIsCopied)'
      BY <1>1, NextInv, NextTermIsCopied
    <3>3. QED
      BY <3>1, <3>2, PTL DEF Spec
  <2>3. Inv /\ TermIsCopied /\ [Next]_vars => [Promise!Next]_(Promise!vars)
    BY <1>1, HandlingStep
  <2>4. QED
    BY <2>1, <2>2, <2>3, PTL DEF Spec, HandlingSpec, Promise!Spec
<1>2. QED
  BY <1>1

-----------------------------------------------------------------------------
(* The ledger. *)

(* The kinds of event whose handler updates the row it read. *)
Writers == {"OrderPlaced", "OrderCancelled", "OrderShipped", "ShipmentCancelled"}

(* One worker at a time reads and writes a row: there is one replica, and  *)
(* the events that name a row are of one of those kinds.                   *)
OneWriterPerRow ==
  /\ \A i, j \in Instances : i = j
  /\ \A m, n \in Msgs :
       Event[m].key = Event[n].key /\ {Event[m].kind, Event[n].kind} \subseteq Writers
         => Event[m].kind = Event[n].kind

(* An order is for something. *)
OrdersCarryQuantity == \A m \in Msgs : Event[m].kind = "OrderPlaced" => Event[m].qty > 0

(* A worker's row is that of its event; until it is handled it is the row  *)
(* as it is in the table, and what is about to be written is the effect of *)
(* the event on it.                                                        *)
RowIsCurrent(w) ==
  /\ pc[w] # "idle" /\ job[w].key # NoKey => job[w].key = EventOf(w).key
  /\ pc[w] \in {"fillCache", "handle"} /\ job[w].key # NoKey /\ w[2] \in Writers
       => job[w].row = table[job[w].key]
  /\ pc[w] = "update" => w[2] \in Writers
  /\ pc[w] = "update" /\ job[w].key # NoKey =>
       /\ Ledger!Affects(EventOf(w), table[job[w].key])
       /\ job[w].row = Ledger!Effect(EventOf(w), table[job[w].key])

RowsAreCurrent == \A w \in Workers : RowIsCurrent(w)

(* At the start nobody holds a row.                                        *)
LEMMA InitRows == Init => RowsAreCurrent
BY DEF Init, RowsAreCurrent, RowIsCurrent

(* Workers that write the same row are the same worker.                    *)
LEMMA OneWriter ==
  ASSUME OneWriterPerRow, CopiesOK, Inv, NEW v \in Workers, NEW w \in Workers,
         pc[v] # "idle", pc[w] # "idle", EventOf(v).key = EventOf(w).key,
         v[2] \in Writers, w[2] \in Writers
  PROVE  v = w
<1>1. job[v].msg \in Msgs /\ job[w].msg \in Msgs
  BY BusyWorker
<1>2. EventOf(v).kind = v[2] /\ EventOf(w).kind = w[2]
  BY DEF CopiesOK
<1>3. v[2] = w[2]
  BY <1>1, <1>2 DEF OneWriterPerRow, EventOf
<1>4. v[1] = w[1]
  BY DEF OneWriterPerRow, Workers
<1>5. QED
  BY <1>3, <1>4 DEF Workers

(* Nothing is asked of a worker that does not read, handle or update.      *)
LEMMA RowPassedOn ==
  ASSUME RowsAreCurrent, NEW w \in Workers, pc[w] # "idle",
         pc'[w] \notin {"fillCache", "handle", "update"}, job'[w] = job[w]
  PROVE  RowIsCurrent(w)'
BY DEF RowsAreCurrent, RowIsCurrent, EventOf

(* When one worker moves and the table stays, the rows of the others are   *)
(* as current as before.                                                   *)
LEMMA OneWorkerReads ==
  ASSUME RowsAreCurrent, NEW w \in Workers, RowIsCurrent(w)', table' = table,
         \A v \in Workers \ {w} : pc'[v] = pc[v] /\ job'[v] = job[v]
  PROVE  RowsAreCurrent'
<1>1. ASSUME NEW v \in Workers \ {w} PROVE RowIsCurrent(v)'
  <2>1. RowIsCurrent(v) /\ pc'[v] = pc[v] /\ job'[v] = job[v] /\ EventOf(v)' = EventOf(v)
    BY DEF RowsAreCurrent, EventOf
  <2>2. QED
    BY <2>1 DEF RowIsCurrent, Ledger!Affects, Ledger!Effect
<1>2. QED
  BY <1>1 DEF RowsAreCurrent

(* A step to a stage at which no row is needed.                            *)
LEMMA GotoReads ==
  ASSUME Inv, RowsAreCurrent, NEW w \in Workers, pc[w] # "idle", table' = table,
         \E stage \in Stages \ {"fillCache", "handle", "update"} : Goto(w, stage)
  PROVE  RowsAreCurrent'
<1>1. /\ pc'[w] \notin {"fillCache", "handle", "update"} /\ job'[w] = job[w]
      /\ \A v \in Workers \ {w} : pc'[v] = pc[v] /\ job'[v] = job[v]
  BY DEF Goto, Inv, TypeOK
<1>2. QED
  BY <1>1, RowPassedOn, OneWorkerReads

(* A decision to update: the new row is the effect on the row in the table.*)
LEMMA EffectIsWritten ==
  ASSUME Inv, CopiesOK, RowsAreCurrent, NEW w \in Workers, pc[w] = "handle",
         w[2] \in Writers, NEW row \in Row, GotoWith(w, "update", row), table' = table,
         Ledger!Affects(EventOf(w), job[w].row), row = Ledger!Effect(EventOf(w), job[w].row)
  PROVE  RowsAreCurrent'
<1>1. /\ pc'[w] = "update" /\ job'[w] = [job[w] EXCEPT !.row = row]
      /\ \A v \in Workers \ {w} : pc'[v] = pc[v] /\ job'[v] = job[v]
  BY GotoWithFrame DEF Inv, Stages
<1>2. job'[w].msg = job[w].msg /\ job'[w].key = job[w].key /\ job'[w].row = row
  BY <1>1, BusyWorker DEF Jobs
<1>3. EventOf(w)' = EventOf(w)
  BY <1>2 DEF EventOf
<1>4. /\ job[w].key # NoKey => job[w].key = EventOf(w).key
      /\ job[w].key # NoKey => job[w].row = table[job[w].key]
  BY DEF RowsAreCurrent, RowIsCurrent
<1>5. RowIsCurrent(w)'
  BY <1>1, <1>2, <1>3, <1>4 DEF RowIsCurrent, Ledger!Affects, Ledger!Effect
<1>6. QED
  BY <1>1, <1>5, OneWorkerReads

(* The handlers decide so.                                                 *)
LEMMA HandlersWriteEffects ==
  ASSUME Inv, CopiesOK, RowsAreCurrent, NEW w \in Workers,
         \/ HandleOrderPlaced(w) \/ HandleOrderCancelled(w) \/ HandleOrderShipped(w)
         \/ HandleShipmentCreated(w) \/ HandleShipmentDelivered(w)
         \/ HandleShipmentCancelled(w)
  PROVE  RowsAreCurrent'
<1> DEFINE row == job[w].row
           quantity == EventOf(w).qty
<1>1. pc[w] = "handle" /\ table' = table
  BY DEF HandleOrderPlaced, HandleOrderCancelled, HandleOrderShipped,
     HandleShipmentCreated, HandleShipmentDelivered, HandleShipmentCancelled,
     Decided, Handle, At, storeVars
<1>2. row \in Row /\ quantity \in Int /\ EventOf(w).kind = w[2]
  BY <1>1, BusyWorker DEF CopiesOK
<1>3. CASE \E stage \in {"refused", "updated", Done(w)} : Goto(w, stage)
  <2>1. {"refused", "updated", Done(w)} \subseteq Stages \ {"fillCache", "handle", "update"}
    BY NextStages DEF Stages
  <2>2. QED
    BY <1>1, <1>3, <2>1, GotoReads
<1>4. CASE /\ w[2] = "OrderPlaced" /\ CanReserve(row, quantity)
           /\ GotoWith(w, "update", Reserve(row, quantity))
  <2>1. /\ Ledger!Affects(EventOf(w), row)
        /\ Reserve(row, quantity) = Ledger!Effect(EventOf(w), row)
    BY <1>2, <1>4 DEF Ledger!Affects, Ledger!Effect, Reserve, Ledger!Reserve,
       CanReserve, Ledger!CanReserve, Available, Ledger!Available
  <2>2. QED
    BY <1>1, <1>2, <1>4, <2>1, ReserveKeepsCheck, EffectIsWritten DEF Writers
<1>5. CASE /\ w[2] = "OrderCancelled" /\ row.reserved # 0
           /\ GotoWith(w, "update", Release(row, quantity))
  <2>1. /\ Ledger!Affects(EventOf(w), row)
        /\ Release(row, quantity) = Ledger!Effect(EventOf(w), row)
    BY <1>2, <1>5 DEF Ledger!Affects, Ledger!Effect, Release, Ledger!Release,
       AtMost, Ledger!AtMost
  <2>2. QED
    BY <1>1, <1>2, <1>5, <2>1, ReleaseKeepsCheck, EffectIsWritten DEF Writers
<1>6. CASE /\ w[2] = "OrderShipped" /\ row.reserved # 0
           /\ GotoWith(w, "update", Ship(row, quantity))
  <2>1. /\ Ledger!Affects(EventOf(w), row)
        /\ Ship(row, quantity) = Ledger!Effect(EventOf(w), row)
    BY <1>2, <1>6 DEF Ledger!Affects, Ledger!Effect, Ship, Ledger!Ship,
       ShipQuantity, Ledger!ShipQuantity, AtMost, Ledger!AtMost
  <2>2. QED
    BY <1>1, <1>2, <1>6, <2>1, ShipKeepsCheck, EffectIsWritten DEF Writers
<1>7. CASE /\ w[2] = "ShipmentCancelled" /\ quantity > 0
           /\ GotoWith(w, "update", Restore(row, quantity))
  <2>1. /\ Ledger!Affects(EventOf(w), row)
        /\ Restore(row, quantity) = Ledger!Effect(EventOf(w), row)
    BY <1>2, <1>7 DEF Ledger!Affects, Ledger!Effect, Restore, Ledger!Restore
  <2>2. QED
    BY <1>1, <1>2, <1>7, <2>1, RestoreKeepsCheck, EffectIsWritten DEF Writers
<1>8. \/ \E stage \in {"refused", "updated", Done(w)} : Goto(w, stage)
      \/ /\ w[2] = "OrderPlaced" /\ CanReserve(row, quantity)
         /\ GotoWith(w, "update", Reserve(row, quantity))
      \/ /\ w[2] = "OrderCancelled" /\ row.reserved # 0
         /\ GotoWith(w, "update", Release(row, quantity))
      \/ /\ w[2] = "OrderShipped" /\ row.reserved # 0
         /\ GotoWith(w, "update", Ship(row, quantity))
      \/ /\ w[2] = "ShipmentCancelled" /\ quantity > 0
         /\ GotoWith(w, "update", Restore(row, quantity))
  BY <1>2 DEF HandleOrderPlaced, HandleOrderCancelled, HandleOrderShipped,
     HandleShipmentCreated, HandleShipmentDelivered, HandleShipmentCancelled, Handle
<1>9. QED
  BY <1>3, <1>4, <1>5, <1>6, <1>7, <1>8

(* Reads give a worker the row as it is in the table; a hit in the cache   *)
(* gives it none.                                                          *)
LEMMA ReadsAreCurrent ==
  ASSUME Inv, RowsAreCurrent, NEW w \in Workers,
         CheckSeen(w) \/ ReadCache(w) \/ ReadTable(w) \/ FillCache(w)
  PROVE  RowsAreCurrent'
<1>1. table' = table /\ pc[w] # "idle"
  BY DEF CheckSeen, ReadCache, ReadTable, FillCache, At, storeVars
<1>2. {"ack", "readCache", "readTable", Failed(w)} \subseteq Stages \ {"fillCache", "handle", "update"}
  BY NextStages DEF Stages
<1>3. CASE \E stage \in {"ack", "readCache", "readTable", Failed(w)} : Goto(w, stage)
  BY <1>1, <1>2, <1>3, GotoReads
<1>4. CASE pc[w] \in {"readCache", "fillCache"} /\ Goto(w, "handle")
  <2>1. /\ pc'[w] = "handle" /\ job'[w] = job[w] /\ EventOf(w)' = EventOf(w)
        /\ \A v \in Workers \ {w} : pc'[v] = pc[v] /\ job'[v] = job[v]
    BY <1>4 DEF Goto, Inv, TypeOK, EventOf
  <2>2. pc[w] = "readCache" => job[w].key = NoKey
    BY DEF Inv, WorkerOK, BlankReservesNothing, Reading
  <2>3. RowIsCurrent(w)'
    BY <1>1, <1>4, <2>1, <2>2 DEF RowsAreCurrent, RowIsCurrent
  <2>4. QED
    BY <1>1, <2>1, <2>3, OneWorkerReads
<1>5. CASE /\ pc' = [pc EXCEPT ![w] = "fillCache"]
           /\ job' = [job EXCEPT ![w].key = EventOf(w).key, ![w].row = table[EventOf(w).key]]
  <2>1. job \in [Workers -> Jobs] /\ job[w] \in Jobs /\ pc \in [Workers -> Stages]
    BY DEF Inv, TypeOK
  <2>2. job'[w] = [job[w] EXCEPT !.key = EventOf(w).key, !.row = table[EventOf(w).key]]
    BY <1>5, <2>1
  <2>3. /\ job'[w].msg = job[w].msg /\ job'[w].key = EventOf(w).key
        /\ job'[w].row = table[EventOf(w).key]
    BY <2>1, <2>2 DEF Jobs
  <2>4. pc'[w] = "fillCache" /\ \A v \in Workers \ {w} : pc'[v] = pc[v] /\ job'[v] = job[v]
    BY <1>5, <2>1
  <2>5. RowIsCurrent(w)'
    BY <1>1, <2>3, <2>4 DEF RowIsCurrent, EventOf
  <2>6. QED
    BY <1>1, <2>4, <2>5, OneWorkerReads
<1>6. QED
  BY <1>3, <1>4, <1>5 DEF CheckSeen, ReadCache, ReadTable, FillCache, At

(* The UPDATE: no other worker holds the row that it changes, or computed  *)
(* from it what it is about to write.                                      *)
LEMMA UpdateKeepsRows ==
  ASSUME OneWriterPerRow, Inv, CopiesOK, RowsAreCurrent, NEW w \in Workers, Update(w)
  PROVE  RowsAreCurrent'
<1>1. pc[w] = "update" /\ w[2] \in Writers
  BY DEF Update, At, RowsAreCurrent, RowIsCurrent
<1>2. Goto(w, "evict") \/ Goto(w, Failed(w))
  BY DEF Update
<1>3. {"evict", Failed(w)} \subseteq Stages \ {"fillCache", "handle", "update"}
  BY NextStages DEF Stages
<1>4. CASE table' = table
  BY <1>1, <1>2, <1>3, <1>4, GotoReads
<1>5. CASE job[w].key # NoKey /\ table' = [table EXCEPT ![job[w].key] = job[w].row]
  <2>1. /\ pc'[w] \notin {"fillCache", "handle", "update"} /\ job'[w] = job[w]
        /\ \A v \in Workers \ {w} : pc'[v] = pc[v] /\ job'[v] = job[v]
    BY <1>2, <1>3 DEF Goto, Inv, TypeOK
  <2>2. RowIsCurrent(w)'
    BY <1>1, <2>1, RowPassedOn
  <2>3. ASSUME NEW v \in Workers \ {w} PROVE RowIsCurrent(v)'
    <3>1. RowIsCurrent(v) /\ pc'[v] = pc[v] /\ job'[v] = job[v] /\ EventOf(v)' = EventOf(v)
      BY <2>1 DEF RowsAreCurrent, EventOf
    <3>2. CASE /\ pc[v] \in {"fillCache", "handle", "update"} /\ job[v].key # NoKey
               /\ w[2] \in Writers /\ v[2] \in Writers
      <4>1. job[v].key = EventOf(v).key /\ job[w].key = EventOf(w).key
        BY <1>1, <1>5, <3>1, <3>2 DEF RowsAreCurrent, RowIsCurrent
      <4>2. job[v].key # job[w].key
        BY <1>1, <3>2, <4>1, OneWriter
      <4>3. table'[job[v].key] = table[job[v].key]
        BY <1>5, <4>2, <3>2 DEF Inv, WorkerOK, KeyIsStocked, TypeOK
      <4>4. QED
        BY <3>1, <4>3 DEF RowIsCurrent, Ledger!Affects, Ledger!Effect
    <3>3. CASE ~(pc[v] \in {"fillCache", "handle", "update"} /\ job[v].key # NoKey
                 /\ v[2] \in Writers)
      BY <3>1, <3>3 DEF RowIsCurrent
    <3>4. QED
      BY <1>1, <3>2, <3>3
  <2>4. QED
    BY <2>2, <2>3 DEF RowsAreCurrent
<1>6. QED
  BY <1>4, <1>5 DEF Update, Commit

(* Every step keeps the rows current.                                      *)
LEMMA NextRows ==
  ASSUME OneWriterPerRow, Inv, CopiesOK, RowsAreCurrent, [Next]_vars
  PROVE  RowsAreCurrent'
<1>1. ASSUME NEW w \in Workers, Step(w) PROVE RowsAreCurrent'
  <2> DEFINE Calm == Stages \ {"fillCache", "handle", "update"}
  <2>1. {"evict", "reserved", "updated", "ack", "bury", "term", Failed(w), Done(w)} \subseteq Calm
    BY NextStages DEF Stages
  <2>2. CASE Evict(w) \/ Mark(w) \/ PublishDLQ(w) \/ Panic(w)
    <3>1. /\ table' = table /\ pc[w] # "idle"
          /\ \E stage \in {AfterUpdate(w), Failed(w), "ack", "term", "bury"} : Goto(w, stage)
      BY <2>2 DEF Evict, Mark, PublishDLQ, Panic, At, Handling, storeVars
    <3>2. \E stage \in Calm : Goto(w, stage)
      BY <2>1, <3>1 DEF AfterUpdate
    <3>3. QED
      BY <3>1, <3>2, GotoReads
  <2>3. CASE PublishReserved(w) \/ PublishUpdated(w) \/ PublishRefused(w)
    <3>1. /\ table' = table /\ pc[w] # "idle"
          /\ \E stage \in {"updated", Failed(w), Done(w)} : Goto(w, stage)
      BY <2>3 DEF PublishReserved, PublishUpdated, PublishRefused, Announce, At, storeVars
    <3>2. QED
      BY <2>1, <3>1, GotoReads
  <2>4. CASE Ack(w) \/ Nak(w) \/ Term(w)
    <3>1. table' = table /\ Finish(w)
      BY <2>4 DEF Ack, Nak, Term, Answered, storeVars
    <3>2. pc'[w] = "idle" /\ \A v \in Workers \ {w} : pc'[v] = pc[v] /\ job'[v] = job[v]
      BY <3>1, FinishFrame DEF Inv
    <3>3. RowIsCurrent(w)'
      BY <3>2 DEF RowIsCurrent
    <3>4. QED
      BY <3>1, <3>2, <3>3, OneWorkerReads
  <2>5. QED
    BY <1>1, <2>2, <2>3, <2>4, ReadsAreCurrent, HandlersWriteEffects, UpdateKeepsRows DEF Step
<1>2. ASSUME NEW w \in Workers, Take(w) PROVE RowsAreCurrent'
  <2>1. PICK c \in inbox : /\ pc' = [pc EXCEPT ![w] = Entry(c.msg)]
                           /\ job' = [job EXCEPT ![w] = NewJob(c)]
    BY <1>2 DEF Take
  <2>2. /\ pc'[w] \in {"bury", "readCache", "checkSeen"} /\ job'[w].key = NoKey
        /\ \A v \in Workers \ {w} : pc'[v] = pc[v] /\ job'[v] = job[v]
    BY <2>1 DEF Inv, TypeOK, NewJob, Entry
  <2>3. RowIsCurrent(w)' /\ table' = table
    BY <1>2, <2>2 DEF RowIsCurrent, Take, storeVars
  <2>4. QED
    BY <2>2, <2>3, OneWorkerReads
<1>3. ASSUME table' = table,
             \A v \in Workers : pc'[v] = "idle" \/ (pc'[v] = pc[v] /\ job'[v] = job[v])
      PROVE  RowsAreCurrent'
  <2>1. ASSUME NEW v \in Workers PROVE RowIsCurrent(v)'
    <3>1. CASE pc'[v] = "idle"
      BY <3>1 DEF RowIsCurrent
    <3>2. CASE pc'[v] = pc[v] /\ job'[v] = job[v]
      BY <1>3, <3>2 DEF RowsAreCurrent, RowIsCurrent, EventOf, Ledger!Affects, Ledger!Effect
    <3>3. QED
      BY <1>3, <3>1, <3>2
  <2>2. QED
    BY <2>1 DEF RowsAreCurrent
<1>4. ASSUME NEW i \in Instances, Crash(i) PROVE RowsAreCurrent'
  BY <1>3, <1>4 DEF Crash, storeVars
<1>5. ASSUME NEW w \in Workers, Deliver(w) PROVE RowsAreCurrent'
  BY <1>3, <1>5 DEF Deliver, storeVars
<1>6. ASSUME NEW m \in Msgs, AckWait(m) PROVE RowsAreCurrent'
  BY <1>3, <1>6 DEF AckWait, storeVars
<1>7. ASSUME NEW id \in Ids, ForgetMark(id) PROVE RowsAreCurrent'
  BY <1>3, <1>7 DEF ForgetMark
<1>8. UNCHANGED vars => RowsAreCurrent'
  BY <1>3 DEF vars, storeVars
<1>9. QED
  BY <1>1, <1>2, <1>4, <1>5, <1>6, <1>7, <1>8 DEF Next

-----------------------------------------------------------------------------
(* The step simulation of the ledger. *)

Entered   == {m \in Msgs : applied[m] > 0}
Announced == {m \in Msgs : Published(m, "InventoryReserved")}

(* A commit enters the effect of the event on the row as it is.            *)
LEMMA CommitEnters ==
  ASSUME Inv, CopiesOK, RowsAreCurrent, NEW w \in Workers, Update(w)
  PROVE  [Ledger!Next]_(Ledger!ledgerVars)
<1> PICK m \in Msgs : m = job[w].msg
  BY BusyWorker DEF Update, At
<1>1. pc[w] = "update" /\ Announced' = Announced
  BY DEF Update, At, outputVars, Announced, Published
<1>2. CASE UNCHANGED <<table, applied>>
  BY <1>1, <1>2 DEF Ledger!ledgerVars, Announced
<1>3. CASE ~UNCHANGED <<table, applied>>
  <2> DEFINE key == job[w].key
  <2>1. Accepted(w) /\ Commit(w)
    BY <1>3 DEF Update
  <2>2. /\ key # NoKey /\ table' = [table EXCEPT ![key] = job[w].row]
        /\ applied' = [applied EXCEPT ![m] = @ + 1]
    BY <1>3, <2>1 DEF Commit
  <2>3. /\ key \in Stocked /\ DOMAIN table = Stocked
        /\ key = Event[m].key /\ EventOf(w) = Event[m]
        /\ Ledger!Affects(Event[m], table[key])
        /\ job[w].row = Ledger!Effect(Event[m], table[key])
    BY <1>1, <2>2 DEF RowsAreCurrent, RowIsCurrent, EventOf, Inv, WorkerOK, KeyIsStocked, TypeOK
  <2>4. CheckConstraint(job[w].row) /\ FitsColumns(job[w].row)
    BY <2>1, <2>2 DEF Accepted
  <2>5. Entered' = Entered \cup {m}
    BY <2>2 DEF Entered, Inv, TypeOK
  <2>6. table' = [table EXCEPT ![key] = Ledger!Effect(Event[m], @)]
    BY <2>2, <2>3
  <2>7. Ledger!Enter(m)
    BY <1>1, <2>3, <2>4, <2>5, <2>6
    DEF Ledger!Enter, Entered, Announced, CheckConstraint, Ledger!CheckConstraint,
        FitsColumns, Ledger!FitsColumns
  <2>8. QED
    BY <2>7 DEF Ledger!Next
<1>4. QED
  BY <1>2, <1>3

(* A reservation is announced for an order that was entered.               *)
LEMMA AnnouncementsAreEntered ==
  ASSUME OrdersCarryQuantity, Inv, CopiesOK, NEW w \in Workers,
         PublishReserved(w) \/ PublishUpdated(w) \/ PublishRefused(w)
  PROVE  [Ledger!Next]_(Ledger!ledgerVars)
<1> PICK m \in Msgs : m = job[w].msg
  BY BusyWorker DEF PublishReserved, PublishUpdated, PublishRefused, At
<1>1. UNCHANGED <<table, applied>> /\ Entered' = Entered
  BY DEF PublishReserved, PublishUpdated, PublishRefused, Announce, storeVars, Entered
<1>2. CASE Announced' = Announced
  BY <1>1, <1>2 DEF Ledger!ledgerVars, Announced, Entered
<1>3. CASE PublishReserved(w) /\ Announced' # Announced
  <2>1. /\ pc[w] = "reserved"
        /\ events' \in {events, events \cup {Notice(w, "InventoryReserved", EventOf(w).key)}}
    BY <1>3 DEF PublishReserved, At, Announce
  <2>2. Announced' = Announced \cup {m}
    BY <1>3, <2>1 DEF Announced, Published, Notice
  <2>3. w[2] = "OrderPlaced" /\ Event[m].kind = "OrderPlaced" /\ Event[m].qty > 0
    BY <2>1 DEF Inv, WorkerOK, CommittedBeforeAnnounced, CopiesOK, EventOf, OrdersCarryQuantity
  <2>4. applied[m] > 0
    BY <2>1, <2>3 DEF Inv, WorkerOK, CommittedBeforeAnnounced, EventOf
  <2>5. Ledger!AnnounceReservation(m)
    BY <1>1, <2>2, <2>3, <2>4 DEF Ledger!AnnounceReservation, Entered, Announced
  <2>6. QED
    BY <2>5 DEF Ledger!Next
<1>4. CASE PublishUpdated(w) \/ PublishRefused(w)
  <2>1. \E subject \in {"InventoryUpdated", "InventoryReservationFailed"} : \E about :
          events' \in {events, events \cup {Notice(w, subject, about)}}
    BY <1>4 DEF PublishUpdated, PublishRefused, Announce
  <2>2. Announced' = Announced
    BY <2>1 DEF Announced, Published, Notice
  <2>3. QED
    BY <1>2, <2>2
<1>5. QED
  BY <1>2, <1>3, <1>4

(* Every step of the service is one of the ledger, or a stutter.           *)
LEMMA LedgerStep ==
  ASSUME OrdersCarryQuantity, Inv, CopiesOK, RowsAreCurrent, [Next]_vars
  PROVE  [Ledger!Next]_(Ledger!ledgerVars)
<1>1. ASSUME UNCHANGED <<table, applied, events>> PROVE UNCHANGED Ledger!ledgerVars
  BY <1>1 DEF Ledger!ledgerVars, Published
<1>2. ASSUME NEW w \in Workers, Step(w), ~Update(w),
             ~(PublishReserved(w) \/ PublishUpdated(w) \/ PublishRefused(w))
      PROVE  UNCHANGED <<table, applied, events>>
  BY <1>2 DEF Step, CheckSeen, ReadCache, ReadTable, FillCache, HandleOrderPlaced,
     HandleOrderCancelled, HandleOrderShipped, HandleShipmentCreated,
     HandleShipmentDelivered, HandleShipmentCancelled, Decided, Evict, Mark, Ack, Nak,
     PublishDLQ, Term, Panic, Answered, storeVars, outputVars
<1>3. ASSUME NEW w \in Workers, Step(w) PROVE [Ledger!Next]_(Ledger!ledgerVars)
  BY <1>1, <1>2, <1>3, CommitEnters, AnnouncementsAreEntered
<1>4. ASSUME NEW w \in Workers, Deliver(w) \/ Take(w) PROVE UNCHANGED Ledger!ledgerVars
  BY <1>1, <1>4 DEF Deliver, Take, storeVars, outputVars
<1>5. ASSUME NEW i \in Instances, Crash(i) PROVE UNCHANGED Ledger!ledgerVars
  BY <1>1, <1>5 DEF Crash, storeVars, outputVars
<1>6. ASSUME NEW m \in Msgs, AckWait(m) PROVE UNCHANGED Ledger!ledgerVars
  BY <1>1, <1>6 DEF AckWait, storeVars, outputVars
<1>7. ASSUME NEW id \in Ids, ForgetMark(id) PROVE UNCHANGED Ledger!ledgerVars
  BY <1>1, <1>7 DEF ForgetMark, outputVars
<1>8. UNCHANGED vars => UNCHANGED Ledger!ledgerVars
  BY <1>1 DEF vars, storeVars, outputVars
<1>9. QED
  BY <1>3, <1>4, <1>5, <1>6, <1>7, <1>8 DEF Next

(* With one writer for each row the service implements the ledger: every   *)
(* change of a row is the effect of an event on the row as it is at that   *)
(* moment, so no update is lost, whatever fails, crashes or is repeated.   *)
THEOREM LedgerImplemented ==
  OneWriterPerRow /\ OrdersCarryQuantity /\ Spec => LedgerSpec
<1>1. ASSUME OneWriterPerRow, OrdersCarryQuantity PROVE Spec => LedgerSpec
  <2>1. Init => Ledger!Init
    BY DEF Init, Ledger!Init, Published
  <2>2. Spec => [](Inv /\ CopiesOK /\ RowsAreCurrent)
    <3>1. Init => RowsAreCurrent
      BY InitRows
    <3>2. Inv /\ CopiesOK /\ RowsAreCurrent /\ [Next]_vars => RowsAreCurrent'
      BY <1>1, NextRows
    <3>3. QED
      BY <3>1, <3>2, CopiesHold, PTL DEF Spec
  <2>3. Inv /\ CopiesOK /\ RowsAreCurrent /\ [Next]_vars => [Ledger!Next]_(Ledger!ledgerVars)
    BY <1>1, LedgerStep
  <2>4. QED
    BY <2>1, <2>2, <2>3, PTL DEF Spec, LedgerSpec, Ledger!Spec
<1>2. QED
  BY <1>1

-----------------------------------------------------------------------------
(* Sums over finite sets.  The induction is done with sets: of the subsets *)
(* for which a claim fails a minimal one is taken.                         *)

OneOf(s) == CHOOSE x \in s : TRUE

(* g maps every subset of D to the sum of f over it, an element at a time. *)
Sums(g, f, D) ==
  g = [s \in SUBSET D |-> IF s = {} THEN 0 ELSE f[OneOf(s)] + g[s \ {OneOf(s)}]]

SumOf(f, S) == (CHOOSE g : Sums(g, f, S))[S]

(* An element of a set that is not empty.                                  *)
LEMMA Picked == ASSUME NEW s, s # {} PROVE OneOf(s) \in s
BY DEF OneOf

(* Of a set of subsets of a finite set one is minimal.                     *)
LEMMA MinimalSubset ==
  ASSUME NEW D, IsFiniteSet(D), NEW T, T \subseteq SUBSET D, T # {}
  PROVE  \E S \in T : \A R \in T : R \subseteq S => R = S
<1>1. IsWellFoundedOn(StrictSubsetOrdering(D), SUBSET D)
  BY FS_FiniteSubsetsOfFinite, FS_StrictSubsetOrderingWellFounded
<1>2. PICK S \in T : \A R \in T : ~(<<R, S>> \in StrictSubsetOrdering(D))
  BY <1>1, WFMin
<1>3. QED
  BY <1>2 DEF StrictSubsetOrdering

(* What such a map says of each subset.                                    *)
LEMMA SumsAt ==
  ASSUME NEW g, NEW f, NEW D, Sums(g, f, D)
  PROVE  /\ g[{}] = 0
         /\ \A s \in SUBSET D : s # {} => g[s] = f[OneOf(s)] + g[s \ {OneOf(s)}]
<1>1. \A s \in SUBSET D : g[s] = IF s = {} THEN 0 ELSE f[OneOf(s)] + g[s \ {OneOf(s)}]
  BY Zenon DEF Sums
<1>2. QED
  BY <1>1

(* Two such maps agree.                                                    *)
LEMMA SumsAgree ==
  ASSUME NEW D, IsFiniteSet(D), NEW f, NEW E \in SUBSET D, NEW F \in SUBSET D,
         NEW g, Sums(g, f, E), NEW h, Sums(h, f, F)
  PROVE  \A s \in (SUBSET E) \cap (SUBSET F) : g[s] = h[s]
<1> DEFINE T == {s \in (SUBSET E) \cap (SUBSET F) : g[s] # h[s]}
<1>1. SUFFICES ASSUME T # {} PROVE FALSE
  OBVIOUS
<1>2. T \subseteq SUBSET D
  OBVIOUS
<1> HIDE DEF T
<1>3. PICK S \in T : \A R \in T : R \subseteq S => R = S
  BY <1>1, <1>2, MinimalSubset
<1> USE DEF T
<1>4. S # {}
  BY SumsAt
<1>5. S \ {OneOf(S)} \notin T
  BY <1>3, <1>4, Picked
<1>6. g[S \ {OneOf(S)}] = h[S \ {OneOf(S)}]
  BY <1>5
<1>7. g[S] = h[S]
  BY <1>4, <1>6, SumsAt
<1>8. QED
  BY <1>7

(* There is one for every finite set.                                      *)
LEMMA SumsExist ==
  ASSUME NEW D, IsFiniteSet(D), NEW f
  PROVE  \A S \in SUBSET D : \E g : Sums(g, f, S)
<1> DEFINE T == {S \in SUBSET D : ~\E g : Sums(g, f, S)}
<1>1. SUFFICES ASSUME T # {} PROVE FALSE
  OBVIOUS
<1>2. T \subseteq SUBSET D
  OBVIOUS
<1> HIDE DEF T
<1>3. PICK S \in T : \A R \in T : R \subseteq S => R = S
  BY <1>1, <1>2, MinimalSubset
<1> USE DEF T
<1> DEFINE Part(r) == SumOf(f, r)
           g == [s \in SUBSET S |-> IF s = {} THEN 0 ELSE f[OneOf(s)] + Part(s \ {OneOf(s)})]
<1>4. ASSUME NEW r \in SUBSET S, r # S PROVE g[r] = Part(r)
  <2>1. \E h : Sums(h, f, r)
    BY <1>3, <1>4
  <2> DEFINE h == CHOOSE h : Sums(h, f, r)
  <2>2. Sums(h, f, r) /\ Part(r) = h[r]
    BY <2>1 DEF SumOf
  <2>3. CASE r = {}
    BY <2>2, <2>3, SumsAt
  <2>4. CASE r # {}
    <3> DEFINE q == r \ {OneOf(r)}
    <3>1. q \in SUBSET r /\ q # S /\ q \in SUBSET S
      BY <2>4, Picked
    <3>2. \E k : Sums(k, f, q)
      BY <1>3, <3>1
    <3> DEFINE k == CHOOSE k : Sums(k, f, q)
    <3>3. Sums(k, f, q) /\ Part(q) = k[q]
      BY <3>2 DEF SumOf
    <3>4. h[q] = k[q]
      <4>1. r \in SUBSET D /\ q \in SUBSET D /\ q \in (SUBSET r) \cap (SUBSET q)
        BY <3>1
      <4>2. QED
        BY <2>2, <3>3, <4>1, SumsAgree
    <3>5. h[r] = f[OneOf(r)] + h[q]
      BY <2>2, <2>4, SumsAt
    <3>6. g[r] = f[OneOf(r)] + Part(q)
      BY <2>4
    <3>7. QED
      BY <2>2, <3>3, <3>4, <3>5, <3>6
  <2>5. QED
    BY <2>3, <2>4
<1>5. ASSUME NEW s \in SUBSET S, s # {} PROVE Part(s \ {OneOf(s)}) = g[s \ {OneOf(s)}]
  BY <1>4, <1>5, Picked
<1>6. g = [s \in SUBSET S |-> IF s = {} THEN 0 ELSE f[OneOf(s)] + g[s \ {OneOf(s)}]]
  BY <1>5
<1>7. Sums(g, f, S)
  BY <1>6 DEF Sums
<1>8. QED
  BY <1>3, <1>7

(* The sum, an element at a time.                                          *)
LEMMA SumPick ==
  ASSUME NEW S, IsFiniteSet(S), NEW f
  PROVE  /\ SumOf(f, {}) = 0
         /\ S # {} => SumOf(f, S) = f[OneOf(S)] + SumOf(f, S \ {OneOf(S)})
<1>1. ASSUME NEW R \in SUBSET S
      PROVE  LET h == CHOOSE k : Sums(k, f, R) IN Sums(h, f, R) /\ SumOf(f, R) = h[R]
  BY SumsExist DEF SumOf
<1>2. SumOf(f, {}) = 0
  BY <1>1, SumsAt
<1>3. ASSUME S # {} PROVE SumOf(f, S) = f[OneOf(S)] + SumOf(f, S \ {OneOf(S)})
  <2> DEFINE g == CHOOSE k : Sums(k, f, S)
             q == S \ {OneOf(S)}
             h == CHOOSE k : Sums(k, f, q)
  <2>1. Sums(g, f, S) /\ SumOf(f, S) = g[S] /\ Sums(h, f, q) /\ SumOf(f, q) = h[q]
    BY <1>1
  <2>2. g[q] = h[q]
    BY <2>1, SumsAgree
  <2>3. g[S] = f[OneOf(S)] + g[q]
    BY <1>3, <2>1, SumsAt
  <2>4. QED
    BY <2>1, <2>2, <2>3
<1>4. QED
  BY <1>2, <1>3

(* Sums of integers are integers.                                          *)
LEMMA SumIsInt ==
  ASSUME NEW S, IsFiniteSet(S), NEW f, \A x \in S : f[x] \in Int
  PROVE  SumOf(f, S) \in Int
<1> DEFINE T == {R \in SUBSET S : SumOf(f, R) \notin Int}
<1>1. SUFFICES ASSUME T # {} PROVE FALSE
  OBVIOUS
<1>2. T \subseteq SUBSET S
  OBVIOUS
<1> HIDE DEF T
<1>3. PICK R \in T : \A Q \in T : Q \subseteq R => Q = R
  BY <1>1, <1>2, MinimalSubset
<1> USE DEF T
<1>4. IsFiniteSet(R) /\ R # {}
  <2>1. SumOf(f, {}) \in Int
    <3>1. SumOf(f, {}) = 0
      BY SumPick
    <3>2. QED
      BY <3>1
  <2>2. R # {}
    <3>1. SumOf(f, R) \notin Int
      OBVIOUS
    <3>2. QED
      BY <2>1, <3>1, Zenon
  <2>3. QED
    BY <2>2, FS_Subset
<1>5. SumOf(f, R \ {OneOf(R)}) \in Int /\ f[OneOf(R)] \in Int
  BY <1>3, <1>4, Picked
<1>6. SumOf(f, R) = f[OneOf(R)] + SumOf(f, R \ {OneOf(R)})
  BY <1>4, SumPick
<1>7. SumOf(f, R) \in Int
  BY <1>5, <1>6
<1>8. QED
  BY <1>7

(* The order does not matter.                                              *)
LEMMA SumAny ==
  ASSUME NEW S, IsFiniteSet(S), NEW f, \A x \in S : f[x] \in Int, NEW x \in S
  PROVE  SumOf(f, S) = f[x] + SumOf(f, S \ {x})
<1> DEFINE T == {R \in SUBSET S : \E y \in R : SumOf(f, R) # f[y] + SumOf(f, R \ {y})}
<1>1. SUFFICES ASSUME T # {} PROVE FALSE
  OBVIOUS
<1>2. T \subseteq SUBSET S
  OBVIOUS
<1> HIDE DEF T
<1>3. PICK R \in T : \A Q \in T : Q \subseteq R => Q = R
  BY <1>1, <1>2, MinimalSubset
<1> USE DEF T
<1>4. PICK y \in R : SumOf(f, R) # f[y] + SumOf(f, R \ {y})
  BY <1>3
<1> DEFINE p == OneOf(R)
<1>5. /\ IsFiniteSet(R) /\ p \in R
      /\ SumOf(f, R) = f[p] + SumOf(f, R \ {p})
  BY SumPick, FS_Subset, Picked
<1>6. p # y
  BY <1>4, <1>5
<1>7. SumOf(f, R \ {p}) = f[y] + SumOf(f, (R \ {p}) \ {y})
  BY <1>3, <1>5, <1>6
<1>8. SumOf(f, R \ {y}) = f[p] + SumOf(f, (R \ {y}) \ {p})
  BY <1>3, <1>5, <1>6
<1>9. (R \ {p}) \ {y} = (R \ {y}) \ {p}
  OBVIOUS
<1>10. f[y] \in Int /\ f[p] \in Int /\ SumOf(f, (R \ {y}) \ {p}) \in Int
  <2>1. IsFiniteSet((R \ {y}) \ {p})
    BY <1>5, FS_Subset
  <2>2. QED
    BY <1>5, <2>1, SumIsInt
<1>11. SumOf(f, R) = f[y] + SumOf(f, R \ {y})
  <2> DEFINE rest == SumOf(f, (R \ {y}) \ {p})
  <2>1. SumOf(f, R) = f[p] + (f[y] + rest) /\ SumOf(f, R \ {y}) = f[p] + rest
    BY <1>5, <1>7, <1>8, <1>9
  <2>2. f[y] \in Int /\ f[p] \in Int /\ rest \in Int
    BY <1>10
  <2> HIDE DEF rest
  <2>3. QED
    BY <2>1, <2>2
<1>12. QED
  BY <1>4, <1>11

(* Terms that are not negative do not make it smaller.                     *)
LEMMA SumGrows ==
  ASSUME NEW S, IsFiniteSet(S), NEW f, \A x \in S : f[x] \in Int, NEW R \in SUBSET S,
         \A x \in S \ R : f[x] >= 0
  PROVE  SumOf(f, R) <= SumOf(f, S)
<1> DEFINE T == {Q \in SUBSET S : R \subseteq Q /\ ~(SumOf(f, R) <= SumOf(f, Q))}
<1>1. SUFFICES ASSUME T # {} PROVE FALSE
  OBVIOUS
<1>2. T \subseteq SUBSET S
  OBVIOUS
<1> HIDE DEF T
<1>3. PICK Q \in T : \A P \in T : P \subseteq Q => P = Q
  BY <1>1, <1>2, MinimalSubset
<1> USE DEF T
<1>4. IsFiniteSet(Q) /\ IsFiniteSet(R) /\ SumOf(f, R) \in Int /\ SumOf(f, Q) \in Int
  BY FS_Subset, SumIsInt
<1>5. Q # R
  BY <1>4
<1>6. PICK x \in Q : x \notin R
  BY <1>5
<1>7. SumOf(f, Q) = f[x] + SumOf(f, Q \ {x})
  BY <1>4, SumAny
<1>8. Q \ {x} \notin T /\ Q \ {x} \in SUBSET S /\ R \subseteq Q \ {x}
  BY <1>3, <1>6
<1>9. SumOf(f, R) <= SumOf(f, Q \ {x})
  BY <1>8
<1>10. SumOf(f, Q \ {x}) \in Int /\ f[x] \in Int /\ f[x] >= 0
  BY <1>4, <1>6, FS_Subset, SumIsInt
<1>11. QED
  BY <1>4, <1>7, <1>9, <1>10

(* The sum depends on the terms only.                                      *)
LEMMA SameTerms ==
  ASSUME NEW S, IsFiniteSet(S), NEW f, NEW g, \A x \in S : f[x] = g[x]
  PROVE  SumOf(f, S) = SumOf(g, S)
<1> DEFINE T == {R \in SUBSET S : SumOf(f, R) # SumOf(g, R)}
<1>1. SUFFICES ASSUME T # {} PROVE FALSE
  OBVIOUS
<1>2. T \subseteq SUBSET S
  OBVIOUS
<1> HIDE DEF T
<1>3. PICK R \in T : \A Q \in T : Q \subseteq R => Q = R
  BY <1>1, <1>2, MinimalSubset
<1> USE DEF T
<1>4. IsFiniteSet(R) /\ R # {}
  BY SumPick, FS_Subset
<1>5. SumOf(f, R \ {OneOf(R)}) = SumOf(g, R \ {OneOf(R)}) /\ f[OneOf(R)] = g[OneOf(R)]
  BY <1>3, <1>4, Picked
<1>6. QED
  BY <1>4, <1>5, SumPick

(* The properties' sum is that one.                                        *)
LEMMA TotalIsSum == ASSUME NEW f, NEW S PROVE Total(f, S) = SumOf(f, S)
<1> DEFINE g == CHOOSE g : g = [s \in SUBSET S |->
                   IF s = {} THEN 0
                   ELSE f[CHOOSE x \in s : TRUE] + g[s \ {CHOOSE x \in s : TRUE}]]
<1>1. Total(f, S) = g[S]
  BY DEF Total, MapThenSumSet, MapThenFoldSet
<1>2. QED
  BY <1>1 DEF SumOf, Sums, OneOf

(* What is needed of it below.                                             *)
LEMMA TotalFacts ==
  ASSUME NEW S, IsFiniteSet(S), NEW f, \A x \in S : f[x] \in Int
  PROVE  /\ Total(f, {}) = 0 /\ Total(f, S) \in Int
         /\ \A x \in S : Total(f, S) = f[x] + Total(f, S \ {x})
<1>1. SumOf(f, {}) = 0
  BY SumPick
<1>2. SumOf(f, S) \in Int
  BY SumIsInt
<1>3. \A x \in S : SumOf(f, S) = f[x] + SumOf(f, S \ {x})
  BY SumAny
<1>4. Total(f, {}) = SumOf(f, {}) /\ Total(f, S) = SumOf(f, S)
  BY TotalIsSum, Zenon
<1>5. \A x \in S : Total(f, S \ {x}) = SumOf(f, S \ {x})
  BY TotalIsSum, Zenon
<1>6. QED
  BY <1>1, <1>2, <1>3, <1>4, <1>5, Zenon

(* Another term changes the total by as much as itself.                    *)
LEMMA OneTermChanges ==
  ASSUME NEW S, IsFiniteSet(S), NEW f, NEW g, NEW x \in S,
         \A y \in S : f[y] \in Int /\ g[y] \in Int, \A y \in S \ {x} : g[y] = f[y]
  PROVE  Total(g, S) = Total(f, S) + (g[x] - f[x])
<1>1. IsFiniteSet(S \ {x})
  BY FS_Subset
<1>2. Total(g, S \ {x}) = Total(f, S \ {x})
  BY <1>1, SameTerms, TotalIsSum
<1>3. Total(f, S) = f[x] + Total(f, S \ {x}) /\ Total(g, S) = g[x] + Total(g, S \ {x})
  BY TotalFacts
<1>4. Total(f, S \ {x}) \in Int /\ f[x] \in Int /\ g[x] \in Int
  BY <1>1, TotalFacts
<1>5. QED
  BY <1>2, <1>3, <1>4

-----------------------------------------------------------------------------
(* The balance of a row: its reserved quantity covers the orders that were *)
(* entered, less what the cancelled and shipped ones took.                 *)

EnteredOrders(k) == {m \in Msgs : /\ Event[m].key = k /\ Event[m].kind = "OrderPlaced"
                                  /\ applied[m] > 0}

Takers(k) == {m \in Msgs : /\ Event[m].key = k
                           /\ Event[m].kind \in {"OrderCancelled", "OrderShipped"}}

Taken == [m \in Msgs |-> applied[m] * Event[m].qty]

Balanced(k) ==
  Total(Ordered, EnteredOrders(k))
    <= table[k].reserved - InitialStock[k].reserved + Total(Taken, Takers(k))

(* Announced orders were entered.                                          *)
AnnouncedOrders == Announced \subseteq {m \in Entered : Event[m].kind = "OrderPlaced"}

(* The quantities are integers, and so are the totals.                     *)
LEMMA QuantitiesAreInts ==
  ASSUME TypeOK, NEW m \in Msgs
  PROVE  /\ Ordered[m] = Event[m].qty /\ Event[m].qty \in Int
         /\ applied[m] \in Nat /\ Taken[m] = applied[m] * Event[m].qty /\ Taken[m] \in Int
<1>1. Event[m].qty \in Int /\ applied[m] \in Nat
  BY ServiceAssumption DEF TypeOK, Events
<1>2. applied[m] * Event[m].qty \in Int
  BY <1>1
<1>3. QED
  BY <1>1, <1>2 DEF Ordered, Taken

LEMMA TotalsAreInts ==
  ASSUME TypeOK, IsFiniteSet(Msgs), NEW S \in SUBSET Msgs
  PROVE  IsFiniteSet(S) /\ Total(Ordered, S) \in Int /\ Total(Taken, S) \in Int
<1>1. IsFiniteSet(S)
  BY FS_Subset
<1>2. \A m \in S : Ordered[m] \in Int /\ Taken[m] \in Int
  BY QuantitiesAreInts
<1>3. QED
  BY <1>1, <1>2, TotalFacts

(* At the start nothing is entered and nothing is taken.                   *)
LEMMA InitBalanced ==
  ASSUME Init, TypeOK, IsFiniteSet(Msgs)
  PROVE  AnnouncedOrders /\ \A k \in Stocked : Balanced(k)
<1>1. events = {} /\ table = InitialStock /\ \A m \in Msgs : applied[m] = 0
  BY DEF Init
<1>2. AnnouncedOrders
  BY <1>1 DEF AnnouncedOrders, Announced, Published
<1>3. ASSUME NEW k \in Stocked PROVE Balanced(k)
  <2>1. EnteredOrders(k) = {} /\ Takers(k) \in SUBSET Msgs
    BY <1>1 DEF EnteredOrders, Takers
  <2>2. Total(Ordered, {}) = 0 /\ Total(Taken, {}) = 0
    BY SumPick, TotalIsSum
  <2>3. \A m \in Takers(k) : Taken[m] = 0
    <3>1. ASSUME NEW m \in Msgs PROVE Taken[m] = 0
      <4>1. Taken[m] = 0 * Event[m].qty /\ Event[m].qty \in Int
        BY <1>1, QuantitiesAreInts
      <4>2. QED
        BY <4>1
    <3>2. QED
      BY <2>1, <3>1
  <2>4. Total(Taken, {}) <= Total(Taken, Takers(k))
    <3>1. IsFiniteSet(Takers(k)) /\ {} \in SUBSET Takers(k)
      BY <2>1, TotalsAreInts
    <3>2. /\ \A m \in Takers(k) : Taken[m] \in Int
          /\ \A m \in Takers(k) \ {} : Taken[m] >= 0
      BY <2>3
    <3>3. QED
      BY <3>1, <3>2, SumGrows, TotalIsSum
  <2>5. table[k].reserved - InitialStock[k].reserved = 0
    BY <1>1, ServiceAssumption DEF Row
  <2>6. Total(Taken, Takers(k)) \in Int
    BY <2>1, TotalsAreInts
  <2>7. QED
    BY <2>1, <2>2, <2>4, <2>5, <2>6 DEF Balanced
<1>4. QED
  BY <1>2, <1>3

(* What an effect does to the reserved quantity.                           *)
LEMMA EffectOnReserved ==
  ASSUME NEW e \in Events, NEW row \in Row, Ledger!Affects(e, row)
  PROVE  /\ e.kind = "OrderPlaced" => Ledger!Effect(e, row).reserved = row.reserved + e.qty
         /\ e.kind \in {"OrderCancelled", "OrderShipped"} =>
              Ledger!Effect(e, row).reserved + e.qty >= row.reserved
         /\ e.kind \notin {"OrderPlaced", "OrderCancelled", "OrderShipped"} =>
              Ledger!Effect(e, row).reserved = row.reserved
<1>1. /\ e.qty \in Int /\ row.reserved \in Int /\ row.onHand \in Int
      /\ row = [onHand |-> row.onHand, reserved |-> row.reserved]
  BY DEF Events, Row
<1>2. CASE e.kind = "OrderPlaced"
  BY <1>1, <1>2 DEF Ledger!Effect, Ledger!Reserve
<1>3. CASE e.kind = "OrderCancelled"
  BY <1>1, <1>3 DEF Ledger!Effect, Ledger!Release, Ledger!AtMost
<1>4. CASE e.kind = "OrderShipped"
  BY <1>1, <1>4 DEF Ledger!Effect, Ledger!Ship, Ledger!ShipQuantity, Ledger!AtMost
<1>5. CASE e.kind = "ShipmentCancelled"
  BY <1>1, <1>5 DEF Ledger!Effect, Ledger!Restore
<1>6. QED
  BY <1>2, <1>3, <1>4, <1>5 DEF Ledger!Affects

(* A commit of the event's effect keeps every row balanced.                *)
LEMMA CommitBalances ==
  ASSUME OrdersCarryQuantity, IsFiniteSet(Msgs), TypeOK, TypeOK', NEW m \in Msgs,
         NEW key \in Stocked, key = Event[m].key, Ledger!Affects(Event[m], table[key]),
         table' = [table EXCEPT ![key] = Ledger!Effect(Event[m], table[key])],
         applied' = [applied EXCEPT ![m] = @ + 1],
         NEW k \in Stocked, Balanced(k)
  PROVE  Balanced(k)'
<1> DEFINE e == Event[m]
           before == table[k].reserved
           after == table'[k].reserved
<1>1. /\ e \in Events /\ table[key] \in Row
      /\ before \in Int /\ after \in Int /\ InitialStock[k].reserved \in Int
      /\ e.qty \in Int /\ applied[m] \in Nat /\ applied'[m] = applied[m] + 1
      /\ \A n \in Msgs \ {m} : applied'[n] = applied[n]
  BY ServiceAssumption DEF TypeOK, Row, Events
<1>2. Takers(k)' = Takers(k) /\ EnteredOrders(k) \in SUBSET Msgs /\ Takers(k) \in SUBSET Msgs
  BY DEF Takers, EnteredOrders
<1>3. /\ IsFiniteSet(EnteredOrders(k)) /\ IsFiniteSet(Takers(k))
      /\ Total(Ordered, EnteredOrders(k)) \in Int /\ Total(Taken, Takers(k)) \in Int
  BY <1>2, TotalsAreInts
<1>4. \A n \in Msgs \ {m} : Taken'[n] = Taken[n]
  BY <1>1 DEF Taken
<1>5. Taken'[m] - Taken[m] = e.qty /\ Taken'[m] \in Int /\ Taken[m] \in Int
  <2>1. Taken[m] = applied[m] * e.qty /\ Taken'[m] = (applied[m] + 1) * e.qty
    BY <1>1 DEF Taken
  <2>2. (applied[m] + 1) * e.qty = applied[m] * e.qty + e.qty /\ applied[m] * e.qty \in Int
    BY <1>1
  <2>3. QED
    BY <1>1, <2>1, <2>2
<1>6. \A n \in Msgs : Ordered[n] = Event[n].qty /\ Ordered[n] \in Int
                      /\ Taken[n] \in Int /\ Taken'[n] \in Int
  BY <1>4, <1>5, QuantitiesAreInts
<1>7. m \notin Takers(k) => Total(Taken', Takers(k)) = Total(Taken, Takers(k))
  <2>1. ASSUME m \notin Takers(k) PROVE \A n \in Takers(k) : Taken'[n] = Taken[n]
    BY <1>2, <1>4, <2>1
  <2>2. QED
    BY <1>3, <2>1, SameTerms, TotalIsSum
<1>8. m \in Takers(k) => Total(Taken', Takers(k)) = Total(Taken, Takers(k)) + e.qty
  <2>1. ASSUME m \in Takers(k)
        PROVE  Total(Taken', Takers(k)) = Total(Taken, Takers(k)) + (Taken'[m] - Taken[m])
    <3>1. /\ \A n \in Takers(k) : Taken[n] \in Int /\ Taken'[n] \in Int
          /\ \A n \in Takers(k) \ {m} : Taken'[n] = Taken[n]
      BY <1>2, <1>4, <1>6
    <3>2. QED
      <4>1. PICK S, f, g : S = Takers(k) /\ f = Taken /\ g = Taken'
        OBVIOUS
      <4>2. IsFiniteSet(S) /\ m \in S
        BY <1>3, <2>1, <4>1
      <4>3. (\A n \in S : f[n] \in Int /\ g[n] \in Int) /\ \A n \in S \ {m} : g[n] = f[n]
        BY <3>1, <4>1
      <4>4. Total(g, S) = Total(f, S) + (g[m] - f[m])
        BY <4>2, <4>3, OneTermChanges
      <4>5. QED
        BY <4>1, <4>4
  <2>2. QED
    BY <1>5, <2>1
<1>9. m \notin EnteredOrders(k)' => EnteredOrders(k)' = EnteredOrders(k)
  BY <1>1 DEF EnteredOrders
<1>10. m \in EnteredOrders(k)' =>
         /\ Total(Ordered, EnteredOrders(k)') <= Total(Ordered, EnteredOrders(k)) + e.qty
  <2> SUFFICES ASSUME m \in EnteredOrders(k)'
               PROVE  Total(Ordered, EnteredOrders(k)') <= Total(Ordered, EnteredOrders(k)) + e.qty
    OBVIOUS
  <2>1. EnteredOrders(k)' = EnteredOrders(k) \cup {m} /\ e.qty > 0
    BY <1>1 DEF EnteredOrders, OrdersCarryQuantity
  <2>2. CASE m \in EnteredOrders(k)
    <3>1. EnteredOrders(k)' = EnteredOrders(k)
      BY <2>1, <2>2
    <3>2. PICK t \in Int : t = Total(Ordered, EnteredOrders(k))
      BY <1>3
    <3>3. PICK q \in Int : q = e.qty /\ q > 0
      BY <1>1, <2>1
    <3>4. t <= t + q
      BY <3>3
    <3>5. QED
      BY <3>1, <3>2, <3>3, <3>4, Zenon
  <2>3. CASE m \notin EnteredOrders(k)
    <3>1. EnteredOrders(k)' \in SUBSET Msgs /\ EnteredOrders(k)' \ {m} = EnteredOrders(k)
      BY <1>2, <2>1, <2>3
    <3>2. Total(Ordered, EnteredOrders(k)') = Ordered[m] + Total(Ordered, EnteredOrders(k))
      <4>1. IsFiniteSet(EnteredOrders(k)') /\ \A n \in EnteredOrders(k)' : Ordered[n] \in Int
        BY <1>6, <3>1, FS_Subset
      <4>2. QED
        BY <3>1, <4>1, TotalFacts
    <3>3. QED
      BY <1>1, <1>3, <1>6, <3>2
  <2>4. QED
    BY <2>2, <2>3
<1>11. Total(Ordered, EnteredOrders(k)')
         <= after - InitialStock[k].reserved + Total(Taken', Takers(k))
  <2>1. Total(Ordered, EnteredOrders(k))
          <= before - InitialStock[k].reserved + Total(Taken, Takers(k))
    BY DEF Balanced
  <2>2. CASE k # key
    <3>1. after = before /\ m \notin Takers(k) /\ m \notin EnteredOrders(k)'
      BY <2>2 DEF TypeOK, Takers, EnteredOrders
    <3>2. QED
      BY <1>7, <1>9, <2>1, <3>1
  <2>3. CASE k = key
    <3>1. /\ after = Ledger!Effect(e, table[key]).reserved /\ before = table[key].reserved
      BY <2>3 DEF TypeOK
    <3>2. CASE e.kind = "OrderPlaced"
      <4>1. m \notin Takers(k) /\ m \in EnteredOrders(k)'
        BY <1>1, <2>3, <3>2 DEF Takers, EnteredOrders
      <4>2. after = before + e.qty
        BY <1>1, <3>1, <3>2, EffectOnReserved
      <4>3. Total(Ordered, EnteredOrders(k)') \in Int
        <5>1. EnteredOrders(k)' \in SUBSET Msgs
          BY DEF EnteredOrders
        <5>2. QED
          BY <5>1, TotalsAreInts
      <4>4. QED
        BY <1>1, <1>3, <1>7, <1>10, <2>1, <4>1, <4>2, <4>3
    <3>3. CASE e.kind \in {"OrderCancelled", "OrderShipped"}
      <4>1. m \in Takers(k) /\ m \notin EnteredOrders(k)'
        BY <2>3, <3>3 DEF Takers, EnteredOrders
      <4>2. after + e.qty >= before
        BY <1>1, <3>1, <3>3, EffectOnReserved
      <4>3. QED
        BY <1>1, <1>3, <1>8, <1>9, <2>1, <4>1, <4>2
    <3>4. CASE e.kind \notin {"OrderPlaced", "OrderCancelled", "OrderShipped"}
      <4>1. m \notin Takers(k) /\ m \notin EnteredOrders(k)'
        BY <3>4 DEF Takers, EnteredOrders
      <4>2. after = before
        BY <1>1, <3>1, <3>4, EffectOnReserved
      <4>3. QED
        BY <1>7, <1>9, <2>1, <4>1, <4>2
    <3>5. QED
      BY <3>2, <3>3, <3>4
  <2>4. QED
    BY <2>2, <2>3
<1>12. QED
  BY <1>2, <1>11 DEF Balanced, Ordered

(* Only an UPDATE changes the table.                                       *)
LEMMA TableChanges ==
  ASSUME [Next]_vars
  PROVE  UNCHANGED <<table, applied>> \/ \E w \in Workers : Update(w)
<1>1. ASSUME NEW w \in Workers, Step(w), ~Update(w) PROVE UNCHANGED <<table, applied>>
  BY <1>1 DEF Step, CheckSeen, ReadCache, ReadTable, FillCache, HandleOrderPlaced,
     HandleOrderCancelled, HandleOrderShipped, HandleShipmentCreated,
     HandleShipmentDelivered, HandleShipmentCancelled, Decided, Evict, Mark, Ack, Nak,
     PublishDLQ, Term, Panic, Answered, PublishReserved, PublishUpdated, PublishRefused,
     Announce, storeVars, outputVars
<1>2. ASSUME NEW w \in Workers, Deliver(w) \/ Take(w) PROVE UNCHANGED <<table, applied>>
  BY <1>2 DEF Deliver, Take, storeVars, outputVars
<1>3. ASSUME NEW i \in Instances, Crash(i) PROVE UNCHANGED <<table, applied>>
  BY <1>3 DEF Crash, storeVars, outputVars
<1>4. ASSUME NEW m \in Msgs, AckWait(m) PROVE UNCHANGED <<table, applied>>
  BY <1>4 DEF AckWait, storeVars, outputVars
<1>5. ASSUME NEW id \in Ids, ForgetMark(id) PROVE UNCHANGED <<table, applied>>
  BY <1>5 DEF ForgetMark, outputVars
<1>6. UNCHANGED vars => UNCHANGED <<table, applied>>
  BY DEF vars, storeVars, outputVars
<1>7. QED
  BY <1>1, <1>2, <1>3, <1>4, <1>5, <1>6 DEF Next

(* Every step keeps every row balanced.                                    *)
LEMMA NextBalanced ==
  ASSUME OrdersCarryQuantity, IsFiniteSet(Msgs), Inv, Inv', CopiesOK, RowsAreCurrent,
         [Next]_vars, NEW k \in Stocked, Balanced(k)
  PROVE  Balanced(k)'
<1>1. CASE UNCHANGED <<table, applied>>
  BY <1>1 DEF Balanced, Ordered, EnteredOrders, Taken, Takers
<1>2. ASSUME NEW w \in Workers, Update(w), ~UNCHANGED <<table, applied>> PROVE Balanced(k)'
  <2> PICK m \in Msgs : m = job[w].msg
    BY <1>2, BusyWorker DEF Update, At
  <2> DEFINE key == job[w].key
  <2>1. pc[w] = "update" /\ Accepted(w) /\ Commit(w)
    BY <1>2 DEF Update, At
  <2>2. /\ key # NoKey /\ table' = [table EXCEPT ![key] = job[w].row]
        /\ applied' = [applied EXCEPT ![m] = @ + 1]
    BY <1>2, <2>1 DEF Commit
  <2>3. /\ key \in Stocked /\ key = Event[m].key /\ EventOf(w) = Event[m]
        /\ Ledger!Affects(Event[m], table[key])
        /\ job[w].row = Ledger!Effect(Event[m], table[key])
    BY <2>1, <2>2 DEF RowsAreCurrent, RowIsCurrent, EventOf, Inv, WorkerOK, KeyIsStocked
  <2>4. table' = [table EXCEPT ![key] = Ledger!Effect(Event[m], table[key])]
    BY <2>2, <2>3
  <2>5. TypeOK /\ TypeOK'
    BY DEF Inv
  <2>6. QED
    BY <2>2, <2>3, <2>4, <2>5, CommitBalances
<1>3. QED
  BY <1>1, <1>2, TableChanges

(* With one writer for each row, what was announced as reserved is covered *)
(* by the reserved quantity of the row, less what was cancelled or shipped *)
(* since, however often events are repeated and whatever fails in between. *)
THEOREM ReservationsAreCovered ==
  OneWriterPerRow /\ OrdersCarryQuantity /\ IsFiniteSet(Msgs) /\ Spec => []ReservationsHeld
<1>1. ASSUME OneWriterPerRow, OrdersCarryQuantity, IsFiniteSet(Msgs)
      PROVE  Spec => []ReservationsHeld
  <2> DEFINE Books == AnnouncedOrders /\ \A k \in Stocked : Balanced(k)
  <2>1. Init /\ Inv => Books
    BY <1>1, InitBalanced DEF Inv
  <2>2. Inv /\ Inv' /\ CopiesOK /\ RowsAreCurrent /\ [Ledger!Next]_(Ledger!ledgerVars)
          /\ Books /\ [Next]_vars => Books'
    <3> SUFFICES ASSUME Inv, Inv', CopiesOK, RowsAreCurrent, Books, [Next]_vars,
                        [Ledger!Next]_(Ledger!ledgerVars)
                 PROVE  Books'
      OBVIOUS
    <3>1. AnnouncedOrders'
      BY DEF Ledger!Next, Ledger!Enter, Ledger!AnnounceReservation, Ledger!ledgerVars,
         AnnouncedOrders, Announced, Entered
    <3>2. ASSUME NEW k \in Stocked PROVE Balanced(k)'
      BY <1>1, NextBalanced
    <3>3. QED
      BY <3>1, <3>2 DEF Stocked
  <2>3. Inv /\ Books => ReservationsHeld
    <3> SUFFICES ASSUME Inv, Books, NEW k \in Stocked
                 PROVE  Total(Ordered, Reservations(k))
                          <= table[k].reserved - InitialStock[k].reserved + TakenFrom(k)
      BY DEF ReservationsHeld
    <3>1. Reservations(k) \in SUBSET EnteredOrders(k) /\ EnteredOrders(k) \in SUBSET Msgs
      BY DEF AnnouncedOrders, Reservations, Announced, Entered, EnteredOrders
    <3>2. TypeOK /\ TakenFrom(k) = Total(Taken, Takers(k)) /\ Takers(k) \in SUBSET Msgs
      BY DEF Inv, TakenFrom, Taken, Takers
    <3>3. /\ IsFiniteSet(EnteredOrders(k)) /\ Total(Ordered, EnteredOrders(k)) \in Int
          /\ Total(Ordered, Reservations(k)) \in Int /\ TakenFrom(k) \in Int
      BY <1>1, <3>1, <3>2, TotalsAreInts
    <3>4. \A n \in EnteredOrders(k) : Ordered[n] \in Int /\ Ordered[n] >= 0
      BY <1>1, <3>2, QuantitiesAreInts DEF EnteredOrders, OrdersCarryQuantity
    <3>5. Total(Ordered, Reservations(k)) <= Total(Ordered, EnteredOrders(k))
      BY <3>1, <3>3, <3>4, SumGrows, TotalIsSum
    <3>6. table[k].reserved \in Int /\ InitialStock[k].reserved \in Int
      BY <3>2, ServiceAssumption DEF TypeOK, Row
    <3>7. QED
      BY <3>2, <3>3, <3>5, <3>6 DEF Balanced
  <2>4. Spec => [](Inv /\ CopiesOK /\ RowsAreCurrent)
    <3>1. Inv /\ CopiesOK /\ RowsAreCurrent /\ [Next]_vars => RowsAreCurrent'
      BY <1>1, NextRows
    <3>2. QED
      BY <3>1, InitRows, CopiesHold, PTL DEF Spec
  <2>5. Inv /\ CopiesOK /\ RowsAreCurrent /\ [Next]_vars => [Ledger!Next]_(Ledger!ledgerVars)
    BY <1>1, LedgerStep
  <2>6. QED
    BY <2>1, <2>2, <2>3, <2>4, <2>5, PTL DEF Spec
<1>2. QED
  BY <1>1
=============================================================================
