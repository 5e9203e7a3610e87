--------------------------- MODULE DeliveryProofs ---------------------------
(***************************************************************************)
(* When the only thing that goes wrong is that answers to the server get   *)
(* lost, no event with an id changes the stock twice.  On one replica that *)
(* holds when messages are redelivered early, too, and for events that     *)
(* were published twice: no order is entered or answered twice.            *)
(*                                                                         *)
(* The first argument: at any time at most one copy of a message is held,  *)
(* by one worker or in one queue, and only while the message is            *)
(* outstanding.  So between the check of an id and its mark nobody else    *)
(* handles the message; and once it is committed, its worker goes on to    *)
(* the mark.                                                               *)
(*                                                                         *)
(* The second: a subscription handles one message at a time, so on one     *)
(* replica there is one worker for all events with an id; an id that was   *)
(* committed or answered is marked, or its worker is on its way to the     *)
(* mark; so whoever passes the check finds the id untouched.               *)
(***************************************************************************)
EXTENDS InventoryServiceProofs

OnlyAnswersGetLost == Faults \subseteq {"ack"}

(* Answers get lost, and AckWait runs out while a message is handled. *)
OnlyRepeats == Faults \subseteq {"ack", "slow"}

(* One copy of each message at a time, while it is outstanding. *)
OneCopy ==
  /\ \A c, d \in inbox : c.msg = d.msg => c = d
  /\ \A v, w \in Workers : job[v].msg = job[w].msg /\ job[w].msg # NoMsg => v = w
  /\ \A c \in inbox, w \in Workers : job[w].msg # c.msg

HeldIsOutstanding ==
  /\ \A c \in inbox : status[c.msg] = "outstanding"
  /\ \A w \in Workers : job[w].msg # NoMsg => status[job[w].msg] = "outstanding"

(* The stages before the UPDATE, and from there to the mark. *)
Uncommitted == {"readCache", "readTable", "fillCache", "handle", "update"}
Committed   == {"evict", "reserved", "updated", "mark"}

(* A worker that is past the check and before the UPDATE is the first.     *)
UncommittedIsFirst ==
  \A w \in Workers :
    pc[w] \in Uncommitted /\ EventOf(w).id # NoId => applied[job[w].msg] = 0

(* What was committed is marked, or on its way to the mark. *)
CommittedGetsMarked ==
  \A m \in Msgs :
    applied[m] > 0 /\ Event[m].id # NoId =>
      \/ Event[m].id \in marked
      \/ \E w \in Workers : job[w].msg = m /\ pc[w] \in Committed

DeliveryInv ==
  OneCopy /\ HeldIsOutstanding /\ UncommittedIsFirst /\ CommittedGetsMarked /\ AppliedOnce

-----------------------------------------------------------------------------
(* At the start nothing is held and nothing was committed.                 *)
LEMMA InitDelivery == Init => DeliveryInv
BY ServiceAssumption
DEF Init, ConsumerInit, DeliveryInv, OneCopy, HeldIsOutstanding, UncommittedIsFirst,
    CommittedGetsMarked, AppliedOnce, IdleJob, Uncommitted

(* No fault but a lost answer or an early redelivery happens.              *)
LEMMA NoOtherFault ==
  ASSUME OnlyRepeats, NEW f, f # "ack", f # "slow"
  PROVE  ~Fault(f)
BY DEF OnlyRepeats, Fault

(* What a step of a worker does to the message it holds: it goes on to     *)
(* another stage, commits at most at the UPDATE, passes the check only     *)
(* unmarked, and leaves the stages after the UPDATE only with the mark.    *)
MovesOn(w) ==
  /\ \E stage \in Stages \ {"idle"} :
       /\ pc' = [pc EXCEPT ![w] = stage]
       /\ \/ UNCHANGED applied
          \/ /\ pc[w] = "update" /\ stage = "evict"
             /\ applied' = [applied EXCEPT ![job[w].msg] = @ + 1]
       /\ stage \in Uncommitted =>
            \/ pc[w] \in Uncommitted
            \/ pc[w] = "checkSeen" /\ EventOf(w).id \notin marked
       /\ pc[w] \in Committed =>
            stage \in Committed \/ EventOf(w).id \in marked' \cup {NoId}
  /\ \A v \in Workers : job'[v].msg = job[v].msg
  /\ marked \subseteq marked'
  /\ UNCHANGED <<status, inbox>>

(* A worker that moves on keeps the delivery invariant.                    *)
LEMMA MoveKeepsDelivery ==
  ASSUME Inv, DeliveryInv, NEW w \in Workers, pc[w] # "idle", MovesOn(w)
  PROVE  DeliveryInv'
<1> DEFINE m == job[w].msg
<1>1. PICK stage \in Stages \ {"idle"} :
        /\ pc' = [pc EXCEPT ![w] = stage]
        /\ \/ UNCHANGED applied
           \/ /\ pc[w] = "update" /\ stage = "evict"
              /\ applied' = [applied EXCEPT ![m] = @ + 1]
        /\ stage \in Uncommitted =>
             \/ pc[w] \in Uncommitted
             \/ pc[w] = "checkSeen" /\ EventOf(w).id \notin marked
        /\ pc[w] \in Committed =>
             stage \in Committed \/ EventOf(w).id \in marked' \cup {NoId}
  BY DEF MovesOn
<1>2. /\ \A v \in Workers : job'[v].msg = job[v].msg
      /\ marked \subseteq marked' /\ UNCHANGED <<status, inbox>>
  BY DEF MovesOn
<1>3. /\ m \in Msgs /\ m # NoMsg /\ pc'[w] = stage
      /\ \A v \in Workers \ {w} : pc'[v] = pc[v]
  BY <1>1, BusyWorker, ServiceAssumption DEF Inv, TypeOK
<1>4. \A v \in Workers : job[v].msg = m => v = w
  BY <1>3 DEF DeliveryInv, OneCopy
<1>5. OneCopy' /\ HeldIsOutstanding'
  BY <1>2 DEF DeliveryInv, OneCopy, HeldIsOutstanding
<1>6. UncommittedIsFirst'
  <2> SUFFICES ASSUME NEW v \in Workers, pc'[v] \in Uncommitted,
                      Event[job[v].msg].id # NoId
               PROVE  applied'[job[v].msg] = 0
    BY <1>2 DEF UncommittedIsFirst, EventOf
  <2>1. CASE v = w
    <3>1. applied' = applied
      BY <1>1, <1>3, <2>1 DEF Uncommitted
    <3>2. applied[m] = 0
      <4>1. CASE pc[w] \in Uncommitted
        BY <2>1, <4>1 DEF DeliveryInv, UncommittedIsFirst, EventOf
      <4>2. CASE pc[w] = "checkSeen" /\ EventOf(w).id \notin marked
        <5>1. ~(applied[m] > 0)
          BY <1>3, <1>4, <2>1, <4>2
          DEF DeliveryInv, CommittedGetsMarked, EventOf, Committed
        <5>2. QED
          BY <1>3, <5>1 DEF Inv, TypeOK
      <4>3. QED
        BY <1>1, <1>3, <2>1, <4>1, <4>2
    <3>3. QED
      BY <2>1, <3>1, <3>2
  <2>2. CASE v # w
    <3>1. pc[v] \in Uncommitted /\ applied[job[v].msg] = 0
      BY <1>3, <2>2 DEF DeliveryInv, UncommittedIsFirst, EventOf
    <3>2. job[v].msg # m
      BY <1>4, <2>2
    <3>3. job[v].msg \in Msgs
      BY <3>1, BusyWorker DEF Uncommitted
    <3>4. QED
      BY <1>1, <1>3, <3>1, <3>2, <3>3 DEF Inv, TypeOK
  <2>3. QED
    BY <2>1, <2>2
<1>7. CommittedGetsMarked'
  <2> SUFFICES ASSUME NEW n \in Msgs, applied'[n] > 0, Event[n].id # NoId,
                      Event[n].id \notin marked'
               PROVE  \E v \in Workers : job'[v].msg = n /\ pc'[v] \in Committed
    BY DEF CommittedGetsMarked
  <2>1. CASE applied[n] > 0
    <3>1. PICK v \in Workers : job[v].msg = n /\ pc[v] \in Committed
      BY <1>2, <2>1 DEF DeliveryInv, CommittedGetsMarked
    <3>2. CASE v = w
      BY <1>1, <1>2, <1>3, <3>1, <3>2 DEF EventOf
    <3>3. CASE v # w
      BY <1>2, <1>3, <3>1, <3>3
    <3>4. QED
      BY <3>2, <3>3
  <2>2. CASE ~(applied[n] > 0)
    <3>1. n = m /\ stage = "evict"
      BY <1>1, <1>3, <2>2 DEF Inv, TypeOK
    <3>2. QED
      BY <1>2, <1>3, <3>1 DEF Committed
  <2>3. QED
    BY <2>1, <2>2
<1>8. AppliedOnce'
  <2> SUFFICES ASSUME NEW n \in Msgs, Event[n].id # NoId PROVE applied'[n] <= 1
    BY DEF AppliedOnce
  <2>1. applied[n] <= 1 /\ applied[n] \in Nat
    BY DEF DeliveryInv, AppliedOnce, Inv, TypeOK
  <2>2. CASE applied'[n] = applied[n]
    BY <2>1, <2>2
  <2>3. CASE applied'[n] # applied[n]
    <3>1. n = m /\ pc[w] = "update" /\ applied'[n] = applied[n] + 1
      BY <1>1, <1>3, <2>3 DEF Inv, TypeOK
    <3>2. applied[n] = 0
      BY <3>1 DEF DeliveryInv, UncommittedIsFirst, EventOf, Uncommitted
    <3>3. QED
      BY <3>1, <3>2
  <2>4. QED
    BY <2>2, <2>3
<1>9. QED
  BY <1>5, <1>6, <1>7, <1>8 DEF DeliveryInv

-----------------------------------------------------------------------------
(* Every step of a callback but its answer moves on. *)

Answers(w) == Ack(w) \/ Nak(w) \/ Term(w)

(* A change of stage without commit, into no earlier stage, moves on.      *)
LEMMA GotoMovesOn ==
  ASSUME Inv, NEW w \in Workers, NEW stage \in Stages \ {"idle"}, Goto(w, stage),
         UNCHANGED <<consumerVars, applied>>, marked \subseteq marked',
         stage \in Uncommitted =>
           pc[w] \in Uncommitted \/ (pc[w] = "checkSeen" /\ EventOf(w).id \notin marked),
         pc[w] \in Committed =>
           stage \in Committed \/ EventOf(w).id \in marked' \cup {NoId}
  PROVE  MovesOn(w)
BY DEF Goto, MovesOn, consumerVars

(* A step of a callback that is not its answer moves on.                   *)
LEMMA StepsMoveOn ==
  ASSUME OnlyRepeats, Inv, NEW w \in Workers, Step(w), ~Answers(w)
  PROVE  MovesOn(w)
<1>1. Failed(w) \in Stages \ ({"idle"} \cup Uncommitted) /\ Done(w) \in {"ack", "mark"}
  BY NextStages DEF Stages, Uncommitted
<1>2. CASE CheckSeen(w)
  BY <1>2, NoOtherFault, GotoMovesOn
  DEF CheckSeen, At, Stages, Uncommitted, Committed, storeVars
<1>3. CASE ReadCache(w) \/ FillCache(w)
  BY <1>3, NoOtherFault, GotoMovesOn
  DEF ReadCache, FillCache, At, Stages, Uncommitted, Committed, storeVars
<1>4. CASE ReadTable(w)
  <2>1. CASE Goto(w, Failed(w))
    BY <1>1, <1>4, <2>1, GotoMovesOn
    DEF ReadTable, At, Committed, storeVars
  <2>2. CASE ~Goto(w, Failed(w))
    <3>1. /\ pc[w] = "readTable" /\ pc' = [pc EXCEPT ![w] = "fillCache"]
          /\ job' = [job EXCEPT ![w].key = EventOf(w).key, ![w].row = table[EventOf(w).key]]
          /\ UNCHANGED <<status, inbox, marked, applied>>
      BY <1>4, <2>2 DEF ReadTable, At, storeVars, consumerVars
    <3>2. \A v \in Workers : job'[v].msg = job[v].msg
      BY <3>1 DEF Inv, TypeOK, Jobs
    <3>3. QED
      BY <3>1, <3>2 DEF MovesOn, Stages, Uncommitted, Committed
  <2>3. QED
    BY <2>1, <2>2
<1>5. CASE \/ HandleOrderPlaced(w) \/ HandleOrderCancelled(w) \/ HandleOrderShipped(w)
           \/ HandleShipmentCreated(w) \/ HandleShipmentDelivered(w)
           \/ HandleShipmentCancelled(w)
  <2>1. pc[w] = "handle" /\ Decided
    BY <1>5 DEF HandleOrderPlaced, HandleOrderCancelled, HandleOrderShipped,
       HandleShipmentCreated, HandleShipmentDelivered, HandleShipmentCancelled, Handle, At
  <2>2. \/ \E stage \in {"refused", "updated", Done(w)} : Goto(w, stage)
        \/ \E row \in {Reserve(job[w].row, EventOf(w).qty), Release(job[w].row, EventOf(w).qty),
                       Ship(job[w].row, EventOf(w).qty), Restore(job[w].row, EventOf(w).qty)} :
             GotoWith(w, "update", row)
    BY <1>5 DEF HandleOrderPlaced, HandleOrderCancelled, HandleOrderShipped,
       HandleShipmentCreated, HandleShipmentDelivered, HandleShipmentCancelled
  <2>3. ASSUME NEW stage \in {"refused", "updated", Done(w)}, Goto(w, stage)
        PROVE  MovesOn(w)
    BY <1>1, <2>1, <2>3, GotoMovesOn
    DEF Decided, storeVars, Stages, Uncommitted, Committed
  <2>4. ASSUME NEW row, GotoWith(w, "update", row) PROVE MovesOn(w)
    <3>1. \A v \in Workers : job'[v].msg = job[v].msg
      BY <2>4 DEF GotoWith, Inv, TypeOK, Jobs
    <3>2. QED
      BY <2>1, <2>4, <3>1 DEF GotoWith, MovesOn, Decided, storeVars, consumerVars,
         Stages, Uncommitted, Committed
  <2>5. QED
    BY <2>2, <2>3, <2>4
<1>6. CASE Update(w)
  <2>1. pc[w] = "update" /\ UNCHANGED <<consumerVars, marked>>
    BY <1>6 DEF Update, At
  <2>2. CASE Commit(w) /\ Goto(w, "evict")
    BY <2>1, <2>2 DEF Commit, Goto, MovesOn, consumerVars, Stages, Uncommitted, Committed
  <2>3. CASE UNCHANGED applied /\ Goto(w, Failed(w))
    BY <1>1, <2>1, <2>3, GotoMovesOn DEF Committed
  <2>4. QED
    BY <1>6, <2>2, <2>3, NoOtherFault DEF Update
<1>7. CASE Evict(w)
  BY <1>7, NoOtherFault, GotoMovesOn
  DEF Evict, At, AfterUpdate, Stages, Uncommitted, Committed
<1>8. CASE PublishReserved(w) \/ PublishUpdated(w) \/ PublishRefused(w)
  <2>1. UNCHANGED <<consumerVars, applied, marked>>
    BY <1>8 DEF PublishReserved, PublishUpdated, PublishRefused, Announce, storeVars
  <2>2. \/ pc[w] \in {"reserved"} /\ Goto(w, "updated")
        \/ pc[w] \in {"updated", "refused"} /\ Goto(w, Done(w))
    BY <1>8, NoOtherFault
    DEF PublishReserved, PublishUpdated, PublishRefused, Announce, At
  <2>3. Done(w) = "ack" => EventOf(w).id = NoId
    BY DEF Done
  <2>4. CASE pc[w] = "reserved" /\ Goto(w, "updated")
    BY <2>1, <2>4, GotoMovesOn DEF Stages, Uncommitted, Committed
  <2>5. CASE pc[w] \in {"updated", "refused"} /\ Goto(w, Done(w))
    BY <1>1, <2>1, <2>3, <2>5, GotoMovesOn DEF Stages, Uncommitted, Committed
  <2>6. QED
    BY <2>2, <2>4, <2>5
<1>9. CASE Mark(w)
  BY <1>9, NoOtherFault, GotoMovesOn DEF Mark, At, Stages, Uncommitted, Committed
<1>10. CASE PublishDLQ(w)
  BY <1>10, GotoMovesOn DEF PublishDLQ, At, storeVars, Stages, Uncommitted, Committed
<1>11. ~Panic(w)
  BY NoOtherFault DEF Panic
<1>12. QED
  BY <1>2, <1>3, <1>4, <1>5, <1>6, <1>7, <1>8, <1>9, <1>10, <1>11 DEF Step, Answers

-----------------------------------------------------------------------------
(* The answer lets go of the message: only then may it be pushed again. *)
LEMMA AnswerKeepsDelivery ==
  ASSUME Inv, DeliveryInv, NEW w \in Workers, Answers(w)
  PROVE  DeliveryInv'
<1> PICK m \in Msgs : m = job[w].msg
  BY BusyWorker DEF Answers, Ack, Nak, Term, At
<1>1. /\ pc[w] \in {"ack", "nak", "term"} /\ Finish(w)
      /\ UNCHANGED <<inbox, marked, applied>>
      /\ \A n \in Msgs : n # m => status'[n] = status[n]
  BY DEF Answers, Ack, Nak, Term, At, Answered, Lost, Settle, Requeue, storeVars,
     consumerVars, Inv, TypeOK
<1>2. /\ pc'[w] = "idle" /\ job'[w] = IdleJob
      /\ \A v \in Workers \ {w} : pc'[v] = pc[v] /\ job'[v] = job[v]
  BY <1>1, FinishFrame DEF Inv
<1>3. job'[w].msg = NoMsg /\ m # NoMsg
  BY <1>2, ServiceAssumption DEF IdleJob
<1>4. OneCopy'
  BY <1>1, <1>2, <1>3, ServiceAssumption DEF DeliveryInv, OneCopy, Inv, TypeOK
<1>5. HeldIsOutstanding'
  <2>1. ASSUME NEW c \in inbox' PROVE status'[c.msg] = "outstanding"
    BY <1>1, <2>1 DEF DeliveryInv, OneCopy, HeldIsOutstanding, Inv, TypeOK
  <2>2. ASSUME NEW v \in Workers, job'[v].msg # NoMsg
        PROVE  status'[job'[v].msg] = "outstanding"
    <3>1. v # w /\ job'[v] = job[v]
      BY <1>2, <1>3, <2>2
    <3>2. job[v].msg # m /\ job[v].msg \in Msgs
      BY <1>3, <2>2, <3>1 DEF DeliveryInv, OneCopy, Inv, TypeOK, Jobs
    <3>3. QED
      BY <1>1, <2>2, <3>1, <3>2 DEF DeliveryInv, HeldIsOutstanding
  <2>3. QED
    BY <2>1, <2>2 DEF HeldIsOutstanding
<1>6. UncommittedIsFirst'
  BY <1>1, <1>2 DEF DeliveryInv, UncommittedIsFirst, EventOf, Uncommitted
<1>7. CommittedGetsMarked' /\ AppliedOnce'
  BY <1>1, <1>2 DEF DeliveryInv, CommittedGetsMarked, Committed, AppliedOnce
<1>8. QED
  BY <1>4, <1>5, <1>6, <1>7 DEF DeliveryInv

(* The server pushes a message only when nobody holds a copy of it.        *)
LEMMA DeliverKeepsDelivery ==
  ASSUME Inv, DeliveryInv, NEW w \in Workers, Deliver(w)
  PROVE  DeliveryInv'
<1>1. PICK m \in Msgs : Push(m, w)
  BY DEF Deliver
<1>2. UNCHANGED <<pc, job, marked, applied>>
  BY DEF Deliver, storeVars
<1>3. /\ status[m] = "queued" /\ status' = [status EXCEPT ![m] = "outstanding"]
      /\ \E c : c.msg = m /\ inbox' = inbox \cup {c}
  <2>1. [to |-> w, msg |-> m, attempt |-> NextAttempt(m)].msg = m
    OBVIOUS
  <2>2. QED
    BY <1>1, <2>1 DEF Push
<1>4. /\ \A c \in inbox : c.msg # m /\ c.msg \in Msgs
      /\ \A v \in Workers : job[v].msg # m
  BY <1>3, ServiceAssumption DEF DeliveryInv, HeldIsOutstanding, Inv, TypeOK
<1>5. OneCopy'
  BY <1>2, <1>3, <1>4 DEF DeliveryInv, OneCopy
<1>6. HeldIsOutstanding'
  BY <1>2, <1>3, <1>4 DEF DeliveryInv, HeldIsOutstanding, Inv, TypeOK, Jobs
<1>7. UncommittedIsFirst' /\ CommittedGetsMarked' /\ AppliedOnce'
  BY <1>2 DEF DeliveryInv, UncommittedIsFirst, CommittedGetsMarked, AppliedOnce, EventOf
<1>8. QED
  BY <1>5, <1>6, <1>7 DEF DeliveryInv

(* A worker takes a copy out of its queue, before the check of its id.     *)
LEMMA TakeKeepsDelivery ==
  ASSUME Inv, DeliveryInv, NEW w \in Workers, Take(w)
  PROVE  DeliveryInv'
<1>1. PICK c \in inbox :
        /\ inbox' = inbox \ {c}
        /\ pc' = [pc EXCEPT ![w] = Entry(c.msg)]
        /\ job' = [job EXCEPT ![w] = NewJob(c)]
  BY DEF Take
<1>2. pc[w] = "idle" /\ job[w].msg = NoMsg /\ UNCHANGED <<status, marked, applied>>
  BY DEF Take, At, storeVars, Inv, WorkerOK, BusyWithMessage
<1>3. c.msg \in Msgs /\ c.msg # NoMsg /\ status[c.msg] = "outstanding"
  BY ServiceAssumption DEF DeliveryInv, HeldIsOutstanding, Inv, TypeOK
<1>4. /\ pc'[w] = Entry(c.msg) /\ job'[w] = NewJob(c) /\ job'[w].msg = c.msg
      /\ \A v \in Workers \ {w} : pc'[v] = pc[v] /\ job'[v] = job[v]
  BY <1>1 DEF Inv, TypeOK, NewJob
<1>5. OneCopy'
  BY <1>1, <1>3, <1>4 DEF DeliveryInv, OneCopy
<1>6. HeldIsOutstanding'
  BY <1>1, <1>2, <1>3, <1>4 DEF DeliveryInv, HeldIsOutstanding
<1>7. UncommittedIsFirst'
  BY <1>2, <1>4 DEF DeliveryInv, UncommittedIsFirst, EventOf, Entry, Uncommitted
<1>8. CommittedGetsMarked' /\ AppliedOnce'
  BY <1>2, <1>4 DEF DeliveryInv, CommittedGetsMarked, AppliedOnce, Committed
<1>9. QED
  BY <1>5, <1>6, <1>7, <1>8 DEF DeliveryInv

(* A callback that takes a step is not idle.                               *)
LEMMA SteppingIsBusy ==
  ASSUME NEW w \in Workers, Step(w)
  PROVE  pc[w] # "idle"
BY DEF Step, CheckSeen, ReadCache, ReadTable, FillCache, HandleOrderPlaced,
   HandleOrderCancelled, HandleOrderShipped, HandleShipmentCreated,
   HandleShipmentDelivered, HandleShipmentCancelled, Update, Evict, PublishReserved,
   PublishUpdated, PublishRefused, Mark, Ack, Nak, PublishDLQ, Term, Panic, At,
   Handle, Handling

(* Every step keeps the delivery invariant.                                *)
LEMMA NextDelivery ==
  ASSUME OnlyAnswersGetLost, Inv, DeliveryInv, [Next]_vars
  PROVE  DeliveryInv'
<1> OnlyRepeats
  BY DEF OnlyAnswersGetLost, OnlyRepeats
<1>1. ASSUME NEW w \in Workers, Step(w) PROVE DeliveryInv'
  BY <1>1, SteppingIsBusy, AnswerKeepsDelivery, StepsMoveOn, MoveKeepsDelivery
<1>2. ASSUME NEW m \in Msgs, AckWait(m) PROVE DeliveryInv'
  <2>1. ~Held(m) /\ Requeue(m) /\ UNCHANGED <<pc, job, marked, applied, inbox>>
    BY <1>2 DEF AckWait, storeVars, Requeue, OnlyAnswersGetLost, Fault
  <2>2. HeldIsOutstanding'
    BY <2>1 DEF Held, Requeue, DeliveryInv, HeldIsOutstanding, Inv, TypeOK
  <2>3. QED
    BY <2>1, <2>2 DEF DeliveryInv, OneCopy, UncommittedIsFirst, CommittedGetsMarked,
       AppliedOnce, EventOf
<1>3. ASSUME NEW i \in Instances PROVE ~Crash(i)
  BY NoOtherFault DEF Crash
<1>4. ASSUME NEW id \in Ids PROVE ~ForgetMark(id)
  BY NoOtherFault DEF ForgetMark
<1>5. CASE UNCHANGED vars
  BY <1>5 DEF vars, consumerVars, storeVars, DeliveryInv, OneCopy, HeldIsOutstanding,
     UncommittedIsFirst, CommittedGetsMarked, AppliedOnce, EventOf
<1>6. QED
  BY <1>1, <1>2, <1>3, <1>4, <1>5, DeliverKeepsDelivery, TakeKeepsDelivery DEF Next

(* When only answers get lost, no event with an id changes the stock       *)
(* twice, whatever the number of replicas and of lost answers.             *)
THEOREM StockChangesOnce == OnlyAnswersGetLost /\ Spec => []AppliedOnce
<1>1. ASSUME OnlyAnswersGetLost PROVE Spec => []AppliedOnce
  <2>1. Init => Inv /\ DeliveryInv
    BY InitInv, InitDelivery
  <2>2. Inv /\ DeliveryInv /\ [Next]_vars => (Inv /\ DeliveryInv)'
    BY <1>1, NextInv, NextDelivery
  <2>3. DeliveryInv => AppliedOnce
    BY DEF DeliveryInv
  <2>4. QED
    BY <2>1, <2>2, <2>3, PTL DEF Spec
<1>2. QED
  BY <1>1

-----------------------------------------------------------------------------
(* One replica. *)

OneReplica == \A i, j \in Instances : i = j

(* Events with the same id are of the same kind: no producer uses the id   *)
(* of an order for another event, and orders have ids.                     *)
IdsNameOneKind ==
  /\ \A m, n \in Msgs : SameId(m, n) => Event[m].kind = Event[n].kind
  /\ \A m \in Msgs : Event[m].kind = "OrderPlaced" => Event[m].id # NoId

Reserved(m) == Published(m, "InventoryReserved")
Refused(m)  == Published(m, "InventoryReservationFailed")

(* An event with this id changed the stock or was answered. *)
Touched(id) ==
  \E m \in Msgs : Event[m].id = id /\ (applied[m] > 0 \/ Reserved(m) \/ Refused(m))

(* Before its effect, a worker past the check finds its id untouched, and  *)
(* on the way to an answer it finds no refusal.                            *)
FirstOfItsId ==
  \A w \in Workers :
    /\ pc[w] \in Uncommitted \cup {"refused"} /\ EventOf(w).id # NoId => ~Touched(EventOf(w).id)
    /\ pc[w] \in {"evict", "reserved", "updated"} /\ EventOf(w).id # NoId =>
         \A m \in Msgs : Event[m].id = EventOf(w).id => ~Refused(m)

(* What was touched is marked, or on its way to the mark. *)
TouchedGetsMarked ==
  \A m \in Msgs :
    Event[m].id # NoId /\ Touched(Event[m].id) =>
      \/ Event[m].id \in marked
      \/ \E w \in Workers : pc[w] \in Committed /\ EventOf(w).id = Event[m].id

(* Answers are for orders. *)
AnswersAreForOrders ==
  /\ \A w \in Workers : pc[w] = "refused" => w[2] = "OrderPlaced"
  /\ \A m \in Msgs : Reserved(m) \/ Refused(m) => Event[m].kind = "OrderPlaced"

OneAnswerById ==
  \A m, n \in Msgs : SameId(m, n) => ~(Reserved(m) /\ Refused(n))

OnceInv ==
  /\ FirstOfItsId
  /\ TouchedGetsMarked
  /\ AnswersAreForOrders
  /\ OneAnswerById
  /\ OncePerOrder
  /\ AppliedOnce

(* At the start nothing is touched.                                        *)
LEMMA InitOnce == Init => OnceInv
BY DEF Init, OnceInv, FirstOfItsId, TouchedGetsMarked, AnswersAreForOrders,
   OneAnswerById, OncePerOrder, AppliedOnce, Touched, Reserved, Refused, Published,
   Uncommitted

(* One worker handles all the events with an id.                           *)
LEMMA OneHandler ==
  ASSUME OneReplica, IdsNameOneKind, Inv, CopiesOK,
         NEW v \in Workers, NEW w \in Workers, pc[v] # "idle", pc[w] # "idle",
         EventOf(v).id = EventOf(w).id, EventOf(w).id # NoId
  PROVE  v = w
<1>1. job[v].msg \in Msgs /\ job[w].msg \in Msgs
  BY BusyWorker
<1>2. EventOf(v).kind = v[2] /\ EventOf(w).kind = w[2]
  BY DEF CopiesOK
<1>3. v[2] = w[2]
  BY <1>1, <1>2 DEF IdsNameOneKind, SameId, EventOf
<1>4. v[1] = w[1]
  BY DEF OneReplica, Workers
<1>5. QED
  BY <1>3, <1>4 DEF Workers

-----------------------------------------------------------------------------
(* What a step of a callback does to the answers: a reservation is         *)
(* announced from "reserved" and a refusal from "refused", which leads to  *)
(* the mark; and nothing leads there but the decisions and the UPDATE.     *)
AnswersOnce(w) ==
  /\ pc'[w] = "refused" => pc[w] \in Uncommitted /\ w[2] = "OrderPlaced"
  /\ pc'[w] \in {"evict", "reserved", "updated"} =>
       pc[w] \in Uncommitted \cup {"evict", "reserved"}
  /\ pc[w] = "refused" => pc'[w] \in {"mark"} \/ EventOf(w).id = NoId
  /\ \A m \in Msgs : Reserved(m)' =>
       Reserved(m) \/ (m = job[w].msg /\ pc[w] = "reserved")
  /\ \A m \in Msgs : Refused(m)' =>
       Refused(m) \/ (m = job[w].msg /\ pc[w] = "refused")
  /\ events \subseteq events'

(* A step that publishes nothing and leads to another stage does neither.  *)
LEMMA QuietlyOnce ==
  ASSUME Inv, NEW w \in Workers, UNCHANGED events, pc[w] # "refused",
         \/ \E stage \in Stages \ {"evict", "reserved", "updated", "refused"} : Goto(w, stage)
         \/ \E row : GotoWith(w, "update", row)
         \/ pc' = [pc EXCEPT ![w] = "fillCache"]
         \/ Finish(w)
  PROVE  AnswersOnce(w)
<1>1. pc'[w] \notin {"evict", "reserved", "updated", "refused"}
  BY DEF Goto, GotoWith, Finish, Inv, TypeOK
<1>2. QED
  BY <1>1 DEF AnswersOnce, Reserved, Refused, Published

(* Every step of a callback answers so, when publishing does not fail.     *)
LEMMA StepsAnswerOnce ==
  ASSUME OnlyRepeats, Inv, NEW w \in Workers, Step(w)
  PROVE  AnswersOnce(w)
<1> DEFINE Quiet == Stages \ {"evict", "reserved", "updated", "refused"}
<1>1. Failed(w) \in Quiet /\ Done(w) \in Quiet
  BY NextStages DEF Stages
<1>2. pc \in [Workers -> Stages]
  BY DEF Inv, TypeOK
<1>3. CASE CheckSeen(w) \/ ReadCache(w) \/ FillCache(w) \/ Mark(w) \/ PublishDLQ(w)
  <2>1. UNCHANGED events /\ pc[w] # "refused" /\ \E stage \in Quiet : Goto(w, stage)
    BY <1>1, <1>3 DEF CheckSeen, ReadCache, FillCache, Mark, PublishDLQ, At, outputVars, Stages
  <2>2. QED
    BY <2>1, QuietlyOnce
<1>4. CASE ReadTable(w)
  BY <1>1, <1>4, QuietlyOnce DEF ReadTable, At, outputVars
<1>5. CASE \/ HandleOrderPlaced(w) \/ HandleOrderCancelled(w) \/ HandleOrderShipped(w)
           \/ HandleShipmentCreated(w) \/ HandleShipmentDelivered(w)
           \/ HandleShipmentCancelled(w)
  <2>1. UNCHANGED events /\ pc[w] = "handle"
    BY <1>5 DEF HandleOrderPlaced, HandleOrderCancelled, HandleOrderShipped,
       HandleShipmentCreated, HandleShipmentDelivered, HandleShipmentCancelled,
       Decided, outputVars, Handle, At
  <2>2. \/ w[2] = "OrderPlaced" /\ Goto(w, "refused")
        \/ Goto(w, "updated")
        \/ Goto(w, Done(w))
        \/ \E row : GotoWith(w, "update", row)
    BY <1>5 DEF HandleOrderPlaced, HandleOrderCancelled, HandleOrderShipped,
       HandleShipmentCreated, HandleShipmentDelivered, HandleShipmentCancelled, Handle
  <2>3. CASE w[2] = "OrderPlaced" /\ Goto(w, "refused")
    BY <1>2, <2>1, <2>3 DEF Goto, AnswersOnce, Reserved, Refused, Published, Uncommitted
  <2>4. CASE Goto(w, "updated")
    BY <1>2, <2>1, <2>4 DEF Goto, AnswersOnce, Reserved, Refused, Published, Uncommitted
  <2>5. QED
    BY <1>1, <2>1, <2>2, <2>3, <2>4, QuietlyOnce
<1>6. CASE Update(w)
  <2>1. UNCHANGED events /\ pc[w] = "update" /\ (Goto(w, "evict") \/ Goto(w, Failed(w)))
    BY <1>6 DEF Update, At, outputVars
  <2>2. CASE Goto(w, "evict")
    BY <1>2, <2>1, <2>2 DEF Goto, AnswersOnce, Reserved, Refused, Published, Uncommitted
  <2>3. QED
    BY <1>1, <2>1, <2>2, QuietlyOnce
<1>7. CASE Evict(w)
  <2>1. UNCHANGED events /\ pc[w] = "evict" /\ Goto(w, AfterUpdate(w))
    BY <1>7, NoOtherFault DEF Evict, At, outputVars
  <2>2. AfterUpdate(w) \in {"reserved", "updated"}
    BY DEF AfterUpdate
  <2>3. QED
    BY <1>2, <2>1, <2>2 DEF Goto, AnswersOnce, Reserved, Refused, Published
<1>8. CASE PublishReserved(w) \/ PublishRefused(w) \/ PublishUpdated(w)
  <2>1. ~Fault("publish")
    BY NoOtherFault
  <2>2. CASE PublishReserved(w)
    <3>1. /\ pc[w] = "reserved" /\ Goto(w, "updated")
          /\ events' = events \cup {Notice(w, "InventoryReserved", EventOf(w).key)}
      BY <2>1, <2>2 DEF PublishReserved, Announce, At
    <3>2. QED
      BY <1>2, <3>1 DEF Goto, AnswersOnce, Reserved, Refused, Published, Notice
  <2>3. CASE PublishRefused(w)
    <3>1. /\ pc[w] = "refused" /\ Goto(w, Done(w))
          /\ events' = events \cup {Notice(w, "InventoryReservationFailed", EventOf(w).key)}
      BY <2>1, <2>3 DEF PublishRefused, Announce, At
    <3>2. EventOf(w).id # NoId => Done(w) = "mark"
      BY DEF Done
    <3>3. pc'[w] = Done(w)
      BY <1>2, <3>1 DEF Goto
    <3>4. QED
      BY <1>1, <3>1, <3>2, <3>3 DEF AnswersOnce, Reserved, Refused, Published, Notice
  <2>4. CASE PublishUpdated(w)
    <3>1. /\ pc[w] = "updated" /\ Goto(w, Done(w))
          /\ events' = events \cup {Notice(w, "InventoryUpdated", job[w].key)}
      BY <2>1, <2>4 DEF PublishUpdated, Announce, At
    <3>2. pc'[w] = Done(w)
      BY <1>2, <3>1 DEF Goto
    <3>3. QED
      BY <1>1, <3>1, <3>2 DEF AnswersOnce, Reserved, Refused, Published, Notice
  <2>5. QED
    BY <1>8, <2>2, <2>3, <2>4
<1>9. CASE Ack(w) \/ Nak(w) \/ Term(w)
  BY <1>9, QuietlyOnce DEF Ack, Nak, Term, Answered, At, outputVars
<1>10. ~Panic(w)
  BY NoOtherFault DEF Panic
<1>11. QED
  BY <1>3, <1>4, <1>5, <1>6, <1>7, <1>8, <1>9, <1>10 DEF Step

-----------------------------------------------------------------------------
(* A worker's step keeps what holds of the ids. *)
LEMMA MoveKeepsOnce ==
  ASSUME OneReplica, IdsNameOneKind, Inv, CopiesOK, OnceInv,
         NEW w \in Workers, pc[w] # "idle", MovesOn(w), AnswersOnce(w)
  PROVE  OnceInv'
<1> DEFINE id == EventOf(w).id
<1> PICK m \in Msgs : m = job[w].msg
  BY BusyWorker
<1>1. PICK stage \in Stages \ {"idle"} :
        /\ pc' = [pc EXCEPT ![w] = stage]
        /\ \/ UNCHANGED applied
           \/ /\ pc[w] = "update" /\ stage = "evict"
              /\ applied' = [applied EXCEPT ![m] = @ + 1]
        /\ stage \in Uncommitted =>
             \/ pc[w] \in Uncommitted
             \/ pc[w] = "checkSeen" /\ id \notin marked
        /\ pc[w] \in Committed =>
             stage \in Committed \/ id \in marked' \cup {NoId}
  BY DEF MovesOn
<1>2. /\ \A v \in Workers : job'[v].msg = job[v].msg
      /\ marked \subseteq marked'
  BY DEF MovesOn
<1>3. /\ pc'[w] = stage /\ \A v \in Workers \ {w} : pc'[v] = pc[v]
      /\ EventOf(w) = Event[m]
      /\ \A v \in Workers : EventOf(v)' = EventOf(v)
  BY <1>1, <1>2 DEF Inv, TypeOK, EventOf
<1>4. /\ \A n \in Msgs : applied[n] \in Nat /\ applied'[n] \in Nat
      /\ \A n \in Msgs : n # m => applied'[n] = applied[n]
      /\ applied'[m] = applied[m] \/ (pc[w] = "update" /\ stage = "evict" /\ applied'[m] = applied[m] + 1)
  BY <1>1 DEF Inv, TypeOK
<1>5. \A n \in Msgs : /\ Reserved(n)' => Reserved(n) \/ (n = m /\ pc[w] = "reserved")
                      /\ Refused(n)' => Refused(n) \/ (n = m /\ pc[w] = "refused")
  BY DEF AnswersOnce
<1>6. /\ stage = "refused" => pc[w] \in Uncommitted /\ w[2] = "OrderPlaced"
      /\ stage \in {"evict", "reserved", "updated"} => pc[w] \in Uncommitted \cup {"evict", "reserved"}
      /\ pc[w] = "refused" => stage = "mark" \/ id = NoId
  BY <1>3 DEF AnswersOnce
<1>7. \A v \in Workers : pc[v] # "idle" /\ EventOf(v).id = id /\ id # NoId => v = w
  BY OneHandler
<1>8. id # NoId /\ pc[w] = "checkSeen" /\ id \notin marked => ~Touched(id)
  <2>1. pc[w] = "checkSeen" => pc[w] \notin Committed
    BY DEF Committed
  <2>2. \A v \in Workers : pc[v] \in Committed => pc[v] # "idle"
    BY DEF Committed
  <2>3. QED
    BY <1>3, <1>7, <2>1, <2>2 DEF OnceInv, TouchedGetsMarked
<1>9. pc[w] \in Uncommitted \cup {"refused"} /\ id # NoId => ~Touched(id)
  BY DEF OnceInv, FirstOfItsId
<1>10. \A i : Touched(i)' =>
         \/ Touched(i)
         \/ i = id /\ (stage = "evict" \/ pc[w] = "reserved" \/ pc[w] = "refused")
  BY <1>3, <1>4, <1>5 DEF Touched
<1>11. FirstOfItsId'
  <2>1. ASSUME NEW v \in Workers, pc'[v] \in Uncommitted \cup {"refused"}, EventOf(v).id # NoId
        PROVE  ~Touched(EventOf(v).id)'
    <3>1. CASE v = w
      <4>1. stage \in Uncommitted \cup {"refused"}
        BY <1>3, <2>1, <3>1
      <4>2. pc[w] \in Uncommitted \/ (pc[w] = "checkSeen" /\ id \notin marked)
        BY <1>1, <1>6, <4>1
      <4>3. ~Touched(id)
        BY <1>8, <1>9, <2>1, <3>1, <4>2
      <4>4. stage # "evict" /\ pc[w] # "reserved" /\ pc[w] # "refused"
        BY <4>1, <4>2 DEF Uncommitted
      <4>5. ~Touched(id)'
        <5>1. \A n \in Msgs : Event[n].id = id => ~(applied[n] > 0 \/ Reserved(n) \/ Refused(n))
          BY <4>3 DEF Touched
        <5>2. \A n \in Msgs : Event[n].id = id => ~(applied'[n] > 0 \/ Reserved(n)' \/ Refused(n)')
          BY <1>4, <1>5, <4>4, <5>1
        <5>3. QED
          BY <1>3, <5>2 DEF Touched
      <4>6. QED
        BY <1>3, <3>1, <4>5
    <3>2. CASE v # w
      <4>1. pc[v] = pc'[v]
        BY <1>3, <3>2
      <4>2. pc[v] # "idle"
        BY <2>1, <4>1 DEF Uncommitted
      <4>3. EventOf(v).id # id
        BY <1>7, <2>1, <3>2, <4>2
      <4>4. ~Touched(EventOf(v).id)
        BY <2>1, <4>1 DEF OnceInv, FirstOfItsId
      <4>5. QED
        <5>1. \A n \in Msgs : Event[n].id = EventOf(v).id =>
                n # m /\ ~(applied[n] > 0 \/ Reserved(n) \/ Refused(n))
          BY <1>3, <4>3, <4>4 DEF Touched
        <5>2. \A n \in Msgs : Event[n].id = EventOf(v).id =>
                ~(applied'[n] > 0 \/ Reserved(n)' \/ Refused(n)')
          BY <1>4, <1>5, <5>1
        <5>3. QED
          BY <1>3, <5>2 DEF Touched
    <3>3. QED
      BY <3>1, <3>2
  <2>2. ASSUME NEW v \in Workers, pc'[v] \in {"evict", "reserved", "updated"},
               EventOf(v).id # NoId, NEW n \in Msgs, Event[n].id = EventOf(v).id
        PROVE  ~Refused(n)'
    <3>1. CASE v = w
      <4>1. pc[w] \in Uncommitted \cup {"evict", "reserved"}
        BY <1>3, <1>6, <2>2, <3>1
      <4>2. ~Refused(n)
        BY <2>2, <3>1, <4>1 DEF OnceInv, FirstOfItsId, Touched
      <4>3. pc[w] # "refused"
        BY <4>1 DEF Uncommitted
      <4>4. QED
        BY <1>5, <4>2, <4>3
    <3>2. CASE v # w
      <4>1. pc[v] = pc'[v] /\ pc[v] # "idle"
        BY <1>3, <2>2, <3>2
      <4>2. ~Refused(n)
        BY <2>2, <4>1 DEF OnceInv, FirstOfItsId
      <4>3. n # m
        BY <1>3, <1>7, <2>2, <3>2, <4>1
      <4>4. QED
        BY <1>5, <4>2, <4>3
    <3>3. QED
      BY <3>1, <3>2
  <2>3. QED
    BY <1>3, <2>1, <2>2 DEF FirstOfItsId
<1>12. TouchedGetsMarked'
  <2> SUFFICES ASSUME NEW n \in Msgs, Event[n].id # NoId, Touched(Event[n].id)',
                      Event[n].id \notin marked'
               PROVE  \E v \in Workers : pc'[v] \in Committed /\ EventOf(v).id = Event[n].id
    BY <1>3 DEF TouchedGetsMarked
  <2>1. CASE Touched(Event[n].id)
    <3>1. PICK v \in Workers : pc[v] \in Committed /\ EventOf(v).id = Event[n].id
      BY <1>2, <2>1 DEF OnceInv, TouchedGetsMarked
    <3>2. CASE v = w
      BY <1>1, <1>3, <3>1, <3>2
    <3>3. CASE v # w
      BY <1>3, <3>1, <3>3
    <3>4. QED
      BY <3>2, <3>3
  <2>2. CASE ~Touched(Event[n].id)
    <3>1. Event[n].id = id /\ (stage = "evict" \/ pc[w] = "reserved" \/ pc[w] = "refused")
      <4>1. PICK p \in Msgs : Event[p].id = Event[n].id
                            /\ (applied'[p] > 0 \/ Reserved(p)' \/ Refused(p)')
        BY DEF Touched
      <4>2. ~(applied[p] > 0 \/ Reserved(p) \/ Refused(p))
        BY <2>2, <4>1 DEF Touched
      <4>3. QED
        BY <1>3, <1>4, <1>5, <4>1, <4>2
    <3>2. stage \in Committed
      BY <1>1, <1>6, <3>1 DEF Committed
    <3>3. QED
      BY <1>3, <3>1, <3>2
  <2>3. QED
    BY <2>1, <2>2
<1>13. AnswersAreForOrders'
  <2>1. ASSUME NEW v \in Workers, pc'[v] = "refused" PROVE v[2] = "OrderPlaced"
    BY <1>3, <1>6, <2>1 DEF OnceInv, AnswersAreForOrders
  <2>2. ASSUME NEW n \in Msgs, Reserved(n)' \/ Refused(n)'
        PROVE  Event[n].kind = "OrderPlaced"
    <3>1. CASE Reserved(n) \/ Refused(n)
      BY <3>1 DEF OnceInv, AnswersAreForOrders
    <3>2. CASE ~(Reserved(n) \/ Refused(n))
      <4>1. n = m /\ pc[w] \in {"reserved", "refused"}
        BY <1>5, <2>2, <3>2
      <4>2. w[2] = "OrderPlaced"
        BY <4>1 DEF OnceInv, AnswersAreForOrders, Inv, WorkerOK, CommittedBeforeAnnounced
      <4>3. QED
        BY <1>3, <4>1, <4>2 DEF CopiesOK
    <3>3. QED
      BY <3>1, <3>2
  <2>3. QED
    BY <2>1, <2>2 DEF AnswersAreForOrders
<1>14. OneAnswerById'
  <2> SUFFICES ASSUME NEW n \in Msgs, NEW p \in Msgs, SameId(n, p), Reserved(n)', Refused(p)'
               PROVE  FALSE
    BY DEF OneAnswerById, SameId
  <2>1. Event[n].id = Event[p].id /\ Event[p].id # NoId
    BY DEF SameId
  <2>2. ~(Reserved(n) /\ Refused(p))
    BY DEF OnceInv, OneAnswerById
  <2>3. CASE ~Reserved(n)
    <3>1. n = m /\ pc[w] = "reserved"
      BY <1>5, <2>3
    <3>2. ~Refused(p)
      BY <1>3, <2>1, <3>1 DEF OnceInv, FirstOfItsId
    <3>3. QED
      BY <1>5, <3>1, <3>2
  <2>4. CASE ~Refused(p)
    <3>1. p = m /\ pc[w] = "refused"
      BY <1>5, <2>4
    <3>2. ~Touched(id)
      BY <1>3, <1>9, <2>1, <3>1
    <3>3. ~Reserved(n)
      BY <1>3, <2>1, <3>1, <3>2 DEF Touched
    <3>4. QED
      BY <1>5, <3>1, <3>3
  <2>5. QED
    BY <2>2, <2>3, <2>4
<1>15. pc[w] = "update" /\ id # NoId =>
         \A n \in Msgs : Event[n].id = id => applied[n] = 0
  BY <1>4, <1>9 DEF Uncommitted, Touched
<1>16. OncePerOrder'
  <2> SUFFICES ASSUME NEW n \in Msgs, NEW p \in Msgs, n # p, SameId(n, p)
               PROVE  applied'[n] + applied'[p] <= 1
    BY DEF OncePerOrder, SameId
  <2>1. applied[n] + applied[p] <= 1
    BY DEF OnceInv, OncePerOrder
  <2>2. Event[n].id = Event[p].id /\ Event[p].id # NoId
    BY DEF SameId
  <2>3. QED
    BY <1>3, <1>4, <1>15, <2>1, <2>2
<1>17. AppliedOnce'
  <2> SUFFICES ASSUME NEW n \in Msgs, Event[n].id # NoId PROVE applied'[n] <= 1
    BY DEF AppliedOnce
  <2>1. applied[n] <= 1
    BY DEF OnceInv, AppliedOnce
  <2>2. QED
    BY <1>3, <1>4, <1>15, <2>1
<1>18. QED
  BY <1>11, <1>12, <1>13, <1>14, <1>16, <1>17 DEF OnceInv

(* When a worker becomes idle, or starts before the check, nothing else    *)
(* has to hold.                                                            *)
LEMMA HandsChangeKeepsOnce ==
  ASSUME OnceInv, UNCHANGED <<marked, applied, events>>,
         \A v \in Workers :
           \/ pc'[v] = pc[v] /\ job'[v] = job[v]
           \/ /\ pc[v] \notin Committed
              /\ pc'[v] \in {"idle", "bury", "checkSeen", "readCache"}
              /\ pc'[v] = "readCache" => EventOf(v)'.id = NoId
  PROVE  OnceInv'
<1>1. \A i : Touched(i)' <=> Touched(i)
  BY DEF Touched, Reserved, Refused, Published
<1>2. \A m \in Msgs : (Reserved(m)' <=> Reserved(m)) /\ (Refused(m)' <=> Refused(m))
  BY DEF Reserved, Refused, Published
<1>3. FirstOfItsId'
  <2>1. ASSUME NEW v \in Workers, pc'[v] \in Uncommitted \cup {"refused"}, EventOf(v)'.id # NoId
        PROVE  ~Touched(EventOf(v).id)'
    <3>1. pc'[v] = pc[v] /\ job'[v] = job[v]
      BY <2>1 DEF Uncommitted
    <3>2. EventOf(v)' = EventOf(v)
      BY <3>1 DEF EventOf
    <3>3. QED
      BY <1>1, <2>1, <3>1, <3>2 DEF OnceInv, FirstOfItsId
  <2>2. ASSUME NEW v \in Workers, pc'[v] \in {"evict", "reserved", "updated"},
               EventOf(v)'.id # NoId, NEW n \in Msgs, Event[n].id = EventOf(v)'.id
        PROVE  ~Refused(n)'
    <3>1. pc'[v] = pc[v] /\ EventOf(v)' = EventOf(v)
      BY <2>2 DEF EventOf
    <3>2. QED
      BY <1>2, <2>2, <3>1 DEF OnceInv, FirstOfItsId
  <2>3. QED
    BY <2>1, <2>2 DEF FirstOfItsId
<1>4. TouchedGetsMarked'
  <2> SUFFICES ASSUME NEW n \in Msgs, Event[n].id # NoId, Touched(Event[n].id)',
                      Event[n].id \notin marked
               PROVE  \E v \in Workers : pc'[v] \in Committed /\ EventOf(v)'.id = Event[n].id
    BY DEF TouchedGetsMarked
  <2>1. PICK v \in Workers : pc[v] \in Committed /\ EventOf(v).id = Event[n].id
    BY <1>1 DEF OnceInv, TouchedGetsMarked
  <2>2. pc'[v] = pc[v] /\ EventOf(v)' = EventOf(v)
    BY <2>1 DEF EventOf
  <2>3. QED
    BY <2>1, <2>2
<1>5. AnswersAreForOrders' /\ OneAnswerById'
  <2>1. \A v \in Workers : pc'[v] = "refused" => pc[v] = "refused"
    OBVIOUS
  <2>2. QED
    BY <1>2, <2>1 DEF OnceInv, AnswersAreForOrders, OneAnswerById, SameId
<1>6. OncePerOrder' /\ AppliedOnce'
  BY DEF OnceInv, OncePerOrder, AppliedOnce, SameId
<1>7. QED
  BY <1>3, <1>4, <1>5, <1>6 DEF OnceInv

(* Every step keeps what holds of the ids.                                 *)
LEMMA NextOnce ==
  ASSUME OnlyRepeats, OneReplica, IdsNameOneKind, Inv, CopiesOK, OnceInv, [Next]_vars
  PROVE  OnceInv'
<1>1. ASSUME NEW w \in Workers, Step(w), ~Answers(w) PROVE OnceInv'
  BY <1>1, SteppingIsBusy, StepsMoveOn, StepsAnswerOnce, MoveKeepsOnce
<1>2. ASSUME NEW w \in Workers, Answers(w) PROVE OnceInv'
  <2>1. /\ pc[w] \notin Committed /\ Finish(w)
        /\ UNCHANGED <<marked, applied, events>>
    BY <1>2 DEF Answers, Ack, Nak, Term, At, Committed, Answered, storeVars, outputVars
  <2>2. pc'[w] = "idle" /\ \A v \in Workers \ {w} : pc'[v] = pc[v] /\ job'[v] = job[v]
    BY <2>1, FinishFrame DEF Inv
  <2>3. QED
    BY <2>1, <2>2, HandsChangeKeepsOnce
<1>3. ASSUME NEW w \in Workers, Take(w) PROVE OnceInv'
  <2>1. PICK c \in inbox : /\ pc' = [pc EXCEPT ![w] = Entry(c.msg)]
                           /\ job' = [job EXCEPT ![w] = NewJob(c)]
    BY <1>3 DEF Take
  <2>2. pc[w] = "idle" /\ UNCHANGED <<marked, applied, events>>
    BY <1>3 DEF Take, At, storeVars, outputVars
  <2>3. /\ pc'[w] = Entry(c.msg) /\ job'[w].msg = c.msg
        /\ \A v \in Workers \ {w} : pc'[v] = pc[v] /\ job'[v] = job[v]
    BY <2>1 DEF Inv, TypeOK, NewJob
  <2>4. /\ pc'[w] \in {"bury", "checkSeen", "readCache"}
        /\ pc'[w] = "readCache" => EventOf(w)'.id = NoId
    BY <2>3 DEF Entry, EventOf
  <2>5. pc[w] \notin Committed
    BY <2>2 DEF Committed
  <2>6. QED
    BY <2>2, <2>3, <2>4, <2>5, HandsChangeKeepsOnce
<1>4. ASSUME UNCHANGED <<pc, job, marked, applied, events>> PROVE OnceInv'
  BY <1>4, HandsChangeKeepsOnce
<1>5. ASSUME NEW w \in Workers, Deliver(w) PROVE OnceInv'
  BY <1>4, <1>5 DEF Deliver, storeVars, outputVars
<1>6. ASSUME NEW m \in Msgs, AckWait(m) PROVE OnceInv'
  BY <1>4, <1>6 DEF AckWait, storeVars, outputVars
<1>7. ASSUME NEW i \in Instances PROVE ~Crash(i)
  BY NoOtherFault DEF Crash
<1>8. ASSUME NEW i \in Ids PROVE ~ForgetMark(i)
  BY NoOtherFault DEF ForgetMark
<1>9. UNCHANGED vars => OnceInv'
  BY <1>4 DEF vars, storeVars, outputVars
<1>10. QED
  BY <1>1, <1>2, <1>3, <1>5, <1>6, <1>7, <1>8, <1>9 DEF Next

(* On one replica, when answers get lost and messages come back while they *)
(* are being handled, but no store and no publication fails.               *)
LEMMA OnceHolds ==
  OnlyRepeats /\ OneReplica /\ IdsNameOneKind /\ Spec => [](Inv /\ OnceInv)
<1>1. ASSUME OnlyRepeats, OneReplica, IdsNameOneKind PROVE Spec => [](Inv /\ OnceInv)
  <2>1. Init => OnceInv
    BY InitOnce
  <2>2. Inv /\ CopiesOK /\ OnceInv /\ [Next]_vars => OnceInv'
    BY <1>1, NextOnce
  <2>3. QED
    BY <2>1, <2>2, CopiesHold, PTL DEF Spec
<1>2. QED
  BY <1>1

(* An event that was published twice changes the stock at most once,       *)
(* however often its copies come back.                                     *)
THEOREM OrdersAreEnteredOnce ==
  OnlyRepeats /\ OneReplica /\ IdsNameOneKind /\ Spec => [](OncePerOrder /\ AppliedOnce)
<1>1. OnceInv => OncePerOrder /\ AppliedOnce
  BY DEF OnceInv
<1>2. QED
  BY <1>1, OnceHolds, PTL

(* No order is both confirmed and refused, not even by its duplicates.     *)
THEOREM OrdersAreAnsweredOneWay ==
  OnlyRepeats /\ OneReplica /\ IdsNameOneKind /\ Spec => []OneAnswer
<1>1. ASSUME IdsNameOneKind, OnceInv PROVE OneAnswer
  <2> SUFFICES ASSUME NEW m \in Msgs, NEW n \in Msgs, m = n \/ SameId(m, n),
                      Reserved(m), Refused(n)
               PROVE  FALSE
    BY DEF OneAnswer, Reserved, Refused
  <2>1. Event[m].kind = "OrderPlaced" /\ Event[m].id # NoId
    BY <1>1 DEF OnceInv, AnswersAreForOrders, IdsNameOneKind
  <2>2. SameId(m, n)
    BY <2>1 DEF SameId
  <2>3. QED
    BY <1>1, <2>2 DEF OnceInv, OneAnswerById
<1>2. ASSUME OnlyRepeats, OneReplica, IdsNameOneKind PROVE Spec => []OneAnswer
  <2>1. OnceInv => OneAnswer
    BY <1>1, <1>2
  <2>2. QED
    BY <1>2, <2>1, OnceHolds, PTL
<1>3. QED
  BY <1>2
=============================================================================
