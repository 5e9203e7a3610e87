-------------------------- MODULE InventoryInvariant --------------------------
(***************************************************************************)
(* The inductive invariant of the inventory service: what each stage of a  *)
(* callback knows, and what it rests on.  The type invariant and the       *)
(* safety properties that hold under every fault follow from it.           *)
(***************************************************************************)
EXTENDS InventoryService

Subjects == {"InventoryReserved", "InventoryUpdated", "InventoryReservationFailed"}

(* Every variable has its type. *)
TypeOK ==
  /\ status \in [Msgs -> Statuses]
  /\ deliveries \in [Msgs -> 0..MaxDeliver]
  /\ inbox \subseteq [to : Workers, msg : Msgs, attempt : 1..MaxDeliver]
  /\ table \in [Stocked -> Row]
  /\ cached \subseteq Keys
  /\ marked \subseteq Ids
  /\ pc \in [Workers -> Stages]
  /\ job \in [Workers -> Jobs]
  /\ events \subseteq [msg : Msgs, subject : Subjects, about : Keys \cup {NoKey}]
  /\ dlq \subseteq Msgs
  /\ applied \in [Msgs -> Nat]
  /\ faults \in 0..MaxFaults

-----------------------------------------------------------------------------
(* What a worker knows at each stage. *)

Reading == {"checkSeen", "readCache", "readTable"}

(* It has a message exactly while it is not idle. *)
BusyWithMessage(w) == pc[w] = "idle" <=> job[w].msg = NoMsg

(* The row it holds is that of a stocked key, or of none after a cache hit. *)
KeyIsStocked(w) ==
  /\ job[w].key \in Stocked \cup {NoKey}
  /\ pc[w] = "fillCache" => job[w].key # NoKey

(* Only an event with an id is checked and marked. *)
MarkHasId(w) == pc[w] \in {"checkSeen", "mark"} => EventOf(w).id # NoId

(* What is acknowledged is marked, unless it has no id: the mark cannot    *)
(* expire before the answer.                                               *)
AckedIsMarked(w) == pc[w] = "ack" => EventOf(w).id \in marked \cup {NoId}

(* Every row read from the table satisfies its CHECK clauses, however old  *)
(* it is.                                                                  *)
ReadRowsKeepCheck(w) ==
  pc[w] \in Reading \cup {"fillCache", "handle"} => CheckConstraint(job[w].row)

(* A row computed for an event that carries a quantity does too. *)
UpdateKeepsCheck(w) ==
  pc[w] = "update" /\ EventOf(w).qty >= 0 => CheckConstraint(job[w].row)

(* Without a key the row is blank, and no order is reserved from it. *)
BlankReservesNothing(w) ==
  /\ pc[w] \in Reading => job[w].key = NoKey /\ job[w].row = BlankRow
  /\ pc[w] = "handle" /\ job[w].key = NoKey => job[w].row = BlankRow
  /\ pc[w] = "update" /\ w[2] = "OrderPlaced" /\ EventOf(w).qty > 0 =>
       job[w].key # NoKey

(* An order that is about to be announced has been committed. *)
CommittedBeforeAnnounced(w) ==
  /\ pc[w] = "reserved" => w[2] = "OrderPlaced"
  /\ pc[w] \in {"evict", "reserved"} /\ w[2] = "OrderPlaced" /\ EventOf(w).qty > 0
       => applied[job[w].msg] > 0

WorkerOK(w) ==
  /\ BusyWithMessage(w)
  /\ KeyIsStocked(w)
  /\ MarkHasId(w)
  /\ AckedIsMarked(w)
  /\ ReadRowsKeepCheck(w)
  /\ UpdateKeepsCheck(w)
  /\ BlankReservesNothing(w)
  /\ CommittedBeforeAnnounced(w)

-----------------------------------------------------------------------------
(* The rows of the table satisfy its CHECK clauses. *)
TableKeepsCheck == \A k \in Stocked : CheckConstraint(table[k])

(* The CHECK clauses of the table never have to refuse an update whose     *)
(* event carries a quantity: rows read at different times, overwritten     *)
(* updates, crashes and redeliveries lose or repeat effects, but every row *)
(* a handler computes is one the table accepts.                            *)
UpdatesKeepCheck == \A w \in Workers : UpdateKeepsCheck(w)

(* A reservation is announced only after it was committed: consumers of    *)
(* InventoryReserved never act on stock that was not entered.              *)
AnnouncedAreStored ==
  \A n \in events :
    n.subject = "InventoryReserved" /\ Event[n.msg].qty > 0 => applied[n.msg] > 0

(* The inductive invariant: the types, what every worker knows, and what   *)
(* holds of the table and of the published events.                         *)
Inv ==
  /\ TypeOK
  /\ \A w \in Workers : WorkerOK(w)
  /\ TableKeepsCheck
  /\ AnnouncedAreStored
=============================================================================
