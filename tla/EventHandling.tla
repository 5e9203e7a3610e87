---------------------------- MODULE EventHandling ----------------------------
(***************************************************************************)
(* What the subscriber and the idempotency wrapper promise of an event,    *)
(* whatever its handler does: it leaves its stream only as handled, once   *)
(* its id is recorded, or as dead, once a copy of it is kept for           *)
(* inspection; and it never comes back.  Recording, copying and leaving    *)
(* are separate steps, each of which a crash may prevent.                  *)
(***************************************************************************)
CONSTANTS Msgs, Ids, NoId,
          IdOf        \* the id each event carries, NoId for the empty one

VARIABLES outcome,    \* "open", "handled" or "dead"
          recorded,   \* the ids recorded as handled
          copied      \* the events copied to a dead letter subject

vars == <<outcome, recorded, copied>>

Init ==
  /\ outcome = [m \in Msgs |-> "open"]
  /\ recorded = {}
  /\ copied = {}

Record(id) ==
  /\ recorded' = recorded \cup {id}
  /\ UNCHANGED <<outcome, copied>>

Forget(id) ==
  /\ recorded' = recorded \ {id}
  /\ UNCHANGED <<outcome, copied>>

Copy(m) ==
  /\ copied' = copied \cup {m}
  /\ UNCHANGED <<outcome, recorded>>

Complete(m) ==
  /\ outcome[m] = "open"
  /\ IdOf[m] \in recorded \cup {NoId}
  /\ outcome' = [outcome EXCEPT ![m] = "handled"]
  /\ UNCHANGED <<recorded, copied>>

Dismiss(m) ==
  /\ outcome[m] = "open"
  /\ m \in copied
  /\ outcome' = [outcome EXCEPT ![m] = "dead"]
  /\ UNCHANGED <<recorded, copied>>

Next ==
  \/ \E id \in Ids : Record(id) \/ Forget(id)
  \/ \E m \in Msgs : Copy(m) \/ Complete(m) \/ Dismiss(m)

Spec == Init /\ [][Next]_vars
=============================================================================
