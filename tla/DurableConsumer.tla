--------------------------- MODULE DurableConsumer ---------------------------
(***************************************************************************)
(* JetStream's side of the durable push consumers that                     *)
(* messaging/subscriber.go creates (nats.Durable, ManualAck, AckWait,      *)
(* a queue group): a server outside the repository, modelled from how the  *)
(* subscriber uses it.                                                     *)
(*                                                                         *)
(* A message waits in the stream, is pushed as a copy into the client-side *)
(* queue of one subscriber, and stays outstanding until it is settled, is  *)
(* given back, or its AckWait runs out; then the server pushes it again.   *)
(* So copies of a message may outlive the settling of it.  Copies are      *)
(* taken in any order: redelivery reorders them anyway.                    *)
(***************************************************************************)
EXTENDS Naturals

CONSTANTS Msgs,         \* the messages of the streams
          MaxDeliver    \* NumDelivered is counted up to this value

ASSUME MaxDeliverAssumption == MaxDeliver \in Nat \ {0}

VARIABLES status,       \* the server's view of each message
          deliveries,   \* NumDelivered of the last copy, at most MaxDeliver
          inbox         \* the copies pushed to subscribers and not yet taken

consumerVars == <<status, deliveries, inbox>>

Statuses == {"queued", "outstanding", "acked", "termed"}

Settled(m) == status[m] \in {"acked", "termed"}

ConsumerInit ==
  /\ status = [m \in Msgs |-> "queued"]
  /\ deliveries = [m \in Msgs |-> 0]
  /\ inbox = {}

(* Variant: the count has no limit. *)
NextAttemptUncapped(m) == deliveries[m] + 1

NextAttempt(m) == IF deliveries[m] < MaxDeliver THEN deliveries[m] + 1
                                                ELSE MaxDeliver

(* Variant of Push: the consumer also has a limit of its own, as with the  *)
(* option nats.MaxDeliver.                                                 *)
PushLimited(m, s) ==
  /\ status[m] = "queued"
  /\ deliveries[m] < MaxDeliver
  /\ status' = [status EXCEPT ![m] = "outstanding"]
  /\ deliveries' = [deliveries EXCEPT ![m] = NextAttempt(m)]
  /\ inbox' = inbox \cup {[to |-> s, msg |-> m, attempt |-> NextAttempt(m)]}

(* The server pushes a copy of m to the subscriber s. *)
Push(m, s) ==
  /\ status[m] = "queued"
  /\ status' = [status EXCEPT ![m] = "outstanding"]
  /\ deliveries' = [deliveries EXCEPT ![m] = NextAttempt(m)]
  /\ inbox' = inbox \cup {[to |-> s, msg |-> m, attempt |-> NextAttempt(m)]}

(* An Ack or a Term settles a message that is not settled yet, whichever   *)
(* delivery it answers; a later one is ignored.                            *)
Settle(m, how) ==
  /\ status' = IF Settled(m) THEN status ELSE [status EXCEPT ![m] = how]
  /\ UNCHANGED <<deliveries, inbox>>

(* A Nak, or the end of AckWait, makes an outstanding message due again. *)
Requeue(m) ==
  /\ status' = IF status[m] = "outstanding"
                 THEN [status EXCEPT ![m] = "queued"] ELSE status
  /\ UNCHANGED <<deliveries, inbox>>
=============================================================================
