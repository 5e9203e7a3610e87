---------------------- MODULE ShipmentConsumerProperties ----------------------
(***************************************************************************)
(* What the shipment service's consumer promises, depending on the layers  *)
(* it was given.  WithTryClaim buys "at most once" and pays with events    *)
(* whose only attempt failed; WithIdempotency buys "at least once".        *)
(***************************************************************************)
EXTENDS ShipmentConsumer, FiniteSets

Has(layer) == \E p \in DOMAIN Middlewares : Middlewares[p] = layer

(* Every variable has its type. *)
TypeOK ==
  /\ status \in [Msgs -> Statuses]
  /\ deliveries \in [Msgs -> 0..MaxDeliver]
  /\ inbox \subseteq [to : Replicas, msg : Msgs, attempt : 1..MaxDeliver]
  /\ marked \subseteq Ids
  /\ pc \in [Replicas -> Stages]
  /\ job \in [Replicas -> Jobs]
  /\ dlq \subseteq Msgs
  /\ started \in [Ids -> Nat]
  /\ done \subseteq Msgs
  /\ faults \in 0..MaxFaults

-----------------------------------------------------------------------------
(* With WithTryClaim, as long as no claim expires: the handler is called   *)
(* at most once for an id, on any number of replicas, for any number of    *)
(* copies and of messages with this id, whatever fails or crashes.         *)
ClaimedRunsOnce == \A id \in Ids : started[id] <= 1

(* A replica that has claimed the id of its event and not yet called the   *)
(* handler.                                                                *)
Claimant(r, id) ==
  /\ pc[r] = "enter"
  /\ Id(r) = id
  /\ \E p \in DOMAIN Middlewares :
       Middlewares[p] = "WithTryClaim" /\ p < job[r].at

ClaimInv ==
  /\ \A r \in Replicas, id \in Ids :
       Claimant(r, id) => id \in marked /\ started[id] = 0
  /\ \A r, s \in Replicas, id \in Ids :
       Claimant(r, id) /\ Claimant(s, id) => r = s
  /\ \A id \in Ids : started[id] > 0 => id \in marked
  /\ ClaimedRunsOnce

-----------------------------------------------------------------------------
(* Without WithTryClaim: an acknowledged event was handled, by itself or   *)
(* by another message with its id, whatever fails, crashes or expires.     *)
HandledBy(m, S) == \E n \in S : n = m \/ (IdOf[n] = IdOf[m] /\ IdOf[m] # NoId)

Handled(m) == HandledBy(m, done)

AckedWasHandled == \A m \in Msgs : status[m] = "acked" => Handled(m)

HandledInv ==
  /\ \A id \in marked : \E n \in done : IdOf[n] = id
  /\ \A r \in Replicas :
       pc[r] = "ack" \/ (pc[r] = "return" /\ ~job[r].err) => Handled(job[r].msg)
  /\ AckedWasHandled

-----------------------------------------------------------------------------
(* With WithIdempotency the consumer implements the same abstract event    *)
(* handling as the inventory service's for every message that can be       *)
(* unmarshalled (the others leave without a copy), provided that no dead   *)
(* letter is lost.                                                         *)
Promise == INSTANCE EventHandling WITH
  Msgs     <- Msgs \ Malformed,
  outcome  <- [m \in Msgs \ Malformed |->
                 IF status[m] = "acked" THEN "handled"
                 ELSE IF status[m] = "termed" THEN "dead" ELSE "open"],
  recorded <- marked,
  copied   <- dlq

HandlingSpec == Promise!Spec

-----------------------------------------------------------------------------
(* Every event leaves its stream, under FairSpec and finitely many faults. *)
EverySettles == \A m \in Msgs : <>Settled(m)

(* With Panics and WithIdempotency: an event whose handler fails or panics *)
(* at every attempt, and whose id no other event carries, ends in the dead *)
(* letter subject instead of ending the process again and again.           *)
FailuresAreBuried ==
  \A m \in Msgs \ Malformed :
    /\ Behaviour[m] # "succeeds"
    /\ \A n \in Msgs \ {m} : IdOf[n] # IdOf[m]
    => <>(m \in dlq)
=============================================================================
