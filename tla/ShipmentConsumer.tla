--------------------------- MODULE ShipmentConsumer ---------------------------
(***************************************************************************)
(* The consumer side of the shipment service's messaging package: the      *)
(* subscriber (messaging/subscriber.go), the chain of middlewares it wraps *)
(* around a handler (messaging/middleware.go, consume-middleware.go,       *)
(* idempotency.go) and the idempotency store.                              *)
(*                                                                         *)
(* The middlewares are a parameter, as they are of NewSubscriber.  A       *)
(* callback walks down the chain to the handler and back up with the       *)
(* error the handler returned, or unwinds it when the handler panics.  A   *)
(* worker is a replica of the service, whose subscription handles one      *)
(* message at a time.                                                      *)
(***************************************************************************)
EXTENDS DurableConsumer, Sequences

CONSTANTS Replicas,
          Middlewares,   \* the sequence given to NewSubscriber
          Ids, NoId,
          NoMsg,         \* no message: an idle replica
          IdOf,          \* what extractID returns for each message
          Behaviour,     \* what the handler does with each message
          Malformed,     \* the messages proto.Unmarshal rejects
          Faults,        \* the kinds of fault this instance considers
          MaxFaults      \* bound: how many faults happen in a behaviour

(* Layers that do no more than call the next one; a nil one is skipped. *)
Transparent == {"Panics", "Timeout", "Metrics", "nil"}

Layers == Transparent \cup {"WithTryClaim", "WithIdempotency"}

FaultKinds == {"redis", "handler", "panic", "publish", "ack", "slow", "crash", "ttl"}

ASSUME ConsumerAssumption ==
  /\ Middlewares \in Seq(Layers)
  /\ NoId \notin Ids
  /\ NoMsg \notin Msgs
  /\ IdOf \in [Msgs -> Ids \cup {NoId}]
  /\ Behaviour \in [Msgs -> {"succeeds", "fails", "panics"}]
  /\ Malformed \subseteq Msgs
  /\ Faults \subseteq FaultKinds
  /\ MaxFaults \in Nat

VARIABLES marked,      \* the ids with an entry "evt:<id>"
          pc,          \* what the callback of each replica does next
          job,         \* its locals
          dlq,         \* the messages copied to their dead letter subject
          started,     \* history: how often the handler was called for an id
          done,        \* history: the messages whose handler returned nil
          faults       \* faults so far

history == <<started, done>>
vars == <<consumerVars, marked, pc, job, dlq, history, faults>>

Stages == {"idle", "enter", "handling", "return", "unwind", "ack", "nak", "bury", "term"}

Bottom == Len(Middlewares) + 1      \* the handler, below the last layer

IdleJob == [msg |-> NoMsg, attempt |-> 1, at |-> 0, err |-> FALSE]

Jobs == [msg : Msgs \cup {NoMsg}, attempt : 1..MaxDeliver,
         at : 0..Bottom, err : BOOLEAN]

Id(r) == IdOf[job[r].msg]

(* The callback of r is at a layer of the given kind. *)
In(r, stage, layer) ==
  /\ pc[r] = stage
  /\ job[r].at \in DOMAIN Middlewares
  /\ Middlewares[job[r].at] = layer

Goto(r, stage) == pc' = [pc EXCEPT ![r] = stage] /\ UNCHANGED job

Descend(r) ==
  /\ job' = [job EXCEPT ![r].at = @ + 1]
  /\ UNCHANGED pc

(* The current layer, or the handler below the last one, returns err. *)
Return(r, err) ==
  /\ pc' = [pc EXCEPT ![r] = "return"]
  /\ job' = [job EXCEPT ![r].at = @ - 1, ![r].err = err]

Finish(r) ==
  /\ pc' = [pc EXCEPT ![r] = "idle"]
  /\ job' = [job EXCEPT ![r] = IdleJob]

Fault(f) == f \in Faults /\ faults < MaxFaults /\ faults' = faults + 1

NoFault == UNCHANGED faults

-----------------------------------------------------------------------------
(* Delivery. *)

Deliver(r) ==
  /\ \E m \in Msgs : Push(m, r)
  /\ UNCHANGED <<marked, pc, job, dlq, history, faults>>

(* A message that cannot be unmarshalled is terminated without a copy. *)
Take(r) ==
  /\ pc[r] = "idle"
  /\ \E c \in inbox :
       /\ c.to = r
       /\ inbox' = inbox \ {c}
       /\ pc' = [pc EXCEPT ![r] = IF c.msg \in Malformed THEN "term" ELSE "enter"]
       /\ job' = [job EXCEPT ![r] = [msg |-> c.msg, attempt |-> c.attempt,
                                     at |-> 1, err |-> FALSE]]
  /\ UNCHANGED <<status, deliveries, marked, dlq, history, faults>>

-----------------------------------------------------------------------------
(* Down the chain. *)

(* An event without id is nothing to the idempotency layers. *)
PassDown(r) ==
  /\ \/ \E layer \in Transparent : In(r, "enter", layer)
     \/ \E layer \in Layers \ Transparent : In(r, "enter", layer) /\ Id(r) = NoId
  /\ Descend(r)
  /\ UNCHANGED <<consumerVars, marked, dlq, history, faults>>

(* Variant of TryClaim: an error of Redis is taken for a claim. *)
TryClaimLenient(r) ==
  /\ In(r, "enter", "WithTryClaim")
  /\ Id(r) # NoId
  /\ \/ /\ NoFault
        /\ IF Id(r) \in marked THEN Return(r, FALSE) ELSE Descend(r)
        /\ marked' = marked \cup {Id(r)}
     \/ /\ Fault("redis")
        /\ Descend(r)
        /\ UNCHANGED marked
  /\ UNCHANGED <<consumerVars, dlq, history>>

(* SET NX: one step of the server, whose answer may be lost. *)
TryClaim(r) ==
  /\ In(r, "enter", "WithTryClaim")
  /\ Id(r) # NoId
  /\ \/ /\ NoFault
        /\ IF Id(r) \in marked THEN Return(r, FALSE) ELSE Descend(r)
        /\ marked' = marked \cup {Id(r)}
     \/ /\ Fault("redis")
        /\ Return(r, TRUE)
        /\ marked' \in {marked, marked \cup {Id(r)}}
  /\ UNCHANGED <<consumerVars, dlq, history>>

(* Variant of CheckSeen: what was not seen is marked at once. *)
CheckSeenMarking(r) ==
  /\ In(r, "enter", "WithIdempotency")
  /\ Id(r) # NoId
  /\ NoFault
  /\ IF Id(r) \in marked THEN Return(r, FALSE) ELSE Descend(r)
  /\ marked' = marked \cup {Id(r)}
  /\ UNCHANGED <<consumerVars, dlq, history>>

(* An error of Redis counts as "not seen". *)
CheckSeen(r) ==
  /\ In(r, "enter", "WithIdempotency")
  /\ Id(r) # NoId
  /\ \/ NoFault /\ IF Id(r) \in marked THEN Return(r, FALSE) ELSE Descend(r)
     \/ Fault("redis") /\ Descend(r)
  /\ UNCHANGED <<consumerVars, marked, dlq, history>>

-----------------------------------------------------------------------------
(* The handler: not part of the repository; it succeeds, fails or panics.  *)

CallHandler(r) ==
  /\ pc[r] = "enter"
  /\ job[r].at = Bottom
  /\ Goto(r, "handling")
  /\ started' = IF Id(r) = NoId THEN started
                ELSE [started EXCEPT ![Id(r)] = @ + 1]
  /\ UNCHANGED <<consumerVars, marked, dlq, done, faults>>

HandlerReturns(r) ==
  /\ pc[r] = "handling"
  /\ \/ /\ NoFault
        /\ Behaviour[job[r].msg] = "succeeds"
        /\ Return(r, FALSE)
        /\ done' = done \cup {job[r].msg}
     \/ /\ \/ NoFault /\ Behaviour[job[r].msg] = "fails"
           \/ Fault("handler")
        /\ Return(r, TRUE)
        /\ UNCHANGED done
  /\ UNCHANGED <<consumerVars, marked, dlq, started>>

HandlerPanics(r) ==
  /\ pc[r] = "handling"
  /\ \/ NoFault /\ Behaviour[job[r].msg] = "panics"
     \/ Fault("panic")
  /\ pc' = [pc EXCEPT ![r] = "unwind"]
  /\ job' = [job EXCEPT ![r].at = @ - 1]
  /\ UNCHANGED <<consumerVars, marked, dlq, history>>

-----------------------------------------------------------------------------
(* Up the chain. *)

PassUp(r) ==
  /\ \/ \E layer \in Layers \ {"WithIdempotency"} : In(r, "return", layer)
     \/ In(r, "return", "WithIdempotency") /\ (job[r].err \/ Id(r) = NoId)
  /\ Return(r, job[r].err)
  /\ UNCHANGED <<consumerVars, marked, dlq, history, faults>>

Mark(r) ==
  /\ In(r, "return", "WithIdempotency")
  /\ ~job[r].err
  /\ Id(r) # NoId
  /\ \/ /\ NoFault
        /\ marked' = marked \cup {Id(r)}
        /\ Return(r, FALSE)
     \/ /\ Fault("redis")
        /\ marked' \in {marked, marked \cup {Id(r)}}
        /\ Return(r, TRUE)
  /\ UNCHANGED <<consumerVars, dlq, history>>

(* Variant of Outcome: at the limit no dead letter is published. *)
OutcomeNoCopy(r) == IF ~job[r].err THEN "ack"
                    ELSE IF job[r].attempt >= MaxDeliver THEN "term" ELSE "nak"

(* What the subscriber does with the result of the whole chain. *)
Outcome(r) == IF ~job[r].err THEN "ack"
              ELSE IF job[r].attempt >= MaxDeliver THEN "bury" ELSE "nak"

Decide(r) ==
  /\ pc[r] = "return"
  /\ job[r].at = 0
  /\ Goto(r, Outcome(r))
  /\ UNCHANGED <<consumerVars, marked, dlq, history, faults>>

(* Variant of Unwind: the panic is recovered, but no error is returned. *)
UnwindSilently(r) ==
  /\ pc[r] = "unwind"
  /\ job[r].at > 0
  /\ IF Middlewares[job[r].at] = "Panics"
       THEN Return(r, FALSE)
       ELSE job' = [job EXCEPT ![r].at = @ - 1] /\ UNCHANGED pc
  /\ UNCHANGED <<consumerVars, marked, dlq, history, faults>>

(* A panic passes through every layer but Panics, which makes it an error. *)
Unwind(r) ==
  /\ pc[r] = "unwind"
  /\ job[r].at > 0
  /\ IF Middlewares[job[r].at] = "Panics"
       THEN Return(r, TRUE)
       ELSE job' = [job EXCEPT ![r].at = @ - 1] /\ UNCHANGED pc
  /\ UNCHANGED <<consumerVars, marked, dlq, history, faults>>

-----------------------------------------------------------------------------
(* Answers to the server: their errors are dropped. *)

Answered(r) == Finish(r) /\ UNCHANGED <<marked, dlq, history>>

Lost == Fault("ack") /\ UNCHANGED consumerVars

Ack(r) ==
  /\ pc[r] = "ack"
  /\ (NoFault /\ Settle(job[r].msg, "acked")) \/ Lost
  /\ Answered(r)

Nak(r) ==
  /\ pc[r] = "nak"
  /\ (NoFault /\ Requeue(job[r].msg)) \/ Lost
  /\ Answered(r)

PublishDLQ(r) ==
  /\ pc[r] = "bury"
  /\ \/ NoFault /\ dlq' = dlq \cup {job[r].msg}
     \/ Fault("publish") /\ dlq' \in {dlq, dlq \cup {job[r].msg}}
  /\ Goto(r, "term")
  /\ UNCHANGED <<consumerVars, marked, history>>

Term(r) ==
  /\ pc[r] = "term"
  /\ (NoFault /\ Settle(job[r].msg, "termed")) \/ Lost
  /\ Answered(r)

-----------------------------------------------------------------------------
(* The environment. *)

(* The process of r ends and is started again. *)
Restart(r) ==
  /\ Finish(r)
  /\ inbox' = {c \in inbox : c.to # r}
  /\ UNCHANGED <<status, deliveries, marked, dlq, history>>

Crash(r) == Fault("crash") /\ Restart(r)

(* A panic that no layer recovers ends the process. *)
PanicEscapes(r) ==
  /\ pc[r] = "unwind"
  /\ job[r].at = 0
  /\ NoFault
  /\ Restart(r)

Held(m) == \/ \E c \in inbox : c.msg = m
           \/ \E r \in Replicas : job[r].msg = m

(* The server's default AckWait runs out; early if a callback is slow.     *)
AckWait(m) ==
  /\ status[m] = "outstanding"
  /\ Requeue(m)
  /\ IF Held(m) THEN Fault("slow") ELSE NoFault
  /\ UNCHANGED <<marked, pc, job, dlq, history>>

(* A mark expires, its ttl being longer than a callback of its id takes.   *)
ForgetMark(id) ==
  /\ Fault("ttl")
  /\ id \in marked
  /\ \A r \in Replicas : job[r].msg # NoMsg => Id(r) # id
  /\ marked' = marked \ {id}
  /\ UNCHANGED <<consumerVars, pc, job, dlq, history>>

-----------------------------------------------------------------------------
Init ==
  /\ ConsumerInit
  /\ marked = {}
  /\ pc = [r \in Replicas |-> "idle"]
  /\ job = [r \in Replicas |-> IdleJob]
  /\ dlq = {}
  /\ started = [id \in Ids |-> 0]
  /\ done = {}
  /\ faults = 0

Step(r) ==
  \/ PassDown(r) \/ TryClaim(r) \/ CheckSeen(r)
  \/ CallHandler(r) \/ HandlerReturns(r) \/ HandlerPanics(r)
  \/ PassUp(r) \/ Mark(r) \/ Decide(r) \/ Unwind(r)
  \/ Ack(r) \/ Nak(r) \/ PublishDLQ(r) \/ Term(r)
  \/ PanicEscapes(r)

Next ==
  \/ \E r \in Replicas : Deliver(r) \/ Take(r) \/ Step(r) \/ Crash(r)
  \/ \E m \in Msgs : AckWait(m)
  \/ \E id \in Ids : ForgetMark(id)

Spec == Init /\ [][Next]_vars

(* A replica's goroutine runs, the server pushes what is due, and AckWait  *)
(* ends for a message nobody holds any more.                               *)
FairSpec ==
  /\ Spec
  /\ \A r \in Replicas : WF_vars(Take(r)) /\ WF_vars(Step(r)) /\ WF_vars(Deliver(r))
  /\ \A m \in Msgs : WF_vars(AckWait(m) /\ ~Held(m))
=============================================================================
