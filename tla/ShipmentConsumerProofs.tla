------------------------ MODULE ShipmentConsumerProofs ------------------------
(***************************************************************************)
(* What the layers of the shipment consumer guarantee, for every sequence  *)
(* of middlewares: at most one call of the handler for an id under         *)
(* WithTryClaim, no event acknowledged unhandled without it, and           *)
(* EventHandling implemented under WithIdempotency.                        *)
(***************************************************************************)
EXTENDS ShipmentConsumerProperties, TLAPS

(* A callback has a message, and calls only what lies below a layer. *)
Busy ==
  \A r \in Replicas :
    /\ pc[r] # "idle" => job[r].msg \in Msgs
    /\ pc[r] = "handling" => job[r].at >= 1
    /\ pc[r] = "enter" => job[r].at >= 1

TypeInv == TypeOK /\ Busy

-----------------------------------------------------------------------------
(* Type correctness. *)

(* The layers are numbered from 1; the handler comes after the last.       *)
LEMMA ChainDomain ==
  /\ Bottom \in Nat \ {0}
  /\ \A p \in DOMAIN Middlewares : p \in Nat /\ 1 <= p /\ p < Bottom
  /\ \A p \in Nat : 1 <= p /\ p < Bottom => p \in DOMAIN Middlewares
<1>1. Len(Middlewares) \in Nat /\ DOMAIN Middlewares = 1..Len(Middlewares)
  BY ConsumerAssumption
<1>2. QED
  BY <1>1 DEF Bottom

(* A callback's locals when only its layer and its error change. *)
LEMMA MoveType ==
  ASSUME TypeInv, NEW r \in Replicas, NEW stage \in Stages \ {"idle"},
         NEW at \in 0..Bottom, NEW err \in BOOLEAN,
         pc[r] # "idle", stage \in {"handling", "enter"} => at >= 1,
         pc' = [pc EXCEPT ![r] = stage],
         job' = [job EXCEPT ![r].at = at, ![r].err = err]
  PROVE  /\ pc' \in [Replicas -> Stages] /\ job' \in [Replicas -> Jobs] /\ Busy'
<1>1. pc' \in [Replicas -> Stages]
  BY DEF TypeInv, TypeOK
<1>2. job' \in [Replicas -> Jobs]
  BY DEF TypeInv, TypeOK, Jobs
<1>3. /\ job'[r].msg = job[r].msg /\ job'[r].at = at /\ pc'[r] = stage
      /\ \A s \in Replicas \ {r} : job'[s] = job[s] /\ pc'[s] = pc[s]
  BY DEF TypeInv, TypeOK, Jobs
<1>4. Busy'
  BY <1>3 DEF TypeInv, Busy
<1>5. QED
  BY <1>1, <1>2, <1>4

(* Going down one layer keeps the types. *)
LEMMA DescendType ==
  ASSUME TypeInv, NEW r \in Replicas, job[r].at \in DOMAIN Middlewares,
         pc[r] = "enter", Descend(r)
  PROVE  /\ pc' \in [Replicas -> Stages] /\ job' \in [Replicas -> Jobs] /\ Busy'
<1>1. job[r] \in Jobs /\ job \in [Replicas -> Jobs] /\ pc \in [Replicas -> Stages]
  BY DEF TypeInv, TypeOK
<1>2. job[r].at + 1 \in 0..Bottom /\ job[r].at + 1 >= 1 /\ job[r].err \in BOOLEAN
  BY <1>1, ChainDomain DEF Jobs
<1>3. job' = [job EXCEPT ![r].at = job[r].at + 1, ![r].err = job[r].err]
  BY <1>1 DEF Descend, Jobs
<1>4. pc' = [pc EXCEPT ![r] = "enter"]
  BY <1>1 DEF Descend
<1>5. QED
  BY <1>2, <1>3, <1>4, MoveType DEF Stages

(* The same for a layer or a handler that returns. *)
LEMMA ReturnType ==
  ASSUME TypeInv, NEW r \in Replicas, NEW err \in BOOLEAN,
         job[r].at >= 1, pc[r] # "idle", Return(r, err)
  PROVE  /\ pc' \in [Replicas -> Stages] /\ job' \in [Replicas -> Jobs] /\ Busy'
<1>1. job[r] \in Jobs
  BY DEF TypeInv, TypeOK
<1>2. job[r].at - 1 \in 0..Bottom
  BY <1>1, ChainDomain DEF Jobs
<1>3. QED
  BY <1>2, MoveType DEF Return, Stages

(* The same for a change of stage. *)
LEMMA GotoType ==
  ASSUME TypeInv, NEW r \in Replicas, NEW stage \in Stages, Goto(r, stage),
         pc[r] # "idle", stage # "enter", stage = "handling" => job[r].at >= 1
  PROVE  /\ pc' \in [Replicas -> Stages] /\ job' \in [Replicas -> Jobs] /\ Busy'
BY DEF TypeInv, TypeOK, Busy, Goto

(* The same for a callback that ends. *)
LEMMA FinishType ==
  ASSUME TypeInv, NEW r \in Replicas, Finish(r)
  PROVE  /\ pc' \in [Replicas -> Stages] /\ job' \in [Replicas -> Jobs] /\ Busy'
BY ChainDomain, MaxDeliverAssumption
DEF TypeInv, TypeOK, Busy, Finish, Jobs, IdleJob, Stages

(* Faults are counted up to their bound. *)
LEMMA FaultType ==
  ASSUME TypeOK, NoFault \/ \E f \in FaultKinds : Fault(f)
  PROVE  faults' \in 0..MaxFaults
BY ConsumerAssumption DEF TypeOK, NoFault, Fault

(* The server's operations keep its types. *)
LEMMA ServerType ==
  ASSUME TypeOK, NEW m \in Msgs,
         \/ \E r \in Replicas : Push(m, r)
         \/ \E how \in {"acked", "termed"} : Settle(m, how)
         \/ Requeue(m)
         \/ UNCHANGED consumerVars
  PROVE  /\ status' \in [Msgs -> Statuses]
         /\ deliveries' \in [Msgs -> 0..MaxDeliver]
         /\ inbox' \subseteq [to : Replicas, msg : Msgs, attempt : 1..MaxDeliver]
<1>1. NextAttempt(m) \in 1..MaxDeliver
  BY MaxDeliverAssumption DEF TypeOK, NextAttempt
<1>2. CASE \E r \in Replicas : Push(m, r)
  BY <1>1, <1>2 DEF TypeOK, Push, Statuses
<1>3. CASE ~\E r \in Replicas : Push(m, r)
  BY <1>3 DEF TypeOK, Settle, Requeue, Statuses, consumerVars
<1>4. QED
  BY <1>2, <1>3

(* Nothing has happened yet. *)
LEMMA InitType == Init => TypeInv
BY ChainDomain, ConsumerAssumption, MaxDeliverAssumption
DEF Init, ConsumerInit, TypeInv, TypeOK, Busy, IdleJob, Jobs, Stages, Statuses

(* Every step keeps the types. *)
LEMMA NextType == TypeInv /\ [Next]_vars => TypeInv'
<1> SUFFICES ASSUME TypeInv, [Next]_vars PROVE TypeInv'
  OBVIOUS
<1> USE DEF TypeInv
<1>1. ASSUME NEW r \in Replicas, Deliver(r) PROVE TypeInv'
  <2>1. PICK m \in Msgs : Push(m, r)
    BY <1>1 DEF Deliver
  <2>2. QED
    BY <1>1, <2>1, ServerType DEF Deliver, TypeOK, Busy, history
<1>2. ASSUME NEW r \in Replicas, Take(r) PROVE TypeInv'
  <2>1. PICK c \in inbox :
          /\ inbox' = inbox \ {c}
          /\ pc' = [pc EXCEPT ![r] = IF c.msg \in Malformed THEN "term" ELSE "enter"]
          /\ job' = [job EXCEPT ![r] = [msg |-> c.msg, attempt |-> c.attempt,
                                        at |-> 1, err |-> FALSE]]
    BY <1>2 DEF Take
  <2>2. c.msg \in Msgs /\ c.attempt \in 1..MaxDeliver /\ 1 \in 0..Bottom
    BY ChainDomain DEF TypeOK
  <2>3. /\ pc' \in [Replicas -> Stages] /\ job' \in [Replicas -> Jobs] /\ Busy'
    BY <2>1, <2>2 DEF TypeOK, Busy, Jobs, Stages
  <2>4. QED
    BY <1>2, <2>1, <2>3 DEF Take, TypeOK, history
<1>3. ASSUME NEW r \in Replicas, PassDown(r) \/ TryClaim(r) \/ CheckSeen(r) PROVE TypeInv'
  <2>1. pc[r] = "enter" /\ job[r].at \in DOMAIN Middlewares /\ job[r].at >= 1
    BY <1>3, ChainDomain DEF PassDown, TryClaim, CheckSeen, In
  <2>2. Descend(r) \/ Return(r, FALSE) \/ Return(r, TRUE)
    BY <1>3 DEF PassDown, TryClaim, CheckSeen
  <2>3. /\ pc' \in [Replicas -> Stages] /\ job' \in [Replicas -> Jobs] /\ Busy'
    BY <2>1, <2>2, DescendType, ReturnType
  <2>4. faults' \in 0..MaxFaults
    BY <1>3, FaultType DEF PassDown, TryClaim, CheckSeen, NoFault, FaultKinds
  <2>5. marked' \subseteq Ids
    <3>1. Id(r) \in Ids \cup {NoId}
      BY <2>1, ConsumerAssumption DEF Id, Busy
    <3>2. QED
      BY <1>3, <3>1 DEF PassDown, TryClaim, CheckSeen, TypeOK
  <2>6. QED
    BY <1>3, <2>3, <2>4, <2>5 DEF PassDown, TryClaim, CheckSeen, TypeOK, consumerVars, history
<1>4. ASSUME NEW r \in Replicas, CallHandler(r) PROVE TypeInv'
  <2>1. /\ pc' \in [Replicas -> Stages] /\ job' \in [Replicas -> Jobs] /\ Busy'
    BY <1>4, GotoType DEF CallHandler, Busy, Stages
  <2>2. Id(r) \in Ids \cup {NoId}
    BY <1>4, ConsumerAssumption DEF CallHandler, Busy, Id
  <2>3. started' \in [Ids -> Nat]
    <3>1. CASE Id(r) = NoId
      BY <1>4, <3>1 DEF CallHandler, TypeOK
    <3>2. CASE Id(r) # NoId
      <4>1. started' = [started EXCEPT ![Id(r)] = started[Id(r)] + 1]
        BY <1>4, <3>2 DEF CallHandler
      <4>2. QED
        BY <2>2, <3>2, <4>1 DEF TypeOK
    <3>3. QED
      BY <3>1, <3>2
  <2>4. QED
    BY <1>4, <2>1, <2>3 DEF CallHandler, TypeOK, consumerVars
<1>5. ASSUME NEW r \in Replicas, HandlerReturns(r) PROVE TypeInv'
  <2>1. pc[r] = "handling" /\ job[r].at >= 1 /\ job[r].msg \in Msgs
    BY <1>5 DEF HandlerReturns, Busy
  <2>2. /\ pc' \in [Replicas -> Stages] /\ job' \in [Replicas -> Jobs] /\ Busy'
    BY <1>5, <2>1, ReturnType DEF HandlerReturns
  <2>3. faults' \in 0..MaxFaults
    BY <1>5, FaultType DEF HandlerReturns, FaultKinds
  <2>4. QED
    BY <1>5, <2>1, <2>2, <2>3 DEF HandlerReturns, TypeOK, consumerVars
<1>6. ASSUME NEW r \in Replicas, HandlerPanics(r) \/ Unwind(r) PROVE TypeInv'
  <2>1. /\ pc[r] # "idle" /\ job[r].at \in 0..Bottom /\ job[r].err \in BOOLEAN
        /\ job[r] \in Jobs /\ job \in [Replicas -> Jobs] /\ pc \in [Replicas -> Stages]
    BY <1>6 DEF HandlerPanics, Unwind, TypeOK, Jobs
  <2>2. job[r].at >= 1 /\ job[r].at - 1 \in 0..Bottom
    <3>1. pc[r] = "handling" \/ job[r].at > 0
      BY <1>6 DEF HandlerPanics, Unwind
    <3>2. job[r].at >= 1
      BY <2>1, <3>1, ChainDomain DEF Busy
    <3>3. QED
      BY <2>1, <3>2, ChainDomain
  <2>3. /\ pc' \in [Replicas -> Stages] /\ job' \in [Replicas -> Jobs] /\ Busy'
    <3>1. CASE Return(r, TRUE)
      BY <2>1, <2>2, <3>1, ReturnType
    <3>2. CASE ~Return(r, TRUE)
      <4>1. /\ job' = [job EXCEPT ![r].at = job[r].at - 1, ![r].err = job[r].err]
            /\ pc' = [pc EXCEPT ![r] = "unwind"]
        BY <1>6, <2>1, <3>2 DEF HandlerPanics, Unwind, Jobs
      <4>2. QED
        BY <2>1, <2>2, <4>1, MoveType DEF Stages
    <3>3. QED
      BY <3>1, <3>2
  <2>4. faults' \in 0..MaxFaults
    BY <1>6, FaultType DEF HandlerPanics, Unwind, NoFault, FaultKinds
  <2>5. QED
    BY <1>6, <2>3, <2>4 DEF HandlerPanics, Unwind, TypeOK, consumerVars, history
<1>7. ASSUME NEW r \in Replicas, PassUp(r) \/ Mark(r) PROVE TypeInv'
  <2>1. /\ pc[r] = "return" /\ job[r].at >= 1 /\ job[r].err \in BOOLEAN
        /\ Id(r) \in Ids \cup {NoId}
    BY <1>7, ConsumerAssumption, ChainDomain DEF PassUp, Mark, In, TypeOK, Jobs, Busy, Id
  <2>2. \E err \in BOOLEAN : Return(r, err)
    BY <1>7, <2>1 DEF PassUp, Mark
  <2>3. /\ pc' \in [Replicas -> Stages] /\ job' \in [Replicas -> Jobs] /\ Busy'
    BY <2>1, <2>2, ReturnType
  <2>4. faults' \in 0..MaxFaults
    BY <1>7, FaultType DEF PassUp, Mark, NoFault, FaultKinds
  <2>5. QED
    BY <1>7, <2>1, <2>3, <2>4 DEF PassUp, Mark, TypeOK, consumerVars, history
<1>8. ASSUME NEW r \in Replicas, Decide(r) \/ PublishDLQ(r) PROVE TypeInv'
  <2>1. \E stage \in {"ack", "nak", "bury", "term"} : Goto(r, stage)
    BY <1>8 DEF Decide, PublishDLQ, Outcome
  <2>2. pc[r] \in {"return", "bury"}
    BY <1>8 DEF Decide, PublishDLQ
  <2>3. /\ pc' \in [Replicas -> Stages] /\ job' \in [Replicas -> Jobs] /\ Busy'
    BY <2>1, <2>2, GotoType DEF Stages
  <2>4. faults' \in 0..MaxFaults
    BY <1>8, FaultType DEF Decide, PublishDLQ, NoFault, FaultKinds
  <2>5. dlq' \subseteq Msgs
    BY <1>8, <2>2 DEF Decide, PublishDLQ, TypeOK, Busy
  <2>6. QED
    BY <1>8, <2>3, <2>4, <2>5 DEF Decide, PublishDLQ, TypeOK, consumerVars, history
<1>9. ASSUME NEW r \in Replicas, Ack(r) \/ Nak(r) \/ Term(r) PROVE TypeInv'
  <2>1. /\ pc' \in [Replicas -> Stages] /\ job' \in [Replicas -> Jobs] /\ Busy'
    BY <1>9, FinishType DEF Ack, Nak, Term, Answered
  <2>2. job[r].msg \in Msgs
    BY <1>9 DEF Ack, Nak, Term, Busy
  <2>3. faults' \in 0..MaxFaults
    BY <1>9, FaultType DEF Ack, Nak, Term, Lost, FaultKinds
  <2>4. /\ status' \in [Msgs -> Statuses]
        /\ deliveries' \in [Msgs -> 0..MaxDeliver]
        /\ inbox' \subseteq [to : Replicas, msg : Msgs, attempt : 1..MaxDeliver]
    BY <1>9, <2>2, ServerType DEF Ack, Nak, Term, Lost
  <2>5. QED
    BY <1>9, <2>1, <2>3, <2>4 DEF Ack, Nak, Term, Answered, TypeOK, history
<1>10. ASSUME NEW r \in Replicas, Crash(r) \/ PanicEscapes(r) PROVE TypeInv'
  <2>1. /\ pc' \in [Replicas -> Stages] /\ job' \in [Replicas -> Jobs] /\ Busy'
    BY <1>10, FinishType DEF Crash, PanicEscapes, Restart
  <2>2. faults' \in 0..MaxFaults
    BY <1>10, FaultType DEF Crash, PanicEscapes, FaultKinds
  <2>3. QED
    BY <1>10, <2>1, <2>2 DEF Crash, PanicEscapes, Restart, TypeOK, history
<1>11. ASSUME NEW m \in Msgs, AckWait(m) PROVE TypeInv'
  <2>1. faults' \in 0..MaxFaults
    BY <1>11, FaultType DEF AckWait, FaultKinds
  <2>2. QED
    BY <1>11, <2>1, ServerType DEF AckWait, TypeOK, Busy, history
<1>12. ASSUME NEW id \in Ids, ForgetMark(id) PROVE TypeInv'
  <2>1. faults' \in 0..MaxFaults
    BY <1>12, FaultType DEF ForgetMark, FaultKinds
  <2>2. QED
    BY <1>12, <2>1 DEF ForgetMark, TypeOK, Busy, consumerVars, history
<1>13. ASSUME UNCHANGED vars PROVE TypeInv'
  BY <1>13 DEF vars, consumerVars, history, TypeOK, Busy
<1>14. QED
  BY <1>1, <1>2, <1>3, <1>4, <1>5, <1>6, <1>7, <1>8, <1>9, <1>10, <1>11, <1>12, <1>13
  DEF Next, Step

(* Type correctness of the consumer, for every chain of middlewares. *)
THEOREM ConsumerTypes == Spec => []TypeOK
<1>1. Spec => []TypeInv
  BY InitType, NextType, PTL DEF Spec
<1>2. TypeInv => TypeOK
  BY DEF TypeInv
<1>3. QED
  BY <1>1, <1>2, PTL

-----------------------------------------------------------------------------
(* At most one call of the handler for a claimed id. *)

NothingExpires == "ttl" \notin Faults

(* A step with no new claimant and no call of the handler. *)
LEMMA ClaimFrame ==
  ASSUME ClaimInv, marked \subseteq marked', started' = started,
         \A r \in Replicas, id \in Ids : Claimant(r, id)' => Claimant(r, id)
  PROVE  ClaimInv'
BY DEF ClaimInv, ClaimedRunsOnce

(* A worker that leaves the way down, or starts it, claims nothing. *)
LEMMA NotClaiming ==
  ASSUME TypeInv, NEW r \in Replicas,
         \A s \in Replicas \ {r} : pc'[s] = pc[s] /\ job'[s] = job[s],
         pc'[r] # "enter" \/ job'[r].at = 1
  PROVE  \A s \in Replicas, id \in Ids : Claimant(s, id)' => Claimant(s, id)
<1> SUFFICES ASSUME NEW s \in Replicas, NEW id \in Ids, Claimant(s, id)'
             PROVE  Claimant(s, id)
  OBVIOUS
<1>1. CASE s = r
  BY <1>1, ChainDomain DEF Claimant
<1>2. CASE s # r
  BY <1>2 DEF Claimant, Id
<1>3. QED
  BY <1>1, <1>2

(* Going down past any other layer, or without id, claims nothing. *)
LEMMA DescendClaimsNothing ==
  ASSUME TypeInv, NEW r \in Replicas, pc[r] = "enter", Descend(r),
         job[r].at \in DOMAIN Middlewares,
         Middlewares[job[r].at] # "WithTryClaim" \/ Id(r) = NoId
  PROVE  \A s \in Replicas, id \in Ids : Claimant(s, id)' => Claimant(s, id)
<1> SUFFICES ASSUME NEW s \in Replicas, NEW id \in Ids, Claimant(s, id)'
             PROVE  Claimant(s, id)
  OBVIOUS
<1>1. /\ job'[r].at = job[r].at + 1 /\ job'[r].msg = job[r].msg /\ pc' = pc
      /\ \A q \in Replicas \ {r} : job'[q] = job[q]
      /\ job[r].at \in Nat
  BY ChainDomain DEF TypeInv, TypeOK, Descend, Jobs
<1>2. CASE s = r
  <2>1. PICK p \in DOMAIN Middlewares :
          Middlewares[p] = "WithTryClaim" /\ p < job[r].at + 1
    BY <1>1, <1>2 DEF Claimant
  <2>2. Id(r) = id /\ Id(r) # NoId
    BY <1>1, <1>2, ConsumerAssumption DEF Claimant, Id
  <2>3. p < job[r].at
    BY <1>1, <2>1, <2>2, ChainDomain
  <2>4. QED
    BY <1>1, <1>2, <2>1, <2>2, <2>3 DEF Claimant
<1>3. CASE s # r
  BY <1>1, <1>3 DEF Claimant, Id
<1>4. QED
  BY <1>2, <1>3

(* Other workers keep their locals when one moves. *)
LEMMA OthersRest ==
  ASSUME TypeInv, NEW r \in Replicas, Take(r) \/ Step(r) \/ Crash(r)
  PROVE  \A s \in Replicas \ {r} : pc'[s] = pc[s] /\ job'[s] = job[s]
<1>1. CASE Take(r) \/ HandlerPanics(r) \/ Unwind(r)
  BY <1>1 DEF Take, HandlerPanics, Unwind, Return, TypeInv, TypeOK
<1>2. CASE PassDown(r) \/ TryClaim(r) \/ CheckSeen(r)
  BY <1>2 DEF PassDown, TryClaim, CheckSeen, Descend, Return, TypeInv, TypeOK
<1>3. CASE PassUp(r) \/ Mark(r) \/ HandlerReturns(r)
  BY <1>3 DEF PassUp, Mark, HandlerReturns, Return, TypeInv, TypeOK
<1>4. CASE CallHandler(r) \/ Decide(r) \/ PublishDLQ(r)
  BY <1>4 DEF CallHandler, Decide, PublishDLQ, Goto, TypeInv, TypeOK
<1>5. CASE Ack(r) \/ Nak(r) \/ Term(r) \/ PanicEscapes(r) \/ Crash(r)
  BY <1>5 DEF Ack, Nak, Term, Answered, PanicEscapes, Crash, Restart, Finish, TypeInv, TypeOK
<1>6. QED
  BY <1>1, <1>2, <1>3, <1>4, <1>5 DEF Step

(* A claim: nobody had claimed the id, and no handler was called for it. *)
LEMMA TryClaimKeepsClaims ==
  ASSUME TypeInv, ClaimInv, NEW r \in Replicas, TryClaim(r)
  PROVE  ClaimInv'
<1>1. /\ pc[r] = "enter" /\ job[r].at \in DOMAIN Middlewares /\ job[r].msg \in Msgs
      /\ Id(r) \in Ids
  BY ConsumerAssumption DEF TryClaim, In, TypeInv, Busy, Id
<1>2. marked \subseteq marked' /\ started' = started
  BY DEF TryClaim, history
<1>3. \A s \in Replicas \ {r} : pc'[s] = pc[s] /\ job'[s] = job[s]
  BY OthersRest DEF Step
<1>4. CASE pc'[r] # "enter"
  BY <1>2, <1>3, <1>4, NotClaiming, ClaimFrame
<1>5. CASE pc'[r] = "enter"
  <2>1. Descend(r) /\ Id(r) \notin marked /\ marked' = marked \cup {Id(r)}
    BY <1>5 DEF TryClaim, Return, TypeInv, TypeOK
  <2>2. job'[r].msg = job[r].msg /\ Id(r)' = Id(r)
    BY <2>1 DEF Descend, TypeInv, TypeOK, Jobs, Id
  <2>3. started[Id(r)] = 0
    BY <1>1, <2>1 DEF ClaimInv, TypeInv, TypeOK
  <2>4. \A s \in Replicas : ~Claimant(s, Id(r))
    BY <1>1, <2>1 DEF ClaimInv
  <2>5. \A s \in Replicas, id \in Ids :
          Claimant(s, id)' => (s = r /\ id = Id(r)) \/ (s # r /\ Claimant(s, id))
    BY <1>3, <2>2 DEF Claimant, Id
  <2>6. QED
    BY <1>2, <2>1, <2>3, <2>4, <2>5 DEF ClaimInv, ClaimedRunsOnce
<1>6. QED
  BY <1>4, <1>5

(* The call of the handler: the only claimant, and the first call. *)
LEMMA CallKeepsClaims ==
  ASSUME TypeInv, ClaimInv, Has("WithTryClaim"), NEW r \in Replicas, CallHandler(r)
  PROVE  ClaimInv'
<1>1. /\ pc[r] = "enter" /\ job[r].at = Bottom /\ job[r].msg \in Msgs
      /\ pc' = [pc EXCEPT ![r] = "handling"] /\ job' = job /\ marked' = marked
      /\ Id(r) \in Ids \cup {NoId}
  BY ConsumerAssumption DEF CallHandler, Goto, TypeInv, Busy, Id
<1>2. pc'[r] # "enter" /\ \A s \in Replicas \ {r} : pc'[s] = pc[s] /\ job'[s] = job[s]
  BY <1>1 DEF TypeInv, TypeOK
<1>3. \A s \in Replicas, id \in Ids : Claimant(s, id)' => Claimant(s, id) /\ s # r
  BY <1>2, NotClaiming DEF Claimant
<1>4. CASE Id(r) = NoId
  BY <1>1, <1>3, <1>4, ClaimFrame DEF CallHandler
<1>5. CASE Id(r) # NoId
  <2>1. Claimant(r, Id(r))
    BY <1>1, ChainDomain DEF Claimant, Has
  <2>2. Id(r) \in Ids /\ Id(r) \in marked /\ started[Id(r)] = 0
    BY <1>1, <1>5, <2>1 DEF ClaimInv
  <2>3. started' = [started EXCEPT ![Id(r)] = started[Id(r)] + 1]
    BY <1>5 DEF CallHandler
  <2>4. /\ started'[Id(r)] = 1
        /\ \A id \in Ids \ {Id(r)} : started'[id] = started[id]
    BY <2>2, <2>3 DEF TypeInv, TypeOK
  <2>5. \A s \in Replicas \ {r} : ~Claimant(s, Id(r))
    BY <2>1, <2>2 DEF ClaimInv
  <2>6. QED
    BY <1>1, <1>3, <2>2, <2>4, <2>5 DEF ClaimInv, ClaimedRunsOnce
<1>6. QED
  BY <1>4, <1>5

(* Every step keeps the claims. *)
LEMMA NextClaim ==
  ASSUME Has("WithTryClaim"), NothingExpires, TypeInv, ClaimInv, [Next]_vars
  PROVE  ClaimInv'
<1>1. ASSUME UNCHANGED <<pc, job, marked, started>> PROVE ClaimInv'
  BY <1>1, ClaimFrame DEF Claimant, Id
<1>2. ASSUME NEW r \in Replicas, Deliver(r) PROVE ClaimInv'
  BY <1>1, <1>2 DEF Deliver, history
<1>3. ASSUME NEW r \in Replicas, Take(r) PROVE ClaimInv'
  <2>1. pc'[r] # "enter" \/ job'[r].at = 1
    BY <1>3 DEF Take, TypeInv, TypeOK
  <2>2. QED
    BY <1>3, <2>1, OthersRest, NotClaiming, ClaimFrame DEF Take, history
<1>4. ASSUME NEW r \in Replicas, PassDown(r) PROVE ClaimInv'
  <2>1. /\ pc[r] = "enter" /\ job[r].at \in DOMAIN Middlewares
        /\ Middlewares[job[r].at] # "WithTryClaim" \/ Id(r) = NoId
    BY <1>4 DEF PassDown, In, Transparent
  <2>2. QED
    BY <1>4, <2>1, DescendClaimsNothing, ClaimFrame DEF PassDown, history
<1>5. ASSUME NEW r \in Replicas, CheckSeen(r) PROVE ClaimInv'
  <2>1. /\ pc[r] = "enter" /\ job[r].at \in DOMAIN Middlewares
        /\ Middlewares[job[r].at] # "WithTryClaim"
    BY <1>5 DEF CheckSeen, In
  <2>2. Return(r, FALSE) => pc'[r] # "enter"
    BY DEF Return, TypeInv, TypeOK
  <2>3. CASE Descend(r)
    BY <1>5, <2>1, <2>3, DescendClaimsNothing, ClaimFrame DEF CheckSeen, history
  <2>4. CASE Return(r, FALSE)
    <3>1. \A s \in Replicas \ {r} : pc'[s] = pc[s] /\ job'[s] = job[s]
      BY <1>5, OthersRest DEF Step
    <3>2. QED
      BY <1>5, <2>2, <2>4, <3>1, NotClaiming, ClaimFrame DEF CheckSeen, history
  <2>5. QED
    BY <1>5, <2>3, <2>4 DEF CheckSeen
<1>6. ASSUME NEW r \in Replicas,
             \/ HandlerReturns(r) \/ HandlerPanics(r) \/ PassUp(r) \/ Mark(r) \/ Decide(r)
             \/ Unwind(r) \/ Ack(r) \/ Nak(r) \/ PublishDLQ(r) \/ Term(r) \/ PanicEscapes(r)
             \/ Crash(r)
      PROVE ClaimInv'
  <2>1. \A s \in Replicas \ {r} : pc'[s] = pc[s] /\ job'[s] = job[s]
    BY <1>6, OthersRest DEF Step
  <2>2. pc'[r] # "enter"
    <3>1. CASE HandlerReturns(r) \/ HandlerPanics(r) \/ PassUp(r) \/ Mark(r) \/ Unwind(r)
      BY <3>1 DEF HandlerReturns, HandlerPanics, PassUp, Mark, Unwind, Return, TypeInv, TypeOK
    <3>2. CASE Decide(r) \/ PublishDLQ(r)
      BY <3>2 DEF Decide, PublishDLQ, Outcome, Goto, TypeInv, TypeOK
    <3>3. CASE Ack(r) \/ Nak(r) \/ Term(r) \/ PanicEscapes(r) \/ Crash(r)
      BY <3>3 DEF Ack, Nak, Term, Answered, PanicEscapes, Crash, Restart, Finish, TypeInv, TypeOK
    <3>4. QED
      BY <1>6, <3>1, <3>2, <3>3
  <2>3. marked \subseteq marked' /\ started' = started
    <3>1. CASE HandlerReturns(r) \/ HandlerPanics(r) \/ PassUp(r) \/ Mark(r) \/ Unwind(r)
      BY <3>1 DEF HandlerReturns, HandlerPanics, PassUp, Mark, Unwind, history
    <3>2. CASE Decide(r) \/ PublishDLQ(r)
      BY <3>2 DEF Decide, PublishDLQ, history
    <3>3. CASE Ack(r) \/ Nak(r) \/ Term(r) \/ PanicEscapes(r) \/ Crash(r)
      BY <3>3 DEF Ack, Nak, Term, Answered, PanicEscapes, Crash, Restart, history
    <3>4. QED
      BY <1>6, <3>1, <3>2, <3>3
  <2>4. QED
    BY <2>1, <2>2, <2>3, NotClaiming, ClaimFrame
<1>7. ASSUME NEW m \in Msgs, AckWait(m) PROVE ClaimInv'
  BY <1>1, <1>7 DEF AckWait, history
<1>8. ASSUME NEW id \in Ids, ForgetMark(id) PROVE FALSE
  BY <1>8 DEF ForgetMark, Fault, NothingExpires
<1>9. ASSUME UNCHANGED vars PROVE ClaimInv'
  BY <1>1, <1>9 DEF vars, history
<1>10. QED
  BY <1>2, <1>3, <1>4, <1>5, <1>6, <1>7, <1>8, <1>9, TryClaimKeepsClaims, CallKeepsClaims
  DEF Next, Step

(* With WithTryClaim anywhere in the chain, and as long as no claim        *)
(* expires, the handler is called at most once for an id.                  *)
THEOREM ClaimsRunOnce == Has("WithTryClaim") /\ NothingExpires /\ Spec => []ClaimedRunsOnce
<1>1. Init => ClaimInv
  BY DEF Init, ClaimInv, ClaimedRunsOnce, Claimant
<1>2. ASSUME Has("WithTryClaim"), NothingExpires PROVE TypeInv /\ ClaimInv /\ [Next]_vars => ClaimInv'
  BY <1>2, NextClaim
<1>3. ClaimInv => ClaimedRunsOnce
  BY DEF ClaimInv
<1>4. ASSUME Has("WithTryClaim"), NothingExpires PROVE Spec => []ClaimedRunsOnce
  <2>1. TypeInv /\ ClaimInv /\ [Next]_vars => ClaimInv'
    BY <1>2, <1>4
  <2>2. QED
    BY <1>1, <1>3, <2>1, InitType, NextType, PTL DEF Spec
<1>5. QED
  BY <1>4

-----------------------------------------------------------------------------
(* No event acknowledged unhandled. *)

(* More handlers have returned, and nothing else that matters happened. *)
LEMMA HandledGrows ==
  ASSUME NEW m, NEW S, NEW T, HandledBy(m, S), S \subseteq T
  PROVE  HandledBy(m, T)
BY DEF HandledBy

(* A step after which every mark, every return without error and every     *)
(* acknowledgement was there before or is that of a handled event.         *)
LEMMA HandledFrame ==
  ASSUME TypeInv, HandledInv, NEW r \in Replicas,
         done \subseteq done',
         \A s \in Replicas \ {r} : pc'[s] = pc[s] /\ job'[s] = job[s],
         pc'[r] = "ack" \/ (pc'[r] = "return" /\ ~job'[r].err) => HandledBy(job'[r].msg, done'),
         \A id \in marked' \ marked : \E n \in done' : IdOf[n] = id,
         \A m \in Msgs : status'[m] = "acked" => status[m] = "acked" \/ Handled(m)
  PROVE  HandledInv'
<1>1. \A id \in marked' : \E n \in done' : IdOf[n] = id
  BY DEF HandledInv
<1>2. AckedWasHandled'
  BY HandledGrows DEF HandledInv, AckedWasHandled, Handled
<1>3. ASSUME NEW s \in Replicas,
             pc'[s] = "ack" \/ (pc'[s] = "return" /\ ~job'[s].err)
      PROVE  HandledBy(job'[s].msg, done')
  <2>1. CASE s = r
    BY <1>3, <2>1
  <2>2. CASE s # r
    <3>1. HandledBy(job[s].msg, done)
      BY <1>3, <2>2 DEF HandledInv, Handled
    <3>2. QED
      BY <2>2, <3>1, HandledGrows
  <2>3. QED
    BY <2>1, <2>2
<1>4. QED
  BY <1>1, <1>2, <1>3 DEF HandledInv, Handled

(* Every step keeps it, if no layer claims ids. *)
LEMMA NextHandled ==
  ASSUME ~Has("WithTryClaim"), TypeInv, HandledInv, [Next]_vars
  PROVE  HandledInv'
<1>1. ASSUME UNCHANGED <<pc, job, done, status>>, marked' \subseteq marked PROVE HandledInv'
  BY <1>1 DEF HandledInv, Handled, HandledBy, AckedWasHandled
<1>2. ASSUME UNCHANGED <<pc, job, done>>, marked' \subseteq marked, NEW m \in Msgs,
             Requeue(m) \/ \E r \in Replicas : Push(m, r)
      PROVE HandledInv'
  <2>1. \A n \in Msgs : status'[n] = "acked" => status[n] = "acked"
    BY <1>2 DEF Requeue, Push, TypeInv, TypeOK
  <2>2. QED
    BY <1>2, <2>1 DEF HandledInv, Handled, HandledBy, AckedWasHandled
<1>3. ASSUME NEW r \in Replicas, Deliver(r) PROVE HandledInv'
  BY <1>2, <1>3 DEF Deliver, history
<1>4. ASSUME NEW r \in Replicas, Take(r) \/ PassDown(r) \/ CallHandler(r) \/ HandlerPanics(r)
      PROVE HandledInv'
  <2>1. pc'[r] \in {"enter", "term", "handling", "unwind"}
    BY <1>4 DEF Take, PassDown, In, Descend, CallHandler, HandlerPanics, Goto, TypeInv, TypeOK
  <2>2. UNCHANGED <<marked, done, status>>
    BY <1>4 DEF Take, PassDown, CallHandler, HandlerPanics, consumerVars, history
  <2>3. QED
    BY <1>4, <2>1, <2>2, OthersRest, HandledFrame DEF Step
<1>5. ASSUME NEW r \in Replicas, TryClaim(r) PROVE FALSE
  BY <1>5 DEF TryClaim, In, Has
<1>6. ASSUME NEW r \in Replicas, CheckSeen(r) PROVE HandledInv'
  <2>1. UNCHANGED <<marked, done, status>> /\ pc[r] = "enter" /\ job[r].msg \in Msgs
        /\ Id(r) # NoId
    BY <1>6 DEF CheckSeen, In, consumerVars, history, TypeInv, Busy
  <2>2. pc'[r] = "enter" \/ (Id(r) \in marked /\ job'[r].msg = job[r].msg /\ pc'[r] = "return")
    BY <1>6 DEF CheckSeen, In, Descend, Return, TypeInv, TypeOK, Jobs
  <2>3. Id(r) \in marked => HandledBy(job[r].msg, done)
    BY <2>1 DEF HandledInv, HandledBy, Id
  <2>4. QED
    BY <1>6, <2>1, <2>2, <2>3, OthersRest, HandledFrame, HandledGrows DEF Step
<1>7. ASSUME NEW r \in Replicas, HandlerReturns(r) PROVE HandledInv'
  <2>1. /\ UNCHANGED <<marked, status>> /\ done \subseteq done' /\ job[r].msg \in Msgs
        /\ pc'[r] = "return" /\ job'[r].msg = job[r].msg
        /\ ~job'[r].err => job[r].msg \in done'
    BY <1>7 DEF HandlerReturns, Return, consumerVars, TypeInv, TypeOK, Jobs, Busy
  <2>2. ~job'[r].err => HandledBy(job'[r].msg, done')
    BY <2>1 DEF HandledBy
  <2>3. QED
    BY <1>7, <2>1, <2>2, OthersRest, HandledFrame DEF Step
<1>8. ASSUME NEW r \in Replicas, PassUp(r) \/ Mark(r) PROVE HandledInv'
  <2>1. /\ UNCHANGED <<done, status>> /\ pc[r] = "return" /\ job[r].msg \in Msgs
        /\ pc'[r] = "return" /\ job'[r].msg = job[r].msg
        /\ ~job'[r].err => ~job[r].err
    BY <1>8
    DEF PassUp, Mark, In, Return, consumerVars, history, TypeInv, TypeOK, Jobs, Busy
  <2>2. ~job[r].err => HandledBy(job[r].msg, done)
    BY <2>1 DEF HandledInv, Handled
  <2>3. \A id \in marked' \ marked :
          id = Id(r) /\ Id(r) # NoId /\ ~job[r].err
    BY <1>8 DEF PassUp, Mark
  <2>4. ~job[r].err => \E n \in done : IdOf[n] = Id(r)
    BY <2>1, <2>2 DEF HandledBy, Id
  <2>5. QED
    BY <1>8, <2>1, <2>2, <2>3, <2>4, OthersRest, HandledFrame, HandledGrows DEF Step
<1>9. ASSUME NEW r \in Replicas, Decide(r) PROVE HandledInv'
  <2>1. /\ UNCHANGED <<marked, done, status, job>> /\ pc[r] = "return"
        /\ pc'[r] = "ack" => ~job[r].err
        /\ pc'[r] # "return"
    BY <1>9 DEF Decide, Outcome, Goto, consumerVars, history, TypeInv, TypeOK
  <2>2. pc'[r] = "ack" => HandledBy(job[r].msg, done)
    BY <2>1 DEF HandledInv, Handled
  <2>3. QED
    BY <1>9, <2>1, <2>2, OthersRest, HandledFrame, HandledGrows DEF Step
<1>10. ASSUME NEW r \in Replicas, Unwind(r) \/ PublishDLQ(r) \/ PanicEscapes(r) \/ Crash(r)
       PROVE HandledInv'
  <2>1. UNCHANGED <<marked, done, status>>
    BY <1>10 DEF Unwind, PublishDLQ, PanicEscapes, Crash, Restart, consumerVars, history
  <2>2. pc'[r] \in {"unwind", "term", "idle"} \/ (pc'[r] = "return" /\ job'[r].err)
    BY <1>10
    DEF Unwind, Return, PublishDLQ, Goto, PanicEscapes, Crash, Restart, Finish,
        TypeInv, TypeOK, Jobs
  <2>3. QED
    BY <1>10, <2>1, <2>2, OthersRest, HandledFrame DEF Step
<1>11. ASSUME NEW r \in Replicas, Ack(r) \/ Nak(r) \/ Term(r) PROVE HandledInv'
  <2>1. UNCHANGED <<marked, done>> /\ pc'[r] = "idle"
    BY <1>11 DEF Ack, Nak, Term, Answered, Finish, history, TypeInv, TypeOK
  <2>2. Ack(r) => Handled(job[r].msg)
    BY DEF Ack, HandledInv, Handled
  <2>3. \A m \in Msgs : status'[m] = "acked" =>
          status[m] = "acked" \/ (m = job[r].msg /\ Ack(r))
    <3>1. CASE Ack(r)
      BY <3>1 DEF Ack, Lost, Settle, consumerVars, TypeInv, TypeOK
    <3>2. CASE Nak(r) \/ Term(r)
      BY <3>2 DEF Nak, Term, Lost, Requeue, Settle, consumerVars, TypeInv, TypeOK
    <3>3. QED
      BY <1>11, <3>1, <3>2
  <2>4. QED
    BY <1>11, <2>1, <2>2, <2>3, OthersRest, HandledFrame DEF Step
<1>12. ASSUME NEW m \in Msgs, AckWait(m) PROVE HandledInv'
  BY <1>2, <1>12 DEF AckWait, history
<1>13. ASSUME NEW id \in Ids, ForgetMark(id) PROVE HandledInv'
  BY <1>1, <1>13 DEF ForgetMark, consumerVars, history
<1>14. ASSUME UNCHANGED vars PROVE HandledInv'
  BY <1>1, <1>14 DEF vars, consumerVars, history
<1>15. QED
  BY <1>3, <1>4, <1>5, <1>6, <1>7, <1>8, <1>9, <1>10, <1>11, <1>12, <1>13, <1>14
  DEF Next, Step

(* Without WithTryClaim, whatever the other layers and whatever fails,     *)
(* crashes or expires: no event is acknowledged unless it was handled, by  *)
(* itself or by another message with its id.                               *)
THEOREM NothingAckedUnhandled == ~Has("WithTryClaim") /\ Spec => []AckedWasHandled
<1>1. Init => HandledInv
  BY DEF Init, ConsumerInit, HandledInv, AckedWasHandled
<1>2. HandledInv => AckedWasHandled
  BY DEF HandledInv
<1>3. ASSUME ~Has("WithTryClaim") PROVE Spec => []AckedWasHandled
  <2>1. TypeInv /\ HandledInv /\ [Next]_vars => HandledInv'
    BY <1>3, NextHandled
  <2>2. QED
    BY <1>1, <1>2, <2>1, InitType, NextType, PTL DEF Spec
<1>4. QED
  BY <1>3

-----------------------------------------------------------------------------
(* What a callback with WithIdempotency may answer. *)

(* The callback of r has returned from a WithIdempotency layer.            *)
Above(r) ==
  \E p \in DOMAIN Middlewares : Middlewares[p] = "WithIdempotency" /\ job[r].at < p

(* What it acknowledges is recorded, what it terminates is copied, and a   *)
(* message that cannot be unmarshalled reaches no other stage.             *)
AnswerOK(r) ==
  /\ pc[r] = "handling" => job[r].at = Bottom
  /\ pc[r] = "return" /\ ~job[r].err /\ Above(r) => Id(r) \in marked \cup {NoId}
  /\ pc[r] = "ack" => Id(r) \in marked \cup {NoId}
  /\ pc[r] = "term" => job[r].msg \in dlq \cup Malformed
  /\ pc[r] # "idle" /\ job[r].msg \in Malformed => pc[r] = "term"

AnswersOK == \A r \in Replicas : AnswerOK(r)

NoDeadLetterLost == "publish" \notin Faults

(* What no callback needs forgotten leaves its answer in order.            *)
LEMMA AnswerRests ==
  ASSUME NEW r \in Replicas, AnswerOK(r), pc'[r] = pc[r], job'[r] = job[r],
         dlq \subseteq dlq', pc[r] # "idle" => (Id(r) \in marked => Id(r) \in marked')
  PROVE  AnswerOK(r)'
BY DEF AnswerOK, Above, Id

(* The same for every callback but one, when nothing is forgotten.         *)
LEMMA AnswersFrame ==
  ASSUME AnswersOK, NEW r \in Replicas, dlq \subseteq dlq', marked \subseteq marked',
         \A s \in Replicas \ {r} : pc'[s] = pc[s] /\ job'[s] = job[s],
         AnswerOK(r)'
  PROVE  AnswersOK'
<1> SUFFICES ASSUME NEW s \in Replicas PROVE AnswerOK(s)'
  BY DEF AnswersOK
<1>1. CASE s = r
  BY <1>1
<1>2. CASE s # r
  BY <1>2, AnswerRests DEF AnswersOK
<1>3. QED
  BY <1>1, <1>2

(* A layer that returns an error, or returns for an id recorded or empty,  *)
(* leaves the answer in order.                                             *)
LEMMA ReturnAnswers ==
  ASSUME TypeInv, AnswersOK, NEW r \in Replicas, NEW err \in BOOLEAN, Return(r, err),
         pc[r] \notin {"idle", "term"},
         err \/ (Id(r) \in marked' \cup {NoId})
             \/ ~\E p \in DOMAIN Middlewares :
                   Middlewares[p] = "WithIdempotency" /\ job[r].at <= p
  PROVE  AnswerOK(r)'
<1>1. /\ pc'[r] = "return" /\ job'[r].msg = job[r].msg /\ job'[r].err = err
      /\ job'[r].at = job[r].at - 1 /\ job[r].at \in Nat
  BY ChainDomain DEF TypeInv, TypeOK, Jobs, Return
<1>2. job[r].msg \notin Malformed
  BY DEF AnswersOK, AnswerOK
<1>3. Id(r)' = Id(r)
  BY <1>1 DEF Id
<1>4. CASE err \/ (Id(r) \in marked' \cup {NoId})
  BY <1>1, <1>2, <1>3, <1>4 DEF AnswerOK
<1>5. CASE ~\E p \in DOMAIN Middlewares :
              Middlewares[p] = "WithIdempotency" /\ job[r].at <= p
  <2>1. \A p \in DOMAIN Middlewares : p \in Nat
    BY ChainDomain
  <2>2. ~Above(r)'
    BY <1>1, <1>5, <2>1 DEF Above
  <2>3. QED
    BY <1>1, <1>2, <2>2 DEF AnswerOK
<1>6. QED
  BY <1>4, <1>5

(* Going down keeps the answer in order. *)
LEMMA DescendAnswers ==
  ASSUME TypeInv, AnswersOK, NEW r \in Replicas, Descend(r), pc[r] = "enter"
  PROVE  AnswerOK(r)'
<1>1. pc'[r] = "enter" /\ job'[r].msg = job[r].msg
  BY DEF TypeInv, TypeOK, Jobs, Descend
<1>2. QED
  BY <1>1 DEF AnswersOK, AnswerOK

(* So does a callback that ends. *)
LEMMA FinishAnswers ==
  ASSUME TypeInv, NEW r \in Replicas, Finish(r)
  PROVE  AnswerOK(r)'
BY DEF TypeInv, TypeOK, Finish, AnswerOK

(* Every step keeps the answers in order, if the chain has the layer.      *)
LEMMA NextAnswers ==
  ASSUME Has("WithIdempotency"), NoDeadLetterLost, TypeInv, AnswersOK, [Next]_vars
  PROVE  AnswersOK'
<1>1. ASSUME UNCHANGED <<pc, job, dlq, marked>> PROVE AnswersOK'
  BY <1>1 DEF AnswersOK, AnswerOK, Above, Id
<1>2. ASSUME NEW r \in Replicas, Deliver(r) PROVE AnswersOK'
  BY <1>1, <1>2 DEF Deliver
<1>3. ASSUME NEW r \in Replicas, Take(r) PROVE AnswersOK'
  <2>1. /\ pc'[r] \in {"enter", "term"}
        /\ pc'[r] = "term" <=> job'[r].msg \in Malformed
    BY <1>3 DEF Take, TypeInv, TypeOK
  <2>2. AnswerOK(r)'
    BY <2>1 DEF AnswerOK
  <2>3. QED
    BY <1>3, <2>2, OthersRest, AnswersFrame DEF Take
<1>4. ASSUME NEW r \in Replicas, PassDown(r) PROVE AnswersOK'
  <2>1. pc[r] = "enter"
    BY <1>4 DEF PassDown, In
  <2>2. QED
    BY <1>4, <2>1, OthersRest, AnswersFrame, DescendAnswers DEF PassDown, Step
<1>5. ASSUME NEW r \in Replicas, TryClaim(r) \/ CheckSeen(r) PROVE AnswersOK'
  <2>1. pc[r] = "enter" /\ marked \subseteq marked' /\ dlq' = dlq
    BY <1>5 DEF TryClaim, CheckSeen, In
  <2>2. Descend(r) \/ Return(r, TRUE) \/ (Return(r, FALSE) /\ Id(r) \in marked')
    BY <1>5 DEF TryClaim, CheckSeen
  <2>3. AnswerOK(r)'
    BY <2>1, <2>2, DescendAnswers, ReturnAnswers
  <2>4. QED
    BY <1>5, <2>1, <2>3, OthersRest, AnswersFrame DEF Step
<1>6. ASSUME NEW r \in Replicas, CallHandler(r) PROVE AnswersOK'
  <2>1. /\ pc'[r] = "handling" /\ job' = job /\ pc[r] = "enter" /\ job[r].at = Bottom
        /\ UNCHANGED <<dlq, marked>>
    BY <1>6 DEF CallHandler, Goto, TypeInv, TypeOK
  <2>2. AnswerOK(r)'
    BY <2>1 DEF AnswersOK, AnswerOK
  <2>3. QED
    BY <1>6, <2>1, <2>2, OthersRest, AnswersFrame DEF Step
<1>7. ASSUME NEW r \in Replicas, HandlerReturns(r) PROVE AnswersOK'
  <2>1. /\ pc[r] = "handling" /\ job[r].at = Bottom /\ UNCHANGED <<dlq, marked>>
        /\ Return(r, FALSE) \/ Return(r, TRUE)
    BY <1>7 DEF HandlerReturns, AnswersOK, AnswerOK
  <2>2. ~\E p \in DOMAIN Middlewares : Middlewares[p] = "WithIdempotency" /\ job[r].at <= p
    BY <2>1, ChainDomain
  <2>3. AnswerOK(r)'
    BY <2>1, <2>2, ReturnAnswers
  <2>4. QED
    BY <1>7, <2>1, <2>3, OthersRest, AnswersFrame DEF Step
<1>8. ASSUME NEW r \in Replicas, PassUp(r) PROVE AnswersOK'
  <2>1. /\ pc[r] = "return" /\ job[r].at \in DOMAIN Middlewares
        /\ job[r].err \in BOOLEAN /\ Return(r, job[r].err) /\ UNCHANGED <<dlq, marked>>
        /\ Middlewares[job[r].at] # "WithIdempotency" \/ job[r].err \/ Id(r) = NoId
    BY <1>8 DEF PassUp, In, TypeInv, TypeOK, Jobs
  <2>2. ASSUME job[r].err PROVE AnswerOK(r)'
    <3>1. Return(r, TRUE)
      BY <2>1, <2>2
    <3>2. QED
      BY <2>1, <3>1, ReturnAnswers
  <2>3. ASSUME ~job[r].err PROVE AnswerOK(r)'
    <3>1. Return(r, FALSE)
      BY <2>1, <2>3
    <3>2. \/ Id(r) \in marked' \cup {NoId}
          \/ ~\E p \in DOMAIN Middlewares :
                Middlewares[p] = "WithIdempotency" /\ job[r].at <= p
      BY <2>1, <2>3, ChainDomain DEF AnswersOK, AnswerOK, Above
    <3>3. QED
      BY <2>1, <3>1, <3>2, ReturnAnswers
  <2>4. QED
    BY <1>8, <2>1, <2>2, <2>3, OthersRest, AnswersFrame DEF Step
<1>9. ASSUME NEW r \in Replicas, Mark(r) PROVE AnswersOK'
  <2>1. pc[r] = "return" /\ marked \subseteq marked' /\ dlq' = dlq
    BY <1>9 DEF Mark, In
  <2>2. Return(r, TRUE) \/ (Return(r, FALSE) /\ Id(r) \in marked')
    BY <1>9 DEF Mark
  <2>3. AnswerOK(r)'
    BY <2>1, <2>2, ReturnAnswers
  <2>4. QED
    BY <1>9, <2>1, <2>3, OthersRest, AnswersFrame DEF Step
<1>10. ASSUME NEW r \in Replicas, Decide(r) PROVE AnswersOK'
  <2>1. /\ pc[r] = "return" /\ job[r].at = 0 /\ job' = job /\ UNCHANGED <<dlq, marked>>
        /\ pc'[r] \in {"ack", "nak", "bury"} /\ (pc'[r] = "ack" => ~job[r].err)
    BY <1>10 DEF Decide, Outcome, Goto, TypeInv, TypeOK
  <2>2. Above(r)
    BY <2>1, ChainDomain DEF Above, Has
  <2>3. AnswerOK(r)'
    BY <2>1, <2>2 DEF AnswersOK, AnswerOK, Id
  <2>4. QED
    BY <1>10, <2>1, <2>3, OthersRest, AnswersFrame DEF Step
<1>11. ASSUME NEW r \in Replicas, HandlerPanics(r) \/ Unwind(r) PROVE AnswersOK'
  <2>1. pc[r] \in {"handling", "unwind"} /\ UNCHANGED <<dlq, marked>>
    BY <1>11 DEF HandlerPanics, Unwind
  <2>2. Return(r, TRUE) \/ (pc'[r] = "unwind" /\ job'[r].msg = job[r].msg)
    BY <1>11 DEF HandlerPanics, Unwind, TypeInv, TypeOK, Jobs
  <2>3. AnswerOK(r)'
    <3>1. CASE Return(r, TRUE)
      BY <2>1, <3>1, ReturnAnswers
    <3>2. CASE pc'[r] = "unwind" /\ job'[r].msg = job[r].msg
      BY <2>1, <3>2 DEF AnswersOK, AnswerOK
    <3>3. QED
      BY <2>2, <3>1, <3>2
  <2>4. QED
    BY <1>11, <2>1, <2>3, OthersRest, AnswersFrame DEF Step
<1>12. ASSUME NEW r \in Replicas, PublishDLQ(r) PROVE AnswersOK'
  <2>1. /\ pc[r] = "bury" /\ pc'[r] = "term" /\ job' = job /\ UNCHANGED marked
        /\ dlq' = dlq \cup {job[r].msg}
    BY <1>12 DEF PublishDLQ, NoDeadLetterLost, Fault, Goto, TypeInv, TypeOK
  <2>2. AnswerOK(r)'
    BY <2>1 DEF AnswerOK
  <2>3. QED
    BY <1>12, <2>1, <2>2, OthersRest, AnswersFrame DEF Step
<1>13. ASSUME NEW r \in Replicas,
              Ack(r) \/ Nak(r) \/ Term(r) \/ PanicEscapes(r) \/ Crash(r)
       PROVE AnswersOK'
  <2>1. Finish(r) /\ UNCHANGED <<dlq, marked>>
    BY <1>13 DEF Ack, Nak, Term, Answered, PanicEscapes, Crash, Restart
  <2>2. QED
    BY <1>13, <2>1, FinishAnswers, OthersRest, AnswersFrame DEF Step
<1>14. ASSUME NEW m \in Msgs, AckWait(m) PROVE AnswersOK'
  BY <1>1, <1>14 DEF AckWait
<1>15. ASSUME NEW id \in Ids, ForgetMark(id) PROVE AnswersOK'
  <2> SUFFICES ASSUME NEW r \in Replicas PROVE AnswerOK(r)'
    BY DEF AnswersOK
  <2>1. pc[r] # "idle" => Id(r) # id
    BY <1>15, ConsumerAssumption DEF ForgetMark, TypeInv, Busy
  <2>2. QED
    BY <1>15, <2>1, AnswerRests DEF ForgetMark, AnswersOK
<1>16. ASSUME UNCHANGED vars PROVE AnswersOK'
  BY <1>1, <1>16 DEF vars
<1>17. QED
  BY <1>2, <1>3, <1>4, <1>5, <1>6, <1>7, <1>8, <1>9, <1>10, <1>11, <1>12, <1>13, <1>14,
     <1>15, <1>16
  DEF Next, Step

-----------------------------------------------------------------------------
(* The step simulation. *)

Outcomes == [m \in Msgs \ Malformed |-> IF status[m] = "acked" THEN "handled"
                                        ELSE IF status[m] = "termed" THEN "dead" ELSE "open"]

(* Settling a message changes its outcome alone, if it has one.            *)
LEMMA SettleOutcome ==
  ASSUME TypeOK, NEW m \in Msgs, NEW how \in {"acked", "termed"}, Settle(m, how)
  PROVE  \/ Outcomes' = Outcomes
         \/ /\ m \in Msgs \ Malformed
            /\ Outcomes[m] = "open"
            /\ Outcomes' = [Outcomes EXCEPT ![m] = IF how = "acked" THEN "handled" ELSE "dead"]
BY DEF TypeOK, Settle, Settled, Outcomes

(* The outcomes stay when the server's view of settled messages does.      *)
LEMMA SameOutcome ==
  ASSUME TypeOK, NEW m \in Msgs,
         Requeue(m) \/ (\E r \in Replicas : Push(m, r)) \/ UNCHANGED status
  PROVE  Outcomes' = Outcomes
BY DEF TypeOK, Requeue, Push, Outcomes

(* Every step of the consumer is one of EventHandling, or a stutter.       *)
LEMMA HandlingStep ==
  ASSUME Has("WithIdempotency"), NoDeadLetterLost, TypeInv, AnswersOK, [Next]_vars
  PROVE  [Promise!Next]_(Promise!vars)
<1>1. UNCHANGED <<Outcomes, marked, dlq>> => UNCHANGED Promise!vars
  BY DEF Promise!vars, Outcomes
<1>2. ASSUME UNCHANGED <<status, marked, dlq>> PROVE UNCHANGED Promise!vars
  BY <1>1, <1>2 DEF Outcomes
<1>3. ASSUME NEW r \in Replicas,
             \/ Take(r) \/ PassDown(r) \/ CheckSeen(r) \/ CallHandler(r) \/ HandlerReturns(r)
             \/ HandlerPanics(r) \/ PassUp(r) \/ Decide(r) \/ Unwind(r) \/ PanicEscapes(r)
             \/ Crash(r)
      PROVE  UNCHANGED Promise!vars
  <2>1. CASE Take(r) \/ PassDown(r) \/ CheckSeen(r) \/ CallHandler(r) \/ HandlerReturns(r)
    BY <1>2, <2>1
    DEF Take, PassDown, CheckSeen, CallHandler, HandlerReturns, consumerVars
  <2>2. CASE HandlerPanics(r) \/ PassUp(r) \/ Decide(r) \/ Unwind(r)
    BY <1>2, <2>2 DEF HandlerPanics, PassUp, Decide, Unwind, consumerVars
  <2>3. CASE PanicEscapes(r) \/ Crash(r)
    BY <1>2, <2>3 DEF PanicEscapes, Crash, Restart
  <2>4. QED
    BY <1>3, <2>1, <2>2, <2>3
<1>4. ASSUME NEW r \in Replicas, TryClaim(r) \/ Mark(r) PROVE [Promise!Next]_(Promise!vars)
  <2>1. pc[r] # "idle" /\ Id(r) # NoId /\ UNCHANGED <<status, dlq>>
    BY <1>4 DEF TryClaim, Mark, In, consumerVars
  <2>2. Id(r) \in Ids
    BY <2>1, ConsumerAssumption DEF TypeInv, Busy, Id
  <2>3. marked' = marked \/ marked' = marked \cup {Id(r)}
    BY <1>4 DEF TryClaim, Mark
  <2>4. CASE marked' = marked
    BY <1>2, <2>1, <2>4
  <2>5. CASE marked' = marked \cup {Id(r)}
    <3>1. Promise!Record(Id(r))
      BY <2>1, <2>5 DEF Promise!Record
    <3>2. QED
      BY <2>2, <3>1 DEF Promise!Next
  <2>6. QED
    BY <2>3, <2>4, <2>5
<1>5. ASSUME NEW r \in Replicas, Ack(r) PROVE [Promise!Next]_(Promise!vars)
  <2>1. job[r].msg \in Msgs
    BY <1>5 DEF Ack, TypeInv, Busy
  <2> PICK m \in Msgs : m = job[r].msg
    BY <2>1
  <2>2. IdOf[m] \in marked \cup {NoId} /\ UNCHANGED <<marked, dlq>>
    BY <1>5 DEF Ack, AnswersOK, AnswerOK, Id, Answered
  <2>3. Settle(m, "acked") \/ UNCHANGED status
    BY <1>5 DEF Ack, Lost, consumerVars
  <2>4. CASE Outcomes' = Outcomes
    BY <1>1, <2>2, <2>4
  <2>5. CASE /\ m \in Msgs \ Malformed /\ Outcomes[m] = "open"
             /\ Outcomes' = [Outcomes EXCEPT ![m] = "handled"]
    <3>1. Promise!Complete(m)
      BY <2>2, <2>5 DEF Promise!Complete, Outcomes
    <3>2. \E n \in Msgs \ Malformed : Promise!Complete(n)
      BY <2>5, <3>1
    <3>3. QED
      BY <3>2 DEF Promise!Next
  <2>6. QED
    BY <2>3, <2>4, <2>5, SettleOutcome, SameOutcome DEF TypeInv
<1>6. ASSUME NEW r \in Replicas, Term(r) PROVE [Promise!Next]_(Promise!vars)
  <2>1. job[r].msg \in Msgs
    BY <1>6 DEF Term, TypeInv, Busy
  <2> PICK m \in Msgs : m = job[r].msg
    BY <2>1
  <2>2. m \in dlq \cup Malformed /\ UNCHANGED <<marked, dlq>>
    BY <1>6 DEF Term, AnswersOK, AnswerOK, Answered
  <2>3. Settle(m, "termed") \/ UNCHANGED status
    BY <1>6 DEF Term, Lost, consumerVars
  <2>4. CASE Outcomes' = Outcomes
    BY <1>1, <2>2, <2>4
  <2>5. CASE /\ m \in Msgs \ Malformed /\ Outcomes[m] = "open"
             /\ Outcomes' = [Outcomes EXCEPT ![m] = "dead"]
    <3>1. Promise!Dismiss(m)
      BY <2>2, <2>5 DEF Promise!Dismiss, Outcomes
    <3>2. \E n \in Msgs \ Malformed : Promise!Dismiss(n)
      BY <2>5, <3>1
    <3>3. QED
      BY <3>2 DEF Promise!Next
  <2>6. QED
    BY <2>3, <2>4, <2>5, SettleOutcome, SameOutcome DEF TypeInv
<1>7. ASSUME NEW r \in Replicas, PublishDLQ(r) PROVE [Promise!Next]_(Promise!vars)
  <2>1. /\ job[r].msg \in Msgs \ Malformed /\ UNCHANGED <<status, marked>>
        /\ dlq' = dlq \cup {job[r].msg}
    BY <1>7
    DEF PublishDLQ, NoDeadLetterLost, Fault, consumerVars, TypeInv, Busy, AnswersOK, AnswerOK
  <2>2. Promise!Copy(job[r].msg)
    BY <2>1 DEF Promise!Copy
  <2>3. QED
    BY <2>1, <2>2 DEF Promise!Next
<1>8. ASSUME NEW r \in Replicas, Nak(r) PROVE UNCHANGED Promise!vars
  <2>1. job[r].msg \in Msgs /\ UNCHANGED <<marked, dlq>>
    BY <1>8 DEF Nak, TypeInv, Busy, Answered
  <2>2. Outcomes' = Outcomes
    BY <1>8, <2>1, SameOutcome DEF Nak, Lost, consumerVars, TypeInv
  <2>3. QED
    BY <1>1, <2>1, <2>2
<1>9. ASSUME NEW r \in Replicas, Deliver(r) PROVE UNCHANGED Promise!vars
  <2>1. UNCHANGED <<marked, dlq>> /\ \E m \in Msgs : Push(m, r)
    BY <1>9 DEF Deliver
  <2>2. Outcomes' = Outcomes
    BY <2>1, SameOutcome DEF TypeInv
  <2>3. QED
    BY <1>1, <2>1, <2>2
<1>10. ASSUME NEW m \in Msgs, AckWait(m) PROVE UNCHANGED Promise!vars
  <2>1. UNCHANGED <<marked, dlq>> /\ Requeue(m)
    BY <1>10 DEF AckWait
  <2>2. Outcomes' = Outcomes
    BY <2>1, SameOutcome DEF TypeInv
  <2>3. QED
    BY <1>1, <2>1, <2>2
<1>11. ASSUME NEW id \in Ids, ForgetMark(id) PROVE [Promise!Next]_(Promise!vars)
  <2>1. UNCHANGED <<status, dlq>> /\ marked' = marked \ {id}
    BY <1>11 DEF ForgetMark, consumerVars
  <2>2. Promise!Forget(id)
    BY <2>1 DEF Promise!Forget
  <2>3. QED
    BY <2>2 DEF Promise!Next
<1>12. CASE UNCHANGED vars
  BY <1>2, <1>12 DEF vars, consumerVars
<1>13. QED
  BY <1>3, <1>4, <1>5, <1>6, <1>7, <1>8, <1>9, <1>10, <1>11, <1>12 DEF Next, Step

(* With WithIdempotency anywhere in the chain, and as long as no dead      *)
(* letter is lost, the consumer implements EventHandling for every message *)
(* that can be unmarshalled, whatever else fails, crashes or expires.      *)
THEOREM EventHandlingImplemented ==
  Has("WithIdempotency") /\ NoDeadLetterLost /\ Spec => HandlingSpec
<1>1. ASSUME Has("WithIdempotency"), NoDeadLetterLost PROVE Spec => HandlingSpec
  <2>1. Init => Promise!Init
    BY DEF Init, ConsumerInit, Promise!Init
  <2>2. Init => TypeInv /\ AnswersOK
    BY InitType DEF Init, AnswersOK, AnswerOK
  <2>3. TypeInv /\ AnswersOK /\ [Next]_vars => (TypeInv /\ AnswersOK)'
    BY <1>1, NextType, NextAnswers
  <2>4. TypeInv /\ AnswersOK /\ [Next]_vars => [Promise!Next]_(Promise!vars)
    BY <1>1, HandlingStep
  <2>5. QED
    BY <2>1, <2>2, <2>3, <2>4, PTL DEF Spec, HandlingSpec, Promise!Spec
<1>2. QED
  BY <1>1
=============================================================================
