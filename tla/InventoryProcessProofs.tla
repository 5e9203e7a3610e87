------------------------ MODULE InventoryProcessProofs ------------------------
(***************************************************************************)
(* The life of the inventory processes, for any number of them, any        *)
(* subjects and events, and any faults.                                    *)
(*                                                                         *)
(* Three arguments.  A process makes its subscriptions in the order of     *)
(* Kinds, so those it has made are known from the place Start has reached, *)
(* Stop, which takes them all, can only miss later ones, and who has one   *)
(* open is a member of its consumer unless that was deleted.  A callback   *)
(* that acknowledges found the mark of its event or set it; either implies *)
(* a change of the stock or a reason for none, because every cache entry   *)
(* was left by somebody or belongs to a callback that runs.  And the       *)
(* changes that an event can still make are paid for: by its first         *)
(* delivery, or by a lapse.                                                *)
(***************************************************************************)
EXTENDS InventoryProcess, FiniteSetTheorems, TLAPS

StarterSteps == {"off", "subscribe", "append", "failed", "done"}
Statuses     == {"queued", "outstanding", "acked", "termed"}
ShipperSteps == {"absent", "down", "redis", "nats", "info", "update", "add", "up"}

ClientTypes ==
  /\ phase \in [Replicas -> Phases] /\ cancelled \in [Replicas -> BOOLEAN]
  /\ starter \in [Replicas -> [next : 1..(Len(Kinds) + 1), at : StarterSteps]]
  /\ subs \in [Replicas -> SUBSET Subjects]
  /\ seen \in [Replicas -> SUBSET Subjects]
  /\ todo \in [Replicas -> SUBSET Subjects]

LinkTypes ==
  /\ live \in [Replicas -> SUBSET Subjects]
  /\ draining \in [Replicas -> SUBSET Subjects]
  /\ connected \in [Replicas -> BOOLEAN]
  /\ consumer \in [Subjects -> [exists : BOOLEAN, creator : Replicas \cup {Nobody},
                                members : SUBSET Replicas]]
  /\ deaf \subseteq Workers

EventTypes ==
  /\ status \in [Msgs -> Statuses] /\ deliveries \in [Msgs -> 0..MaxDeliver]
  /\ inbox \subseteq [to : Replicas, msg : Msgs]
  /\ job \in [Workers -> [msg : Msgs \cup {NoMsg}, stage : Stages, holds : Holdings]]
  /\ applied \in [Msgs -> Nat] /\ lapses \in [Msgs -> Nat]
  /\ marked \subseteq Ids /\ dlq \subseteq Msgs /\ excused \subseteq Msgs
  /\ cached \subseteq Rows /\ left \subseteq cached

(* A callback that runs has an event of its subject, and evicts after an   *)
(* UPDATE only.                                                            *)
JobsFit ==
  \A w \in Workers :
    /\ IF job[w].stage = "idle" THEN job[w] = IdleJob
       ELSE job[w].msg \in Msgs /\ KindOf[job[w].msg] = w[2]
    /\ job[w].stage = "evict" => job[w].holds \in {"blank", "changed"}

-----------------------------------------------------------------------------
(* Start and Stop. *)

(* The subjects before the place n, and those Start has subscribed to. *)
Before(n) == {Kinds[a] : a \in {b \in DOMAIN Kinds : b < n}}

Made(i) == Before(IF starter[i].at = "append" THEN starter[i].next + 1 ELSE starter[i].next)

(* A process that has not come so far has nothing open. *)
NothingYet(i) ==
  /\ starter[i] = [next |-> 1, at |-> "off"]
  /\ subs[i] = {} /\ seen[i] = {} /\ live[i] = {} /\ ~connected[i]

LifeInv(i) ==
  /\ phase[i] \in {"absent", "down", "redis", "nats"} => NothingYet(i)
  /\ starter[i].at \in {"subscribe", "append"} => starter[i].next \in DOMAIN Kinds
  /\ starter[i].at = "done" => starter[i].next = Len(Kinds) + 1
  /\ starter[i].at = "failed" => cancelled[i]
  /\ subs[i] \cup seen[i] \subseteq Before(starter[i].next)
  /\ draining[i] \subseteq live[i]
  /\ phase[i] = "up" /\ connected[i] => live[i] = Made(i)
  /\ phase[i] = "stop" => seen[i] \subseteq subs[i] /\ live[i] \cap seen[i] \subseteq todo[i]
  /\ phase[i] = "drain" => live[i] \cap seen[i] = {}

(* A consumer that does not exist has no members; who subscribes is one,   *)
(* or has lost its consumer.                                               *)
HeardInv ==
  \A k \in Subjects :
    /\ ~consumer[k].exists => consumer[k].members = {}
    /\ \A i \in Replicas : k \in live[i] => i \in consumer[k].members \/ <<i, k>> \in deaf

-----------------------------------------------------------------------------
(* What an acknowledgement implies. *)

(* The event changed the stock, or there was a reason not to. *)
Explained(m) == applied[m] > 0 \/ m \in excused

Accounted(id) == \E n \in Msgs : IdOf[n] = id /\ Explained(n)

(* The callback is past its UPDATE, or there will be none. *)
Settling(w) == job[w].stage \in {"evict", "publish", "mark"} \/ job[w].holds = "blank"

EffectsInv ==
  /\ \A w \in Workers : Settling(w) => Explained(job[w].msg)
  /\ \A w \in Workers : job[w].stage = "ack" => Accounted(IdOf[job[w].msg])
  /\ \A id \in marked : Accounted(id)
  /\ \A m \in Msgs : status[m] = "acked" => Accounted(IdOf[m])

(* Every cache entry was left, or its callback may yet evict it. *)
CacheInv ==
  \A row \in cached : row \in left \/ \E w \in Workers : Filling(w, row)

-----------------------------------------------------------------------------
(* The changes an event can still make: by a copy in a queue, by a         *)
(* callback that looks at its mark, and by one that is past the look.      *)

IsLooking(w) == job[w].stage = "seen"

IsApplying(w) == \/ job[w].stage \in {"read", "fetch"} /\ Alive(w)
                 \/ job[w].stage = "fill"
                 \/ job[w].stage = "update" /\ job[w].holds = "row"

(* The worker of process i for the event m. *)
Of(i, m) == <<i, KindOf[m]>>

Queued(m)   == {i \in Replicas : [to |-> i, msg |-> m] \in inbox}
Looking(m)  == {i \in Replicas : job[Of(i, m)].msg = m /\ IsLooking(Of(i, m))}
Applying(m) == {i \in Replicas : job[Of(i, m)].msg = m /\ IsApplying(Of(i, m))}
Marking(m)  == {i \in Replicas : job[Of(i, m)].msg = m /\ Unmarked(Of(i, m))}

(* a changes were made and there were l lapses; A callbacks are about to   *)
(* change the stock, L and Q may yet find no mark, M are about to set it.  *)
(* There is a mark, and the limit is 2, or there is none, and it is 1.     *)
Budget(a, l, limit, A, L, Q, M) ==
  /\ a + Cardinality(A) <= l + 1
  /\ a + Cardinality(A) + Cardinality(L) + Cardinality(Q) <= l + limit
  /\ limit = 1 /\ A \cup L \cup Q \cup M = {} => a <= l

Limit(m) == IF IsMarked(m) THEN 2 ELSE 1

BudgetInv(m) ==
  Budget(applied[m], lapses[m], Limit(m), Applying(m), Looking(m), Queued(m), Marking(m))

Types == ClientTypes /\ LinkTypes /\ EventTypes /\ JobsFit

ProcessInv ==
  /\ Types
  /\ \A i \in Replicas : LifeInv(i)
  /\ HeardInv
  /\ EffectsInv /\ CacheInv
  /\ \A m \in Msgs : BudgetInv(m)

SetupInv == shipper \in [Shippers -> ShipperSteps] /\ EnsuredWhenUp

-----------------------------------------------------------------------------
(* Facts about the constants.                                              *)

LEMMA Places ==
  /\ Len(Kinds) \in Nat \ {0} /\ DOMAIN Kinds = 1..Len(Kinds)
  /\ \A a \in DOMAIN Kinds : Kinds[a] \in Subjects
  /\ \A k \in Subjects : \E a \in DOMAIN Kinds : Kinds[a] = k
BY ProcessAssumption DEF Subjects, ToSet

(* One place further is one subject more, which none before it is.         *)
LEMMA OneFurther ==
  ASSUME NEW n \in DOMAIN Kinds
  PROVE  Before(n + 1) = Before(n) \cup {Kinds[n]} /\ Kinds[n] \notin Before(n)
BY Places, ProcessAssumption DEF Before

LEMMA Ends == Before(1) = {} /\ Before(Len(Kinds) + 1) = Subjects
BY Places DEF Before

LEMMA WorkersAreFinite == IsFiniteSet(Workers)
<1>1. IsFiniteSet(DOMAIN Kinds)
  BY Places, FS_Interval
<1>2. Kinds \in Surjection(DOMAIN Kinds, Subjects)
  BY Places, ProcessAssumption DEF Surjection
<1>3. IsFiniteSet(Subjects)
  BY <1>1, <1>2, FS_Surjection
<1>4. QED
  BY <1>3, ProcessAssumption, FS_Product DEF Workers

LEMMA WorkersArePairs ==
  /\ \A w \in Workers : w = <<w[1], w[2]>> /\ w[1] \in Replicas /\ w[2] \in Subjects
  /\ \A i \in Replicas, k \in Subjects : <<i, k>> \in Workers
  /\ \A m \in Msgs : KindOf[m] \in Subjects
BY ProcessAssumption DEF Workers, Subjects

-----------------------------------------------------------------------------
(* Types. *)

LEMMA InitTypes == Init => Types
BY Places, ProcessAssumption
DEF Init, Types, ClientTypes, LinkTypes, EventTypes, JobsFit, NoConsumer, IdleJob, Phases,
    Stages, Holdings, StarterSteps, Statuses

LEMMA UnboundTypes ==
  ASSUME LinkTypes, NEW i \in Replicas, NEW ks
  PROVE  /\ Unbound(i) \in [Subjects -> [exists : BOOLEAN, creator : Replicas \cup {Nobody},
                                         members : SUBSET Replicas]]
         /\ Without(i, ks) \in [Subjects -> [exists : BOOLEAN, creator : Replicas \cup {Nobody},
                                             members : SUBSET Replicas]]
         /\ Deafened(i, ks) \subseteq Workers
BY DEF LinkTypes, Unbound, Without, NoConsumer, Deafened

LEMMA EndTypes ==
  ASSUME Types, NEW i \in Replicas, End(i)
  PROVE  Types'
<1>1. ClientTypes'
  BY Places DEF End, Types, ClientTypes, Phases, StarterSteps
<1>2. LinkTypes'
  BY UnboundTypes DEF End, Types, LinkTypes
<1>3. EventTypes' /\ JobsFit'
  <2>1. \A m \in Msgs : Cardinality({w \in Workers : w[1] = i /\ job[w].msg = m /\ Unmarked(w)}) \in Nat
    BY WorkersAreFinite, FS_Subset, FS_CardinalityType
  <2>2. lapses' \in [Msgs -> Nat]
    BY <2>1 DEF End, Types, EventTypes
  <2>3. IdleJob \in [msg : Msgs \cup {NoMsg}, stage : Stages, holds : Holdings]
    BY DEF IdleJob, Stages, Holdings
  <2>4. /\ job' \in [Workers -> [msg : Msgs \cup {NoMsg}, stage : Stages, holds : Holdings]]
        /\ \A w \in Workers : job'[w] = IdleJob \/ job'[w] = job[w]
    BY <2>3 DEF End, Types, EventTypes
  <2>5. JobsFit'
    BY <2>4 DEF Types, JobsFit, IdleJob
  <2>6. /\ inbox' \subseteq inbox /\ cached' = cached
        /\ left' \subseteq cached'
        /\ UNCHANGED <<status, deliveries, applied, marked, dlq, excused>>
    BY DEF End, Types, EventTypes
  <2>7. QED
    BY <2>2, <2>4, <2>5, <2>6 DEF Types, EventTypes
<1>4. QED
  BY <1>1, <1>2, <1>3 DEF Types

(* The steps of run, Start and Stop.                                       *)
LEMMA ClientKeepsTypes ==
  ASSUME Types, NEW i \in Replicas,
         Boot(i) \/ Client(i) \/ Signal(i) \/ Crash(i) \/ Outage(i)
  PROVE  Types'
<1>1. CASE End(i)
  BY <1>1, EndTypes
<1>2. ASSUME NEW ks, Close(i, ks), phase' \in [Replicas -> Phases],
             todo' \in [Replicas -> SUBSET Subjects],
             UNCHANGED <<cancelled, starter, subs, seen>>
      PROVE  Types'
  BY <1>2, UnboundTypes DEF Close, Types, ClientTypes, LinkTypes, EventTypes, JobsFit, cacheVars
<1>3. CASE Boot(i)
  BY <1>3 DEF Boot, Types, ClientTypes, LinkTypes, EventTypes, JobsFit, Phases, linkVars,
              eventVars, cacheVars
<1>4. CASE Redis(i) \/ ContextDone(i) \/ Signal(i) \/ Stop(i) \/ Stopped(i)
  <2>1. CASE End(i)
    BY <1>1, <2>1
  <2>2. CASE ~End(i)
    <3>1. phase' \in [Replicas -> Phases]
      BY <1>4, <2>2 DEF Redis, ContextDone, Signal, Stop, Stopped, Types, ClientTypes, Phases
    <3>2. cancelled' \in [Replicas -> BOOLEAN]
      BY <1>4, <2>2 DEF Redis, ContextDone, Signal, Stop, Stopped, Types, ClientTypes
    <3>3. /\ subs' \in [Replicas -> SUBSET Subjects] /\ seen' \in [Replicas -> SUBSET Subjects]
          /\ todo' \in [Replicas -> SUBSET Subjects]
      BY <1>4, <2>2 DEF Redis, ContextDone, Signal, Stop, Stopped, Types, ClientTypes
    <3>4. UNCHANGED <<starter, linkVars, eventVars>>
      BY <1>4, <2>2, Zenon DEF Redis, ContextDone, Signal, Stop, Stopped
    <3>5. QED
      BY <3>1, <3>2, <3>3, <3>4
      DEF Types, ClientTypes, LinkTypes, EventTypes, JobsFit, linkVars, eventVars, cacheVars
  <2>3. QED
    BY <2>1, <2>2
<1>5. CASE NATS(i)
  <2>1. CASE End(i)
    BY <1>1, <2>1
  <2>2. CASE ~End(i)
    <3>1. phase' \in [Replicas -> Phases] /\ connected' \in [Replicas -> BOOLEAN]
      BY <1>5, <2>2 DEF NATS, Types, ClientTypes, LinkTypes, Phases
    <3>2. [next |-> 1, at |-> "subscribe"] \in [next : 1..(Len(Kinds) + 1), at : StarterSteps]
      BY Places DEF StarterSteps
    <3>3. starter' \in [Replicas -> [next : 1..(Len(Kinds) + 1), at : StarterSteps]]
      BY <1>5, <2>2, <3>2 DEF NATS, Types, ClientTypes
    <3>4. UNCHANGED <<cancelled, subs, seen, todo, live, draining, consumer, deaf, eventVars>>
      BY <1>5, <2>2, Zenon DEF NATS
    <3>5. QED
      BY <3>1, <3>3, <3>4
      DEF Types, ClientTypes, LinkTypes, EventTypes, JobsFit, eventVars, cacheVars
  <2>3. QED
    BY <2>1, <2>2
<1>6. CASE StopTimeout(i)
  BY <1>2, <1>6 DEF StopTimeout, Types, ClientTypes, Phases
<1>7. CASE Exit(i) \/ Crash(i)
  BY <1>1, <1>7 DEF Exit, Crash
<1>8. ASSUME NEW k \in Subjects, Drain(i, k) PROVE Types'
  BY <1>8 DEF Drain, Types, ClientTypes, LinkTypes, EventTypes, JobsFit, clientVars, eventVars,
                cacheVars
<1>9. ASSUME NEW k \in Subjects, Unsubscribe(i, k) PROVE Types'
  BY <1>2, <1>9 DEF Unsubscribe, Types, ClientTypes
<1>10. CASE Outage(i)
  BY <1>10, UnboundTypes
  DEF Outage, Types, ClientTypes, LinkTypes, EventTypes, JobsFit, clientVars, cacheVars
<1>11. QED
  BY Zenon, <1>3, <1>4, <1>5, <1>6, <1>7, <1>8, <1>9, <1>10 DEF Client

LEMMA OtherStep ==
  ASSUME NEW P, NEW Q, NEW f \in [Replicas -> [next : P, at : Q]], NEW i \in Replicas, NEW q \in Q
  PROVE  [f EXCEPT ![i].at = q] \in [Replicas -> [next : P, at : Q]]
OBVIOUS

LEMMA StartKeepsTypes ==
  ASSUME Types, NEW i \in Replicas, Starting(i),
         starter[i].at \in {"subscribe", "append"} => starter[i].next \in DOMAIN Kinds
  PROVE  Types'
<1> DEFINE k == Kinds[starter[i].next]
<1>1. ASSUME Open(i, k), k \in Subjects
      PROVE  /\ live' \in [Replicas -> SUBSET Subjects]
             /\ consumer' \in [Subjects -> [exists : BOOLEAN, creator : Replicas \cup {Nobody},
                                            members : SUBSET Replicas]]
             /\ status' \in [Msgs -> Statuses] /\ deliveries' \in [Msgs -> 0..MaxDeliver]
  <2> HIDE DEF k
  <2>1. live' \in [Replicas -> SUBSET Subjects]
    BY <1>1 DEF Open, Types, LinkTypes
  <2>2. consumer' \in [Subjects -> [exists : BOOLEAN, creator : Replicas \cup {Nobody},
                                    members : SUBSET Replicas]]
    <3>1. CASE consumer' = [consumer EXCEPT ![k] = [exists |-> TRUE, creator |-> i,
                                                      members |-> {i}]]
      BY <1>1, <3>1 DEF Types, LinkTypes
    <3>2. CASE consumer' = [consumer EXCEPT ![k].members = @ \cup {i}]
      BY <1>1, <3>2 DEF Types, LinkTypes
    <3>3. QED
      BY <1>1, <3>1, <3>2 DEF Open
  <2>3. status' \in [Msgs -> Statuses]
    BY <1>1 DEF Open, Types, EventTypes, Statuses
  <2>4. deliveries' \in [Msgs -> 0..MaxDeliver]
    <3>1. 0 \in 0..MaxDeliver
      BY ProcessAssumption
    <3>2. \/ deliveries' = deliveries
          \/ deliveries' = [m \in Msgs |-> IF m \in Due(k) THEN 0 ELSE deliveries[m]]
      BY <1>1 DEF Open
    <3>3. QED
      BY <3>1, <3>2 DEF Types, EventTypes
  <2>5. QED
    BY <2>1, <2>2, <2>3, <2>4
<1>2. CASE Subscribe(i)
  <2>1. k \in Subjects
    BY <1>2, Places DEF Subscribe
  <2> HIDE DEF k
  <2>2. cancelled' \in [Replicas -> BOOLEAN]
    BY <1>2 DEF Subscribe, Types, ClientTypes
  <2>3. starter' \in [Replicas -> [next : 1..(Len(Kinds) + 1), at : StarterSteps]]
    <3>1. \/ starter' = [starter EXCEPT ![i].at = "append"]
          \/ starter' = [starter EXCEPT ![i].at = "failed"]
      BY <1>2, Zenon DEF Subscribe
    <3>2. starter \in [Replicas -> [next : 1..(Len(Kinds) + 1), at : StarterSteps]]
      BY DEF Types, ClientTypes
    <3>3. "append" \in StarterSteps /\ "failed" \in StarterSteps
      BY DEF StarterSteps
    <3> HIDE DEF StarterSteps
    <3>4. [starter EXCEPT ![i].at = "append"]
            \in [Replicas -> [next : 1..(Len(Kinds) + 1), at : StarterSteps]]
      BY <3>2, <3>3, OtherStep
    <3>5. [starter EXCEPT ![i].at = "failed"]
            \in [Replicas -> [next : 1..(Len(Kinds) + 1), at : StarterSteps]]
      BY <3>2, <3>3, OtherStep
    <3>6. QED
      BY <3>1, <3>4, <3>5, Zenon
  <2>4. /\ live' \in [Replicas -> SUBSET Subjects]
        /\ consumer' \in [Subjects -> [exists : BOOLEAN, creator : Replicas \cup {Nobody},
                                       members : SUBSET Replicas]]
        /\ status' \in [Msgs -> Statuses] /\ deliveries' \in [Msgs -> 0..MaxDeliver]
    BY <1>1, <1>2, <2>1 DEF Subscribe, Types, LinkTypes, EventTypes, k
  <2>5. QED
    BY <1>2, <2>2, <2>3, <2>4
    DEF Subscribe, Types, ClientTypes, LinkTypes, EventTypes, JobsFit, cacheVars
<1>3. CASE AppendSub(i)
  <2>1. starter[i].next \in DOMAIN Kinds /\ k \in Subjects
    BY <1>3, Places DEF AppendSub
  <2>2. starter[i].next + 1 \in 1..(Len(Kinds) + 1)
    BY <2>1, Places
  <2>3. ClientTypes'
    BY <1>3, <2>1, <2>2 DEF AppendSub, Types, ClientTypes, StarterSteps
  <2>4. QED
    BY <1>3, <2>3
    DEF AppendSub, Types, LinkTypes, EventTypes, JobsFit, linkVars, eventVars, cacheVars
<1>4. QED
  BY <1>2, <1>3 DEF Starting

(* The calls of a callback. *)
Step(w) ==
  \/ Seen(w) \/ Read(w) \/ Fetch(w) \/ Fill(w) \/ Update(w) \/ UpdateBlank(w)
  \/ Evict(w) \/ Publish(w) \/ Mark(w) \/ PublishDLQ(w)

Moved(w, stage, holds) == job' = [job EXCEPT ![w].stage = stage, ![w].holds = holds]

LEMMA GotoIsMoved ==
  ASSUME Types, NEW w \in Workers, NEW stage, Goto(w, stage)
  PROVE  Moved(w, stage, job[w].holds)
<1>1. job[w] \in [msg : Msgs \cup {NoMsg}, stage : Stages, holds : Holdings]
  BY DEF Types, EventTypes
<1>2. [job[w] EXCEPT !.stage = stage]
        = [job[w] EXCEPT !.stage = stage, !.holds = job[w].holds]
  BY <1>1
<1>3. QED
  BY <1>2, Zenon DEF Goto, Moved

LEMMA StepHasEvent ==
  ASSUME Types, NEW w \in Workers, Step(w)
  PROVE  job[w].stage # "idle" /\ job[w].msg \in Msgs /\ HandlerFrame
<1>1. job[w].stage # "idle" /\ HandlerFrame
  BY DEF Step, Seen, Read, Fetch, Fill, Update, UpdateBlank, Evict, Publish, Mark, PublishDLQ,
         Doing
<1>2. QED
  BY <1>1 DEF Types, JobsFit

LEMMA StepMoves ==
  ASSUME Types, NEW w \in Workers, Step(w)
  PROVE  \E stage \in Stages \ {"idle"}, holds \in Holdings :
           /\ Moved(w, stage, holds)
           /\ stage = "evict" => holds \in {"blank", "changed"}
           /\ holds = "blank" => job[w].holds = "blank" \/ Doing(w, "read")
<1>1. job[w].holds \in Holdings
  BY DEF Types, EventTypes
<1>2. ASSUME NEW stage \in Stages \ {"idle"}, Goto(w, stage),
             stage = "evict" => job[w].holds = "blank"
      PROVE  \E s \in Stages \ {"idle"}, holds \in Holdings :
               /\ Moved(w, s, holds) /\ (s = "evict" => holds \in {"blank", "changed"})
               /\ holds = "blank" => job[w].holds = "blank" \/ Doing(w, "read")
  BY <1>1, <1>2, GotoIsMoved, Zenon
<1>3. GiveUp(w) => Goto(w, "bury") \/ Goto(w, "nak")
  BY DEF GiveUp
<1>4. Failed(w) => GiveUp(w)
  BY DEF Failed
<1>5. /\ WithRow[w[2]] \subseteq {"update", "publish", "mark"}
      /\ WithBlank[w[2]] \subseteq {"update", "publish", "mark"}
  BY WorkersArePairs, ProcessAssumption DEF Subjects
<1>6. CASE Seen(w)
  BY <1>2, <1>6 DEF Seen, Stages
<1>7. CASE Read(w)
  <2>1. CASE Goto(w, "fetch")
    BY <1>2, <2>1 DEF Stages
  <2>2. ASSUME NEW next \in WithBlank[w[2]], GotoWith(w, next, "blank")
        PROVE  Moved(w, next, "blank") /\ next \in Stages \ {"idle", "evict"}
    BY <1>5, <2>2 DEF GotoWith, Moved, Stages
  <2>3. QED
    BY <1>7, <2>1, <2>2 DEF Read, Holdings
<1>8. CASE Fetch(w)
  BY <1>2, <1>3, <1>4, <1>8 DEF Fetch, Stages
<1>9. CASE Fill(w)
  <2>1. PICK next \in WithRow[w[2]] : GotoWith(w, next, "row")
    BY <1>9 DEF Fill
  <2>2. Moved(w, next, "row") /\ next \in Stages \ {"idle", "evict"}
    BY <1>5, <2>1 DEF GotoWith, Moved, Stages
  <2>3. QED
    BY <2>2 DEF Holdings
<1>10. CASE Update(w)
  <2>1. CASE GotoWith(w, "evict", "changed")
    BY <2>1 DEF GotoWith, Moved, Stages, Holdings
  <2>2. CASE GiveUp(w)
    BY <1>2, <1>3, <2>2 DEF Stages
  <2>3. QED
    BY <1>10, <2>1, <2>2 DEF Update
<1>11. CASE UpdateBlank(w)
  BY <1>2, <1>3, <1>4, <1>11 DEF UpdateBlank, Stages
<1>12. CASE Evict(w) \/ Publish(w) \/ Mark(w) \/ PublishDLQ(w)
  BY <1>2, <1>3, <1>4, <1>12 DEF Evict, Publish, Mark, PublishDLQ, Stages
<1>13. QED
  BY <1>6, <1>7, <1>8, <1>9, <1>10, <1>11, <1>12 DEF Step

(* Which callbacks a step leaves alone, and what it leaves of its own.     *)
LEMMA MovedJobs ==
  ASSUME Types, NEW w \in Workers, NEW stage, NEW holds, Moved(w, stage, holds)
  PROVE  /\ \A v \in Workers \ {w} : job'[v] = job[v]
         /\ job'[w].msg = job[w].msg /\ job'[w].stage = stage /\ job'[w].holds = holds
BY DEF Moved, Types, EventTypes

LEMMA GotoJobs ==
  ASSUME Types, NEW w \in Workers
  PROVE  /\ \A s : Goto(w, s) => job'[w].stage = s /\ job'[w].holds = job[w].holds
         /\ \A s, h : GotoWith(w, s, h) => job'[w].stage = s /\ job'[w].holds = h
BY DEF Goto, GotoWith, Types, EventTypes

LEMMA More ==
  ASSUME NEW f \in [Msgs -> Nat], NEW m \in Msgs, NEW n \in Nat
  PROVE  /\ [f EXCEPT ![m] = @ + n] \in [Msgs -> Nat]
         /\ \A k \in Msgs : [f EXCEPT ![m] = @ + n][k] = IF k = m THEN f[k] + n ELSE f[k]
OBVIOUS

(* What the calls change besides the callback. *)
LEMMA StepCounts ==
  ASSUME Types, NEW w \in Workers, Step(w)
  PROVE  /\ \E n \in {0, 1} : applied' = [applied EXCEPT ![job[w].msg] = @ + n]
         /\ \E n \in {0, 1} : lapses' = [lapses EXCEPT ![job[w].msg] = @ + n]
         /\ marked' \in {marked, marked \cup {IdOf[job[w].msg]}}
         /\ excused' \in {excused, excused \cup {job[w].msg}}
<1>1. applied \in [Msgs -> Nat] /\ lapses \in [Msgs -> Nat]
  BY DEF Types, EventTypes
<1>2. /\ applied = [applied EXCEPT ![job[w].msg] = @ + 0]
      /\ lapses = [lapses EXCEPT ![job[w].msg] = @ + 0]
  BY <1>1, StepHasEvent
<1>3. Failed(w) => \E n \in {0, 1} : Lapse(w, n)
  BY DEF Failed
<1>4. UNCHANGED lapses => Lapse(w, 0)
  BY <1>2 DEF Lapse
<1>5. UNCHANGED lapses \/ (\E n \in {0, 1} : Lapse(w, n)) \/ Failed(w)
  <2>1. CASE Seen(w)
    BY <2>1 DEF Seen
  <2>2. CASE Update(w)
    BY <2>2, Zenon DEF Update
  <2>3. CASE ~Seen(w) /\ ~Update(w)
    BY <2>3, Zenon
    DEF Step, Read, Fetch, Fill, UpdateBlank, Evict, Publish, Mark, PublishDLQ, cacheVars
  <2>4. QED
    BY <2>1, <2>2, <2>3
<1>6. \E n \in {0, 1} : lapses' = [lapses EXCEPT ![job[w].msg] = @ + n]
  <2>1. \E n \in {0, 1} : Lapse(w, n)
    BY <1>3, <1>4, <1>5
  <2>2. QED
    BY <2>1, Zenon DEF Lapse
<1>7. \E n \in {0, 1} : applied' = [applied EXCEPT ![job[w].msg] = @ + n]
  <2>1. UNCHANGED applied \/ Update(w)
    BY Zenon
    DEF Step, Seen, Read, Fetch, Fill, UpdateBlank, Evict, Publish, Mark, PublishDLQ
  <2>2. Update(w) => \E n \in {0, 1} : applied' = [applied EXCEPT ![job[w].msg] = @ + n]
    BY Zenon DEF Update
  <2>3. QED
    BY <1>2, <2>1, <2>2
<1>8. marked' \in {marked, marked \cup {IdOf[job[w].msg]}}
  <2>1. UNCHANGED marked \/ Mark(w)
    BY Zenon
    DEF Step, Seen, Read, Fetch, Fill, Update, UpdateBlank, Evict, Publish, PublishDLQ
  <2>2. QED
    BY <2>1 DEF Mark
<1>9. excused' \in {excused, excused \cup {job[w].msg}}
  <2>1. UNCHANGED excused \/ Read(w) \/ Fill(w)
    BY Zenon
    DEF Step, Seen, Fetch, Update, UpdateBlank, Evict, Publish, Mark, PublishDLQ, cacheVars
  <2>2. QED
    BY <2>1 DEF Read, Fill
<1>10. QED
  BY <1>6, <1>7, <1>8, <1>9

LEMMA StepCaches ==
  ASSUME Types, NEW w \in Workers, Step(w)
  PROVE  cached' \subseteq Rows /\ left' \subseteq cached'
<1>1. left \subseteq cached /\ cached \subseteq Rows /\ RowFor(w) \in Rows
  BY StepHasEvent, ProcessAssumption DEF Types, EventTypes, RowFor
<1>2. CASE UNCHANGED <<cached, left>>
  BY <1>1, <1>2
<1>3. CASE Fill(w)
  BY <1>1, <1>3 DEF Fill, Abandon
<1>4. CASE Update(w)
  BY <1>1, <1>4 DEF Update, Abandon
<1>5. CASE Evict(w)
  BY <1>1, <1>5 DEF Evict
<1>6. QED
  BY <1>2, <1>3, <1>4, <1>5, Zenon
  DEF Step, Seen, Read, Fetch, UpdateBlank, Publish, Mark, PublishDLQ, cacheVars

(* The steps of the callbacks and of the server.                           *)
LEMMA HandlerKeepsTypes ==
  ASSUME Types, NEW w \in Workers, Handler(w)
  PROVE  Types'
<1>1. CASE Take(w)
  BY <1>1, WorkersArePairs
  DEF Take, JobsFit, Stages, Holdings, Types, ClientTypes, LinkTypes, EventTypes, clientVars,
      linkVars, cacheVars
<1>2. CASE Step(w)
  <2>1. PICK stage \in Stages \ {"idle"}, holds \in Holdings :
          /\ Moved(w, stage, holds)
          /\ stage = "evict" => holds \in {"blank", "changed"}
    BY <1>2, StepMoves
  <2>2. job[w].stage # "idle" /\ job[w].msg \in Msgs /\ HandlerFrame
    BY <1>2, StepHasEvent
  <2>3. job' \in [Workers -> [msg : Msgs \cup {NoMsg}, stage : Stages, holds : Holdings]]
    BY <2>1 DEF Moved, Types, EventTypes
  <2>4. JobsFit'
    <3>1. \A v \in Workers \ {w} : job'[v] = job[v]
      BY <2>1, MovedJobs
    <3>2. job'[w].msg = job[w].msg /\ job'[w].stage = stage /\ job'[w].holds = holds
      BY <2>1, MovedJobs
    <3>3. KindOf[job[w].msg] = w[2]
      BY <2>2 DEF Types, JobsFit
    <3>4. QED
      BY <2>1, <2>2, <3>1, <3>2, <3>3 DEF Types, JobsFit
  <2>5. applied' \in [Msgs -> Nat] /\ lapses' \in [Msgs -> Nat]
    <3>1. PICK n \in {0, 1} : applied' = [applied EXCEPT ![job[w].msg] = @ + n]
      BY <1>2, StepCounts
    <3>2. PICK l \in {0, 1} : lapses' = [lapses EXCEPT ![job[w].msg] = @ + l]
      BY <1>2, StepCounts
    <3>3. applied \in [Msgs -> Nat] /\ lapses \in [Msgs -> Nat] /\ n \in Nat /\ l \in Nat
      BY DEF Types, EventTypes
    <3>4. applied' \in [Msgs -> Nat]
      BY <2>2, <3>1, <3>3, More
    <3>5. lapses' \in [Msgs -> Nat]
      BY <2>2, <3>2, <3>3, More
    <3>6. QED
      BY <3>4, <3>5
  <2>6. marked' \subseteq Ids /\ excused' \subseteq Msgs
    <3>1. /\ marked' \in {marked, marked \cup {IdOf[job[w].msg]}}
          /\ excused' \in {excused, excused \cup {job[w].msg}}
      BY <1>2, StepCounts
    <3>2. IdOf[job[w].msg] \in Ids
      BY <2>2, ProcessAssumption
    <3>3. QED
      BY <2>2, <3>1, <3>2 DEF Types, EventTypes
  <2>7. dlq' \subseteq Msgs
    <3>1. UNCHANGED dlq \/ PublishDLQ(w)
      BY <1>2, Zenon
      DEF Step, Seen, Read, Fetch, Fill, Update, UpdateBlank, Evict, Publish, Mark
    <3>2. QED
      BY <2>2, <3>1 DEF PublishDLQ, Types, EventTypes
  <2>8. cached' \subseteq Rows /\ left' \subseteq cached'
    BY <1>2, StepCaches
  <2>9. UNCHANGED <<clientVars, linkVars, status, deliveries, inbox>>
    BY <2>2 DEF HandlerFrame
  <2>10. QED
    BY <2>3, <2>4, <2>5, <2>6, <2>7, <2>8, <2>9
    DEF Types, ClientTypes, LinkTypes, EventTypes, clientVars, linkVars
<1>3. CASE Answer(w)
  <2>1. status' \in [Msgs -> Statuses]
    <3> DEFINE settled == IF status[job[w].msg] # "outstanding" THEN status[job[w].msg]
                          ELSE CASE Doing(w, "ack") -> "acked"
                                 [] Doing(w, "nak") -> "queued"
                                 [] OTHER -> "termed"
    <3>1. status' = status \/ status' = [status EXCEPT ![job[w].msg] = settled]
      BY <1>3, Zenon DEF Answer
    <3>2. status[job[w].msg] \in Statuses
      BY <1>3 DEF Answer, Types, EventTypes, JobsFit
    <3>3. {"acked", "queued", "termed"} \subseteq Statuses
      BY DEF Statuses
    <3>4. settled \in Statuses
      BY <3>2, <3>3, Zenon
    <3> HIDE DEF settled
    <3>5. QED
      BY <3>1, <3>4 DEF Types, EventTypes
  <2>2. job' = [job EXCEPT ![w] = IdleJob] /\ IdleJob.stage = "idle"
    BY <1>3 DEF Answer, IdleJob
  <2>3. IdleJob \in [msg : Msgs \cup {NoMsg}, stage : Stages, holds : Holdings]
    BY DEF IdleJob, Stages, Holdings
  <2>4. job' \in [Workers -> [msg : Msgs \cup {NoMsg}, stage : Stages, holds : Holdings]]
    BY <2>2, <2>3 DEF Types, EventTypes
  <2>5. JobsFit'
    BY <2>2 DEF Types, EventTypes, JobsFit
  <2>6. UNCHANGED <<clientVars, linkVars, deliveries, inbox, applied, marked, dlq, lapses,
                    cacheVars>>
    BY <1>3, Zenon DEF Answer
  <2>7. QED
    BY <2>1, <2>4, <2>5, <2>6
    DEF Types, ClientTypes, LinkTypes, EventTypes, clientVars, linkVars, cacheVars
<1>4. QED
  BY <1>1, <1>2, <1>3 DEF Handler, Step

LEMMA ServerKeepsTypes ==
  ASSUME Types,
         \/ \E m \in Msgs : AckWait(m) \/ \E i \in Replicas : Push(i, m)
         \/ \E id \in Ids : Forget(id)
  PROVE  Types'
<1>1. ASSUME status' \in [Msgs -> Statuses], deliveries' \in [Msgs -> 0..MaxDeliver],
             inbox' \subseteq [to : Replicas, msg : Msgs], lapses' \in [Msgs -> Nat],
             marked' \subseteq Ids,
             UNCHANGED <<clientVars, linkVars, job, applied, dlq, cacheVars>>
      PROVE  Types'
  BY <1>1 DEF Types, ClientTypes, LinkTypes, EventTypes, clientVars, linkVars, cacheVars, JobsFit
<1>2. ASSUME NEW m \in Msgs, AckWait(m) PROVE Types'
  <2>1. status' = [status EXCEPT ![m] = "queued"]
    BY <1>2 DEF AckWait
  <2>2. status' \in [Msgs -> Statuses]
    BY <2>1 DEF Types, EventTypes, Statuses
  <2>3. UNCHANGED <<clientVars, linkVars, deliveries, inbox, job, applied, marked, dlq, lapses,
                    cacheVars>>
    BY <1>2 DEF AckWait
  <2>4. QED
    BY <1>1, <2>2, <2>3 DEF Types, EventTypes
<1>3. ASSUME NEW id \in Ids, Forget(id) PROVE Types'
  <2>1. /\ marked' = marked \ {id}
        /\ lapses' = [m \in Msgs |-> IF IdOf[m] = id THEN lapses[m] + 1 ELSE lapses[m]]
        /\ UNCHANGED <<clientVars, linkVars, status, deliveries, inbox, job, applied, dlq, cacheVars>>
    BY <1>3 DEF Forget
  <2>2. lapses' \in [Msgs -> Nat]
    BY <2>1 DEF Types, EventTypes
  <2>3. QED
    BY <1>1, <2>1, <2>2 DEF Types, EventTypes
<1>4. ASSUME NEW m \in Msgs, NEW i \in Replicas, Push(i, m) PROVE Types'
  <2>1. status' = [status EXCEPT ![m] = "outstanding"]
    BY <1>4 DEF Push
  <2>2. status' \in [Msgs -> Statuses]
    BY <2>1 DEF Types, EventTypes, Statuses
  <2>3. deliveries' = [deliveries EXCEPT ![m] = IF @ < MaxDeliver THEN @ + 1 ELSE @]
    BY <1>4 DEF Push
  <2>4. deliveries' \in [Msgs -> 0..MaxDeliver]
    BY <2>3, ProcessAssumption DEF Types, EventTypes
  <2>5. \E n \in {0, 1} : lapses' = [lapses EXCEPT ![m] = @ + n]
    BY <1>4 DEF Push
  <2>6. lapses' \in [Msgs -> Nat]
    BY <2>5, More DEF Types, EventTypes
  <2>7. /\ inbox' = inbox \cup {[to |-> i, msg |-> m]}
        /\ UNCHANGED <<clientVars, linkVars, job, applied, marked, dlq, cacheVars>>
    BY <1>4 DEF Push
  <2>8. QED
    BY <1>1, <2>2, <2>4, <2>6, <2>7 DEF Types, EventTypes
<1>5. QED
  BY <1>2, <1>3, <1>4

LEMMA NextKeepsTypes ==
  ASSUME Types, \A i \in Replicas : LifeInv(i), [Next]_vars
  PROVE  Types'
<1>1. ASSUME NEW i \in Replicas, Starting(i) PROVE Types'
  BY <1>1, StartKeepsTypes DEF LifeInv
<1>2. CASE SetupNext /\ UNCHANGED <<clientVars, linkVars, eventVars, signals>>
  BY <1>2
  DEF Types, ClientTypes, LinkTypes, EventTypes, JobsFit, clientVars, linkVars, eventVars,
      cacheVars
<1>3. CASE UNCHANGED vars
  BY <1>3
  DEF vars, Types, ClientTypes, LinkTypes, EventTypes, JobsFit, clientVars, linkVars, eventVars,
      cacheVars
<1>4. QED
  BY Zenon, <1>1, <1>2, <1>3, ClientKeepsTypes, HandlerKeepsTypes, ServerKeepsTypes DEF Next

-----------------------------------------------------------------------------
(* Start and Stop. *)

LEMMA InitIsLife == Init => \A i \in Replicas : LifeInv(i)
BY Places DEF Init, LifeInv, NothingYet

(* What LifeInv(i) is about.                                               *)
SameLife(i) ==
  /\ phase'[i] = phase[i] /\ cancelled'[i] = cancelled[i] /\ starter'[i] = starter[i]
  /\ subs'[i] = subs[i] /\ seen'[i] = seen[i] /\ todo'[i] = todo[i]
  /\ live'[i] = live[i] /\ draining'[i] = draining[i] /\ connected'[i] = connected[i]

LEMMA SameLifeKeepsInv ==
  ASSUME NEW i \in Replicas, LifeInv(i), SameLife(i)
  PROVE  LifeInv(i)'
BY DEF SameLife, LifeInv, NothingYet, Made

(* A step of one process is none of another's.                             *)
LEMMA OthersAreLeft ==
  ASSUME Types, NEW i \in Replicas, NEW j \in Replicas \ {i},
         Boot(j) \/ Client(j) \/ Starting(j) \/ Signal(j) \/ Crash(j) \/ Outage(j)
  PROVE  SameLife(i)
<1> USE DEF Types, ClientTypes, LinkTypes, SameLife
<1>1. ASSUME End(j) PROVE SameLife(i)
  BY <1>1 DEF End
<1>2. CASE Boot(j) \/ Signal(j) \/ Crash(j)
  BY <1>1, <1>2 DEF Boot, Signal, Crash, linkVars
<1>3. CASE Outage(j)
  BY <1>3 DEF Outage, clientVars
<1>4. CASE Subscribe(j)
  BY <1>4 DEF Subscribe, Open
<1>5. CASE AppendSub(j)
  BY <1>5 DEF AppendSub, linkVars
<1>6. CASE Redis(j) \/ NATS(j) \/ ContextDone(j)
  BY <1>1, <1>6 DEF Redis, NATS, ContextDone, linkVars
<1>7. CASE Stop(j) \/ Stopped(j)
  BY <1>7 DEF Stop, Stopped, linkVars
<1>8. CASE StopTimeout(j)
  BY <1>8 DEF StopTimeout, Close
<1>9. CASE Exit(j)
  BY <1>1, <1>9 DEF Exit
<1>10. ASSUME NEW k, Drain(j, k) \/ Unsubscribe(j, k) PROVE SameLife(i)
  BY <1>10 DEF Drain, Unsubscribe, Close, clientVars
<1>11. QED
  BY Zenon, <1>2, <1>3, <1>4, <1>5, <1>6, <1>7, <1>8, <1>9, <1>10 DEF Client, Starting

(* The steps of a process itself.                                          *)
LEMMA EndKeepsLife ==
  ASSUME Types, NEW i \in Replicas, End(i)
  PROVE  LifeInv(i)'
<1>1. /\ phase'[i] = "down" /\ starter'[i] = [next |-> 1, at |-> "off"] /\ subs'[i] = {}
      /\ seen'[i] = {} /\ live'[i] = {} /\ draining'[i] = {} /\ connected'[i] = FALSE
  BY DEF Types, ClientTypes, LinkTypes, End
<1>2. QED
  BY <1>1 DEF LifeInv, NothingYet

LEMMA StartKeepsLife ==
  ASSUME Types, NEW i \in Replicas, LifeInv(i), Starting(i)
  PROVE  LifeInv(i)'
<1> DEFINE n == starter[i].next
           k == Kinds[n]
<1>1. /\ n \in DOMAIN Kinds /\ k \notin Before(n) /\ Before(n + 1) = Before(n) \cup {k}
      /\ phase[i] \notin {"absent", "down", "redis", "nats"}
  <2>1. starter[i].at \in {"subscribe", "append"}
    BY DEF Starting, Subscribe, AppendSub
  <2>2. QED
    BY <2>1, OneFurther DEF LifeInv, NothingYet
<1>2. CASE Subscribe(i)
  <2>1. /\ phase'[i] = phase[i] /\ subs'[i] = subs[i] /\ seen'[i] = seen[i]
        /\ todo'[i] = todo[i] /\ draining'[i] = draining[i] /\ connected'[i] = connected[i]
    BY <1>2 DEF Subscribe
  <2>2. starter[i].at = "subscribe" /\ starter'[i].next = n
    BY <1>2 DEF Subscribe, Types, ClientTypes
  <2>3. \/ starter'[i].at = "append" /\ live'[i] = live[i] \cup {k} /\ cancelled'[i] = cancelled[i]
        \/ starter'[i].at = "failed" /\ live'[i] = live[i] /\ cancelled'[i]
    BY <1>2 DEF Subscribe, Open, Types, ClientTypes, LinkTypes
  <2> HIDE DEF n, k
  <2>4. /\ Made(i) = Before(n)
        /\ Made(i)' = IF starter'[i].at = "append" THEN Before(n + 1) ELSE Before(n)
    BY <2>2 DEF Made, n
  <2>5. (phase[i] = "up" /\ connected[i] => live'[i] = Made(i)')
    BY <1>1, <2>2, <2>3, <2>4 DEF LifeInv
  <2>6. QED
    BY <1>1, <2>1, <2>2, <2>3, <2>5 DEF LifeInv, n
<1>3. CASE AppendSub(i)
  <2>1. /\ phase'[i] = phase[i] /\ cancelled'[i] = cancelled[i] /\ seen'[i] = seen[i]
        /\ todo'[i] = todo[i] /\ draining'[i] = draining[i] /\ connected'[i] = connected[i]
        /\ live'[i] = live[i]
    BY <1>3 DEF AppendSub, linkVars
  <2>2. /\ starter[i].at = "append" /\ starter'[i].next = n + 1 /\ subs'[i] = subs[i] \cup {k}
        /\ starter'[i].at = IF n = Len(Kinds) THEN "done" ELSE "subscribe"
    BY <1>3 DEF AppendSub, Types, ClientTypes
  <2> HIDE DEF n, k
  <2>3. Made(i) = Before(n + 1) /\ Made(i)' = Before(n + 1)
    BY <2>2 DEF Made, n
  <2>4. n # Len(Kinds) => n + 1 \in DOMAIN Kinds
    BY <1>1, Places
  <2>5. QED
    BY <1>1, <2>1, <2>2, <2>3, <2>4 DEF LifeInv, n
<1>4. QED
  BY <1>2, <1>3 DEF Starting

LEMMA ClientKeepsLife ==
  ASSUME Types, NEW i \in Replicas, LifeInv(i),
         Boot(i) \/ Client(i) \/ Signal(i) \/ Crash(i) \/ Outage(i)
  PROVE  LifeInv(i)'
<1> USE DEF Types, ClientTypes, LinkTypes
<1>1. CASE End(i)
  BY <1>1, EndKeepsLife
<1>2. CASE Boot(i) \/ (Redis(i) /\ ~End(i))
  <2>1. /\ phase[i] \in {"down", "redis"} /\ phase'[i] \in {"redis", "nats"}
        /\ cancelled'[i] = cancelled[i] /\ starter'[i] = starter[i] /\ subs'[i] = subs[i]
        /\ seen'[i] = seen[i] /\ todo'[i] = todo[i] /\ live'[i] = live[i]
        /\ draining'[i] = draining[i] /\ connected'[i] = connected[i]
    BY <1>2 DEF Boot, Redis, linkVars
  <2>2. QED
    BY <2>1 DEF LifeInv, NothingYet
<1>3. CASE NATS(i) /\ ~End(i)
  <2>1. /\ phase[i] = "nats" /\ phase'[i] = "up"
        /\ starter'[i] = [next |-> 1, at |-> "subscribe"] /\ subs'[i] = subs[i]
        /\ seen'[i] = seen[i] /\ live'[i] = live[i] /\ draining'[i] = draining[i]
    BY <1>3 DEF NATS
  <2>2. Made(i)' = {} /\ 1 \in DOMAIN Kinds
    BY <2>1, Ends, Places DEF Made
  <2>3. QED
    BY <2>1, <2>2 DEF LifeInv, NothingYet
<1>4. CASE Signal(i) \/ ContextDone(i)
  <2>1. /\ phase[i] = "up" /\ phase'[i] = "stopping" /\ (cancelled'[i] \/ cancelled'[i] = cancelled[i])
        /\ starter'[i] = starter[i] /\ subs'[i] = subs[i]
        /\ seen'[i] = seen[i] /\ live'[i] = live[i] /\ draining'[i] = draining[i]
    BY <1>4 DEF Signal, ContextDone, linkVars
  <2>2. QED
    BY <2>1 DEF LifeInv
<1>5. CASE Stop(i)
  <2>1. /\ phase[i] = "stopping" /\ phase'[i] = IF subs[i] = {} THEN "drain" ELSE "stop"
        /\ seen'[i] = subs[i] /\ todo'[i] = subs[i]
        /\ cancelled'[i] = cancelled[i] /\ starter'[i] = starter[i] /\ subs'[i] = subs[i]
        /\ live'[i] = live[i] /\ draining'[i] = draining[i]
    BY <1>5 DEF Stop, linkVars
  <2>2. QED
    BY <2>1 DEF LifeInv
<1>6. ASSUME NEW k, Drain(i, k) PROVE LifeInv(i)'
  <2>1. /\ phase[i] = "stop" /\ k \in live[i] /\ draining'[i] = draining[i] \cup {k}
        /\ phase'[i] = phase[i] /\ cancelled'[i] = cancelled[i] /\ starter'[i] = starter[i]
        /\ subs'[i] = subs[i] /\ seen'[i] = seen[i] /\ todo'[i] = todo[i] /\ live'[i] = live[i]
    BY <1>6 DEF Drain, clientVars
  <2>2. QED
    BY <2>1 DEF LifeInv
<1>7. ASSUME NEW k, Unsubscribe(i, k) PROVE LifeInv(i)'
  <2>1. /\ phase[i] = "stop" /\ live'[i] = live[i] \ {k} /\ draining'[i] = draining[i] \ {k}
        /\ todo'[i] = todo[i] \ {k}
        /\ phase'[i] = phase[i] /\ cancelled'[i] = cancelled[i] /\ starter'[i] = starter[i]
        /\ subs'[i] = subs[i] /\ seen'[i] = seen[i]
    BY <1>7 DEF Unsubscribe, Close
  <2>2. QED
    BY <2>1 DEF LifeInv
<1>8. CASE Stopped(i)
  <2>1. /\ phase[i] = "stop" /\ todo[i] = {} /\ phase'[i] = "drain" /\ subs'[i] = {}
        /\ cancelled'[i] = cancelled[i] /\ starter'[i] = starter[i] /\ seen'[i] = seen[i]
        /\ live'[i] = live[i] /\ draining'[i] = draining[i]
    BY <1>8 DEF Stopped, linkVars
  <2>2. QED
    BY <2>1 DEF LifeInv
<1>9. CASE StopTimeout(i)
  <2>1. /\ phase[i] = "stop" /\ phase'[i] = "drain" /\ live'[i] = live[i] \ subs[i]
        /\ draining'[i] = draining[i] \ subs[i] /\ subs'[i] = subs[i]
        /\ cancelled'[i] = cancelled[i] /\ starter'[i] = starter[i] /\ seen'[i] = seen[i]
    BY <1>9 DEF StopTimeout, Close
  <2>2. QED
    BY <2>1 DEF LifeInv
<1>10. CASE Outage(i)
  <2>1. /\ connected[i] /\ ~connected'[i] /\ live'[i] = {} /\ draining'[i] = {}
        /\ phase'[i] = phase[i] /\ cancelled'[i] = cancelled[i] /\ starter'[i] = starter[i]
        /\ subs'[i] = subs[i] /\ seen'[i] = seen[i] /\ todo'[i] = todo[i]
    BY <1>10 DEF Outage, clientVars
  <2>2. QED
    BY <2>1 DEF LifeInv, NothingYet
<1>11. QED
  BY <1>1, <1>2, <1>3, <1>4, <1>5, <1>6, <1>7, <1>8, <1>9, <1>10 DEF Client, Exit, Crash

(* What the callbacks and the server leave alone. *)
LEMMA Elsewhere ==
  ASSUME Types,
         \/ \E w \in Workers : Handler(w)
         \/ \E m \in Msgs : AckWait(m) \/ \E i \in Replicas : Push(i, m)
         \/ \E id \in Ids : Forget(id)
  PROVE  UNCHANGED <<setupVars, clientVars, linkVars>>
<1>1. ASSUME NEW w \in Workers, Handler(w) PROVE UNCHANGED <<setupVars, clientVars, linkVars>>
  <2>1. Step(w) \/ Take(w) \/ Answer(w)
    BY <1>1 DEF Handler, Step
  <2>2. CASE Step(w)
    BY <2>2, StepHasEvent DEF HandlerFrame
  <2>3. CASE Take(w) \/ Answer(w)
    BY <2>3, Zenon DEF Take, Answer
  <2>4. QED
    BY <2>1, <2>2, <2>3
<1>2. QED
  BY <1>1, Zenon DEF AckWait, Push, Forget

LEMMA NextKeepsLife ==
  ASSUME Types, NEW i \in Replicas, LifeInv(i), [Next]_vars
  PROVE  LifeInv(i)'
<1>1. ASSUME NEW j \in Replicas,
             Boot(j) \/ Client(j) \/ Starting(j) \/ Signal(j) \/ Crash(j) \/ Outage(j)
      PROVE  LifeInv(i)'
  BY <1>1, OthersAreLeft, SameLifeKeepsInv, StartKeepsLife, ClientKeepsLife
<1>2. ASSUME UNCHANGED <<clientVars, linkVars>> PROVE LifeInv(i)'
  BY <1>2, SameLifeKeepsInv DEF SameLife, clientVars, linkVars
<1>3. CASE UNCHANGED vars
  BY <1>2, <1>3 DEF vars
<1>4. QED
  BY Zenon, <1>1, <1>2, <1>3, Elsewhere DEF Next

-----------------------------------------------------------------------------
(* Subscriptions and consumers. *)

LEMMA InitHeard == Init => HeardInv
BY DEF Init, HeardInv, NoConsumer

LEMMA GoneKeepsHeard ==
  ASSUME Types, HeardInv, NEW i \in Replicas, consumer' = Unbound(i),
         live' = [live EXCEPT ![i] = {}], deaf' = deaf \ ({i} \X Subjects)
  PROVE  HeardInv'
<1> SUFFICES ASSUME NEW k \in Subjects
             PROVE  /\ ~consumer'[k].exists => consumer'[k].members = {}
                    /\ \A j \in Replicas : k \in live'[j] =>
                         j \in consumer'[k].members \/ <<j, k>> \in deaf'
  BY DEF HeardInv
<1>1. consumer'[k].exists = consumer[k].exists /\ consumer'[k].members = consumer[k].members \ {i}
  BY DEF Unbound, Types, LinkTypes
<1>2. \A j \in Replicas : k \in live'[j] => j # i /\ k \in live[j]
  BY DEF Types, LinkTypes
<1>3. QED
  BY <1>1, <1>2 DEF HeardInv

LEMMA CloseKeepsHeard ==
  ASSUME Types, HeardInv, NEW i \in Replicas, NEW ks, Close(i, ks)
  PROVE  HeardInv'
<1> SUFFICES ASSUME NEW k \in Subjects
             PROVE  /\ ~consumer'[k].exists => consumer'[k].members = {}
                    /\ \A j \in Replicas : k \in live'[j] =>
                         j \in consumer'[k].members \/ <<j, k>> \in deaf'
  BY DEF HeardInv
<1>1. \A j \in Replicas : k \in live'[j] => k \in live[j] /\ (j = i => k \notin ks)
  BY DEF Close, Types, LinkTypes
<1>2. \A j \in Replicas : <<j, k>> \in deaf /\ (j = i => k \notin ks) => <<j, k>> \in deaf'
  BY DEF Close, Deafened
<1>3. CASE k \notin ks
  <2>1. consumer'[k] = consumer[k]
    BY <1>3 DEF Close, Without
  <2>2. QED
    BY <1>1, <1>2, <2>1 DEF HeardInv
<1>4. CASE k \in ks /\ consumer[k].creator = i
  <2>1. consumer'[k] = NoConsumer
    BY <1>4 DEF Close, Without
  <2>2. \A j \in Replicas \ {i} : j \in consumer[k].members => <<j, k>> \in deaf'
    BY <1>4, WorkersArePairs DEF Close, Deafened
  <2>3. QED
    BY <1>1, <1>2, <1>4, <2>1, <2>2 DEF HeardInv, NoConsumer
<1>5. CASE k \in ks /\ consumer[k].creator # i
  <2>1. /\ consumer'[k].exists = consumer[k].exists
        /\ consumer'[k].members = consumer[k].members \ {i}
    BY <1>5 DEF Close, Without, Types, LinkTypes
  <2>2. QED
    BY <1>1, <1>2, <1>5, <2>1 DEF HeardInv
<1>6. QED
  BY <1>3, <1>4, <1>5

LEMMA OpenKeepsHeard ==
  ASSUME Types, HeardInv, NEW i \in Replicas, NEW k \in Subjects, Open(i, k), deaf' = deaf
  PROVE  HeardInv'
<1> SUFFICES ASSUME NEW l \in Subjects
             PROVE  /\ ~consumer'[l].exists => consumer'[l].members = {}
                    /\ \A j \in Replicas : l \in live'[j] =>
                         j \in consumer'[l].members \/ <<j, l>> \in deaf'
  BY DEF HeardInv
<1>1. \A j \in Replicas : l \in live'[j] => l \in live[j] \/ (j = i /\ l = k)
  BY DEF Open, Types, LinkTypes
<1>2. l # k => consumer'[l] = consumer[l]
  BY DEF Open, Types, LinkTypes
<1>3. consumer'[k].exists /\ consumer[k].members \cup {i} \subseteq consumer'[k].members
  <2>1. CASE ~consumer[k].exists
    BY <2>1 DEF Open, Types, LinkTypes, HeardInv
  <2>2. CASE consumer[k].exists
    BY <2>2 DEF Open, Types, LinkTypes
  <2>3. QED
    BY <2>1, <2>2
<1>4. QED
  BY <1>1, <1>2, <1>3 DEF HeardInv

LEMMA NextKeepsHeard ==
  ASSUME Types, HeardInv, \A i \in Replicas : LifeInv(i), [Next]_vars
  PROVE  HeardInv'
<1>1. ASSUME UNCHANGED <<live, consumer, deaf>> PROVE HeardInv'
  BY <1>1 DEF HeardInv
<1>2. ASSUME NEW i \in Replicas, End(i) \/ Outage(i) PROVE HeardInv'
  BY <1>2, GoneKeepsHeard DEF End, Outage
<1>3. ASSUME NEW i \in Replicas, Subscribe(i) PROVE HeardInv'
  <2>1. Kinds[starter[i].next] \in Subjects
    BY <1>3, Places DEF LifeInv, Subscribe
  <2>2. UNCHANGED deaf
    BY <1>3 DEF Subscribe
  <2>3. Open(i, Kinds[starter[i].next]) \/ UNCHANGED <<live, consumer>>
    BY <1>3 DEF Subscribe
  <2>4. QED
    BY <1>1, <2>1, <2>2, <2>3, OpenKeepsHeard
<1>4. ASSUME NEW i \in Replicas,
             Boot(i) \/ Client(i) \/ Starting(i) \/ Signal(i) \/ Crash(i) \/ Outage(i)
      PROVE  HeardInv'
  <2>1. \/ End(i) \/ Outage(i) \/ Subscribe(i) \/ UNCHANGED <<live, consumer, deaf>>
        \/ \E ks : Close(i, ks)
    BY <1>4, Zenon
    DEF Boot, Client, Starting, Signal, Crash, Redis, NATS, ContextDone, Stop, Stopped,
        StopTimeout, Exit, Drain, Unsubscribe, AppendSub, linkVars
  <2>2. QED
    BY <1>1, <1>2, <1>3, <2>1, CloseKeepsHeard
<1>5. CASE UNCHANGED vars
  BY <1>1, <1>5 DEF vars, linkVars
<1>6. CASE UNCHANGED linkVars
  BY <1>1, <1>6 DEF linkVars
<1>7. QED
  BY Zenon, <1>4, <1>5, <1>6, Elsewhere DEF Next

-----------------------------------------------------------------------------
(* What an acknowledgement implies. *)

LEMMA InitEffects == Init => EffectsInv /\ CacheInv
BY DEF Init, EffectsInv, CacheInv, Settling, IdleJob

(* What was explained or accounted for stays so, and a callback comes no   *)
(* further than that.                                                      *)
LEMMA EffectsStay ==
  ASSUME Types, EffectsInv,
         \A m \in Msgs : Explained(m) => Explained(m)',
         \A w \in Workers :
           Settling(w)' => \/ Explained(job[w].msg)'
                           \/ Settling(w) /\ job'[w].msg = job[w].msg /\ job[w].msg \in Msgs,
         \A w \in Workers :
           job'[w].stage = "ack" => \/ Accounted(IdOf[job[w].msg])'
                                    \/ job[w].stage = "ack" /\ job'[w].msg = job[w].msg,
         \A id \in marked' : id \in marked \/ Accounted(id)',
         \A m \in Msgs : status'[m] = "acked" => status[m] = "acked" \/ Accounted(IdOf[m])'
  PROVE  EffectsInv'
<1>1. ASSUME NEW id, Accounted(id) PROVE Accounted(id)'
  BY <1>1 DEF Accounted
<1>2. ASSUME NEW w \in Workers, Settling(w)' PROVE Explained(job[w].msg)'
  <2>1. CASE Settling(w) /\ job'[w].msg = job[w].msg /\ job[w].msg \in Msgs
    <3>1. Explained(job[w].msg)
      BY <2>1 DEF EffectsInv
    <3>2. (\A m \in Msgs : Explained(m) => Explained(m)') /\ job[w].msg \in Msgs
      BY <2>1
    <3>3. QED
      BY <2>1, <3>1, <3>2 DEF Explained
  <2>2. QED
    BY <1>2, <2>1
<1>3. ASSUME NEW w \in Workers, job'[w].stage = "ack" PROVE Accounted(IdOf[job[w].msg])'
  <2>1. CASE job[w].stage = "ack" /\ job'[w].msg = job[w].msg
    <3>1. Accounted(IdOf[job[w].msg])
      BY <2>1 DEF EffectsInv
    <3>2. PICK n \in Msgs : IdOf[n] = IdOf[job[w].msg] /\ Explained(n)
      BY <3>1 DEF Accounted
    <3>3. Explained(n)'
      BY <3>2
    <3>4. QED
      BY <2>1, <3>2, <3>3 DEF Accounted
  <2>2. QED
    BY <1>3, <2>1
<1>4. \A id \in marked' : Accounted(id)'
  BY <1>1 DEF EffectsInv
<1>5. \A m \in Msgs : status'[m] = "acked" => Accounted(IdOf[m])'
  BY <1>1 DEF EffectsInv
<1>6. QED
  BY <1>2, <1>3, <1>4, <1>5 DEF EffectsInv

(* Neither the processes nor the server make a callback go on.             *)
LEMMA ClientKeepsEffects ==
  ASSUME Types, EffectsInv, NEW i \in Replicas,
         Boot(i) \/ Client(i) \/ Starting(i) \/ Signal(i) \/ Crash(i) \/ Outage(i)
  PROVE  EffectsInv'
<1>1. UNCHANGED <<applied, marked, excused>>
  BY Zenon
  DEF Boot, Client, Starting, Signal, Crash, Outage, Redis, NATS, ContextDone, Stop, Stopped,
      StopTimeout, Exit, Drain, Unsubscribe, Subscribe, AppendSub, End, Close, eventVars, cacheVars
<1>2. job' = job \/ job' = [w \in Workers |-> IF w[1] = i THEN IdleJob ELSE job[w]]
  BY Zenon
  DEF Boot, Client, Starting, Signal, Crash, Outage, Redis, NATS, ContextDone, Stop, Stopped,
      StopTimeout, Exit, Drain, Unsubscribe, Subscribe, AppendSub, End, Close, eventVars
<1>3. status' = status \/ status' = [m \in Msgs |-> IF m \in Due(Kinds[starter[i].next])
                                                      THEN "queued" ELSE status[m]]
  BY Zenon
  DEF Boot, Client, Starting, Signal, Crash, Outage, Redis, NATS, ContextDone, Stop, Stopped,
      StopTimeout, Exit, Drain, Unsubscribe, Subscribe, AppendSub, End, Close, Open, eventVars
<1>4. \A w \in Workers : job'[w] = job[w] \/ job'[w] = IdleJob
  BY <1>2
<1>5. \A m \in Msgs : status'[m] \in {"queued", status[m]}
  BY <1>3
<1>6. \A m : Explained(m)' <=> Explained(m)
  BY <1>1 DEF Explained
<1>7. \A id : Accounted(id)' <=> Accounted(id)
  BY <1>6 DEF Accounted
<1>8. \A w \in Workers : Settling(w)' => Settling(w) /\ job'[w] = job[w]
  BY <1>4 DEF Settling, IdleJob
<1>9. \A w \in Workers : job'[w].stage = "ack" => job'[w] = job[w]
  BY <1>4 DEF IdleJob
<1>10. \A w \in Workers : Settling(w)' => Explained(job[w].msg)'
  BY <1>1, <1>8 DEF EffectsInv, Explained
<1>11. \A w \in Workers : job'[w].stage = "ack" => Accounted(IdOf[job[w].msg])'
  BY <1>1, <1>9 DEF EffectsInv, Accounted, Explained
<1>12. \A id \in marked' : Accounted(id)'
  BY <1>1, <1>7 DEF EffectsInv
<1>13. \A m \in Msgs : status'[m] = "acked" => Accounted(IdOf[m])'
  BY <1>5, <1>7 DEF EffectsInv
<1>14. QED
  BY <1>10, <1>11, <1>12, <1>13 DEF EffectsInv

LEMMA ServerKeepsEffects ==
  ASSUME Types, EffectsInv,
         \/ \E m \in Msgs : AckWait(m) \/ \E i \in Replicas : Push(i, m)
         \/ \E id \in Ids : Forget(id)
  PROVE  EffectsInv'
<1>1. /\ UNCHANGED <<applied, job, excused>> /\ marked' \subseteq marked
      /\ \A n \in Msgs : status'[n] = "acked" => status[n] = "acked"
  BY DEF AckWait, Forget, Push, Types, EventTypes, cacheVars
<1>2. QED
  BY <1>1 DEF EffectsInv, Settling, Explained, Accounted

(* Every entry is somebody's, so that a hit is accounted for.              *)
LEMMA StepSettles ==
  ASSUME Types, CacheInv, NEW w \in Workers, Step(w)
  PROVE  /\ \A m \in Msgs : Explained(m) => Explained(m)'
         /\ Settling(w)' => Settling(w) \/ Explained(job[w].msg)'
         /\ job'[w].stage = "ack" => Settling(w) \/ IsMarked(job[w].msg)
         /\ marked' # marked => Settling(w)
<1>1. PICK stage \in Stages \ {"idle"}, holds \in Holdings :
        /\ Moved(w, stage, holds)
        /\ holds = "blank" => job[w].holds = "blank" \/ Doing(w, "read")
  BY StepMoves
<1>2. /\ job'[w].stage = stage /\ job'[w].holds = holds /\ job'[w].msg = job[w].msg
      /\ job[w].msg \in Msgs
  BY <1>1, MovedJobs, StepHasEvent
<1>3. /\ \A m \in Msgs : applied[m] \in Nat /\ applied'[m] \in Nat /\ applied'[m] >= applied[m]
      /\ excused \subseteq excused'
  <2>1. PICK n \in {0, 1} : applied' = [applied EXCEPT ![job[w].msg] = @ + n]
    BY StepCounts
  <2>2. \A m \in Msgs : applied'[m] = IF m = job[w].msg THEN applied[m] + n ELSE applied[m]
    BY <1>2, <2>1 DEF Types, EventTypes
  <2>3. excused \subseteq excused'
    BY StepCounts
  <2>4. QED
    BY <2>2, <2>3 DEF Types, EventTypes
<1>4. \A m \in Msgs : Explained(m) => Explained(m)'
  BY <1>3 DEF Explained
<1>5. GiveUp(w) => stage \in {"bury", "nak"}
  BY <1>2, GotoJobs DEF GiveUp
<1>6. \A s : Goto(w, s) => stage = s /\ holds = job[w].holds
  BY <1>2, GotoJobs
<1>7. \A s, h : GotoWith(w, s, h) => stage = s /\ holds = h
  BY <1>2, GotoJobs
<1>8. /\ WithRow[w[2]] \subseteq {"update", "publish", "mark"}
      /\ WithBlank[w[2]] \subseteq {"update", "publish", "mark"}
  BY WorkersArePairs, ProcessAssumption DEF Subjects
<1>9. Failed(w) => stage \in {"bury", "nak"} /\ holds = job[w].holds
  BY <1>6 DEF Failed, GiveUp
<1>10. CASE Seen(w)
  <2>1. /\ stage = "read" \/ (stage = "ack" /\ IsMarked(job[w].msg))
        /\ holds = job[w].holds /\ marked' = marked
    BY <1>6, <1>10 DEF Seen
  <2>2. QED
    BY <1>2, <1>4, <2>1 DEF Settling
<1>11. CASE Read(w)
  <2>1. marked' = marked
    BY <1>11 DEF Read
  <2>2. CASE Goto(w, "fetch")
    BY <1>2, <1>4, <1>6, <2>1, <2>2 DEF Settling
  <2>3. CASE RowFor(w) \in cached /\ excused' = excused \cup {job[w].msg}
             /\ \E next \in WithBlank[w[2]] : GotoWith(w, next, "blank")
    <3>1. Explained(job[w].msg)' /\ stage # "ack"
      BY <1>2, <1>7, <1>8, <2>3 DEF Explained
    <3>2. QED
      BY <1>2, <1>4, <2>1, <3>1
  <2>4. RowFor(w) \in cached => RowFor(w) \in left \/ \E v \in Workers : Filling(v, RowFor(w))
    BY DEF CacheInv
  <2>5. QED
    BY <1>11, <2>2, <2>3, <2>4 DEF Read
<1>12. CASE Fetch(w)
  <2>1. stage \in {"fill", "bury", "nak"} /\ holds = job[w].holds /\ marked' = marked
    BY <1>6, <1>9, <1>12 DEF Fetch
  <2>2. QED
    BY <1>2, <1>4, <2>1 DEF Settling
<1>13. CASE Fill(w)
  <2>1. marked' = marked
    BY <1>13 DEF Fill
  <2>2. PICK next \in WithRow[w[2]] :
          /\ GotoWith(w, next, "row")
          /\ next # "update" => excused' = excused \cup {job[w].msg}
    BY <1>13 DEF Fill
  <2>3. stage = next /\ holds = "row" /\ next \in {"update", "publish", "mark"}
    BY <1>7, <1>8, <2>2
  <2>4. CASE next = "update"
    BY <1>2, <1>4, <2>1, <2>3, <2>4 DEF Settling
  <2>5. CASE next # "update"
    <3>1. Explained(job[w].msg)'
      BY <1>2, <2>2, <2>5 DEF Explained
    <3>2. QED
      BY <1>2, <1>4, <2>1, <2>3, <3>1
  <2>6. QED
    BY <2>4, <2>5
<1>14. CASE Update(w)
  <2>1. marked' = marked /\ job[w].holds = "row"
    BY <1>14 DEF Update
  <2>2. CASE GiveUp(w)
    <3>1. stage \in {"bury", "nak"} /\ holds = job[w].holds
      BY <1>6, <2>2 DEF GiveUp
    <3>2. QED
      BY <1>2, <1>4, <2>1, <3>1 DEF Settling
  <2>3. CASE GotoWith(w, "evict", "changed") /\ applied' = [applied EXCEPT ![job[w].msg] = @ + 1]
    <3>1. applied'[job[w].msg] = applied[job[w].msg] + 1
      BY <1>2, <2>3, More DEF Types, EventTypes
    <3>2. applied'[job'[w].msg] > 0
      BY <1>2, <1>3, <3>1
    <3>3. stage # "ack"
      BY <1>7, <2>3
    <3>4. QED
      BY <1>2, <1>4, <2>1, <3>2, <3>3 DEF Explained
  <2>4. QED
    BY <1>14, <2>2, <2>3 DEF Update
<1>15. CASE UpdateBlank(w)
  <2>1. Settling(w) /\ marked' = marked
    BY <1>15 DEF UpdateBlank, Settling
  <2>2. QED
    BY <1>4, <2>1
<1>16. CASE Evict(w) \/ Publish(w) \/ Mark(w)
  <2>1. Settling(w)
    BY <1>16 DEF Evict, Publish, Mark, Doing, Settling
  <2>2. QED
    BY <1>4, <2>1
<1>17. CASE PublishDLQ(w)
  <2>1. stage = "term" /\ holds = job[w].holds /\ marked' = marked
    BY <1>6, <1>17 DEF PublishDLQ
  <2>2. QED
    BY <1>2, <1>4, <2>1 DEF Settling
<1>18. QED
  BY <1>10, <1>11, <1>12, <1>13, <1>14, <1>15, <1>16, <1>17 DEF Step

LEMMA HandlerKeepsEffects ==
  ASSUME Types, EffectsInv, CacheInv, NEW w \in Workers, Handler(w)
  PROVE  EffectsInv'
<1>1. \A v \in Workers : Settling(v) => job[v].msg \in Msgs
  BY DEF Types, JobsFit, Settling, IdleJob
<1>2. CASE Take(w)
  <2>1. /\ \A v \in Workers : job'[v] = job[v] \/ (job'[v].stage = "seen" /\ job'[v].holds = "nothing")
        /\ UNCHANGED <<applied, marked, status, excused>>
    BY <1>2 DEF Take, Types, EventTypes, cacheVars
  <2>2. /\ \A v \in Workers : Settling(v)' => Settling(v) /\ job'[v] = job[v]
        /\ \A v \in Workers : job'[v].stage = "ack" => job'[v] = job[v]
    BY <2>1 DEF Settling
  <2>3. QED
    BY <1>1, <2>1, <2>2, EffectsStay DEF Explained
<1>3. CASE Step(w)
  <2>1. PICK stage \in Stages \ {"idle"}, holds \in Holdings : Moved(w, stage, holds)
    BY <1>3, StepMoves
  <2>2. /\ \A v \in Workers \ {w} : job'[v] = job[v]
        /\ job'[w].msg = job[w].msg /\ job[w].msg \in Msgs
    BY <1>3, <2>1, MovedJobs, StepHasEvent
  <2>3. /\ \A m \in Msgs : Explained(m) => Explained(m)'
        /\ Settling(w)' => Settling(w) \/ Explained(job[w].msg)'
        /\ job'[w].stage = "ack" => Settling(w) \/ IsMarked(job[w].msg)
        /\ marked' # marked => Settling(w)
    BY <1>3, StepSettles
  <2>4. Settling(w) => Explained(job[w].msg)
    BY DEF EffectsInv
  <2>5. ASSUME Settling(w) \/ IsMarked(job[w].msg) PROVE Accounted(IdOf[job[w].msg])'
    <3>1. Accounted(IdOf[job[w].msg])
      BY <2>2, <2>4, <2>5 DEF EffectsInv, IsMarked, Accounted
    <3>2. PICK n \in Msgs : IdOf[n] = IdOf[job[w].msg] /\ Explained(n)
      BY <3>1 DEF Accounted
    <3>3. Explained(n)'
      BY <2>3, <3>2
    <3>4. QED
      BY <2>2, <3>2, <3>3 DEF Accounted
  <2>6. status' = status
    BY <1>3, StepHasEvent DEF HandlerFrame
  <2>7. \A id \in marked' : id \in marked \/ Accounted(id)'
    <3>1. marked' = marked \/ (marked' = marked \cup {IdOf[job[w].msg]} /\ Settling(w))
      BY <1>3, <2>3, StepCounts
    <3>2. Settling(w) => Accounted(IdOf[job[w].msg])'
      BY <2>5
    <3>3. Settling(w) => \A id \in {IdOf[job[w].msg]} : Accounted(id)'
      BY <2>2, <3>2 DEF Accounted
    <3>4. QED
      BY <3>1, <3>3
  <2>8. \A v \in Workers :
          Settling(v)' => \/ Explained(job[v].msg)'
                          \/ Settling(v) /\ job'[v].msg = job[v].msg /\ job[v].msg \in Msgs
    BY <1>1, <2>2, <2>3 DEF Settling
  <2>9. \A v \in Workers :
          job'[v].stage = "ack" => \/ Accounted(IdOf[job[v].msg])'
                                   \/ job[v].stage = "ack" /\ job'[v].msg = job[v].msg
    BY <2>2, <2>3, <2>5
  <2>10. QED
    BY <2>3, <2>6, <2>7, <2>8, <2>9, EffectsStay
<1>4. CASE Answer(w)
  <2>1. /\ UNCHANGED <<applied, marked, excused>> /\ job' = [job EXCEPT ![w] = IdleJob]
        /\ \A m \in Msgs : status'[m] = "acked" =>
             status[m] = "acked" \/ (m = job[w].msg /\ job[w].stage = "ack")
    BY <1>4 DEF Answer, Doing, Types, EventTypes, cacheVars
  <2>2. \A v \in Workers : job'[v] = job[v] \/ job'[v] = IdleJob
    BY <2>1 DEF Types, EventTypes
  <2>3. /\ \A v \in Workers : Settling(v)' => Settling(v) /\ job'[v] = job[v]
        /\ \A v \in Workers : job'[v].stage = "ack" => job'[v] = job[v]
    BY <2>2 DEF Settling, IdleJob
  <2>4. \A m : Explained(m)' <=> Explained(m)
    BY <2>1 DEF Explained
  <2>5. \A id : Accounted(id)' <=> Accounted(id)
    BY <2>4 DEF Accounted
  <2>6. \A m \in Msgs : status'[m] = "acked" => status[m] = "acked" \/ Accounted(IdOf[m])'
    BY <2>1, <2>5 DEF EffectsInv
  <2>7. QED
    BY <1>1, <2>1, <2>3, <2>4, <2>6, EffectsStay
<1>5. QED
  BY <1>2, <1>3, <1>4 DEF Handler, Step

LEMMA NextKeepsEffects ==
  ASSUME Types, EffectsInv, CacheInv, [Next]_vars
  PROVE  EffectsInv'
<1>1. ASSUME UNCHANGED eventVars PROVE EffectsInv'
  BY <1>1 DEF eventVars, cacheVars, EffectsInv, Settling, Explained, Accounted
<1>2. QED
  BY Zenon, <1>1, ClientKeepsEffects, ServerKeepsEffects, HandlerKeepsEffects
  DEF Next, vars

(* Who gives up between fill and eviction leaves the entry.                *)
LEMMA StepKeepsCache ==
  ASSUME Types, CacheInv, NEW w \in Workers, Step(w)
  PROVE  CacheInv'
<1>1. PICK stage \in Stages \ {"idle"}, holds \in Holdings : Moved(w, stage, holds)
  BY StepMoves
<1>2. /\ \A v \in Workers \ {w} : job'[v] = job[v]
      /\ job'[w].stage = stage /\ job'[w].holds = holds /\ job'[w].msg = job[w].msg
      /\ job[w].msg \in Msgs
  BY <1>1, MovedJobs, StepHasEvent
<1>3. \A v \in Workers \ {w} : \A row : Filling(v, row) => Filling(v, row)'
  BY <1>2 DEF Filling, RowFor
<1>4. \A row : Filling(w, row) => row = RowFor(w)
  BY DEF Filling
<1>5. ASSUME \A row \in cached' : \/ row \in cached /\ (row \in left => row \in left')
                                                  /\ (row = RowFor(w) => ~Filling(w, row))
                                  \/ row \in left' \/ Filling(w, row)'
      PROVE  CacheInv'
  <2>1. ASSUME NEW row \in cached', row \in cached, row \in left => row \in left',
               row = RowFor(w) => ~Filling(w, row)
        PROVE  row \in left' \/ \E v \in Workers : Filling(v, row)'
    <3>1. row \in left \/ \E v \in Workers : Filling(v, row)
      BY <2>1 DEF CacheInv
    <3>2. ~Filling(w, row)
      BY <1>4, <2>1
    <3>3. QED
      BY <1>3, <2>1, <3>1, <3>2
  <2>2. QED
    BY <1>5, <2>1 DEF CacheInv
<1>6. \A s : Goto(w, s) => stage = s /\ holds = job[w].holds
  BY <1>2, GotoJobs
<1>7. \A s, h : GotoWith(w, s, h) => stage = s /\ holds = h
  BY <1>2, GotoJobs
<1>8. CASE UNCHANGED <<cached, left>> /\ \A row : ~Filling(w, row)
  BY <1>5, <1>8
<1>9. CASE Seen(w) \/ Read(w) \/ Fetch(w) \/ UpdateBlank(w) \/ Publish(w) \/ Mark(w)
           \/ PublishDLQ(w)
  BY <1>8, <1>9, Zenon
  DEF Seen, Read, Fetch, UpdateBlank, Publish, Mark, PublishDLQ, cacheVars, Filling, Doing
<1>10. CASE Fill(w)
  <2>1. cached \subseteq cached' /\ cached' \subseteq cached \cup {RowFor(w)}
    BY <1>10 DEF Fill
  <2>2. PICK next \in WithRow[w[2]] :
          /\ GotoWith(w, next, "row")
          /\ IF next = "update" THEN left' = left ELSE Abandon(w)
    BY <1>10 DEF Fill
  <2>3. \A row : ~Filling(w, row)
    BY <1>10 DEF Fill, Doing, Filling
  <2>4. CASE next = "update"
    <3>1. Filling(w, RowFor(w))'
      BY <1>2, <1>7, <2>2, <2>4 DEF Filling, RowFor
    <3>2. \A row : row = RowFor(w) => Filling(w, row)'
      BY <1>2, <3>1 DEF Filling, RowFor
    <3>3. QED
      BY <1>5, <2>1, <2>2, <2>3, <2>4, <3>2
  <2>5. CASE next # "update"
    <3>1. left' = (left \ {RowFor(w)}) \cup ({RowFor(w)} \cap cached')
      BY <2>2, <2>5 DEF Abandon
    <3>2. QED
      BY <1>5, <2>1, <2>3, <3>1
  <2>6. QED
    BY <2>4, <2>5
<1>11. CASE Update(w)
  <2>1. cached' = cached /\ job[w].holds = "row" /\ job[w].stage = "update"
    BY <1>11 DEF Update, Doing
  <2>2. CASE left' = left /\ GotoWith(w, "evict", "changed")
    <3>1. \A row : row = RowFor(w) => Filling(w, row)'
      BY <1>2, <1>7, <2>2 DEF Filling, RowFor
    <3>2. QED
      BY <1>5, <2>1, <2>2, <3>1
  <2>3. CASE Abandon(w)
    <3>1. left' = (left \ {RowFor(w)}) \cup ({RowFor(w)} \cap cached')
      BY <2>3 DEF Abandon
    <3>2. QED
      BY <1>5, <2>1, <3>1
  <2>4. QED
    BY <1>11, <2>2, <2>3 DEF Update
<1>12. CASE Evict(w)
  <2>1. job[w].stage = "evict" /\ job[w].holds \in {"blank", "changed"}
    BY <1>12 DEF Evict, Doing, Types, JobsFit
  <2>2. CASE job[w].holds = "blank"
    <3>1. cached' = cached /\ left' = left
      BY <1>12, <2>2 DEF Evict
    <3>2. \A row : ~Filling(w, row)
      BY <2>2 DEF Filling
    <3>3. QED
      BY <1>8, <3>1, <3>2
  <2>3. CASE job[w].holds = "changed"
    <3>1. \/ cached' = cached \ {RowFor(w)} /\ left' = left \ {RowFor(w)}
          \/ /\ cached' \in {cached, cached \ {RowFor(w)}}
             /\ left' = (left \ {RowFor(w)}) \cup ({RowFor(w)} \cap cached')
      BY <1>12, <2>3 DEF Evict
    <3>2. QED
      BY <1>5, <3>1
  <2>4. QED
    BY <2>1, <2>2, <2>3
<1>13. QED
  BY <1>9, <1>10, <1>11, <1>12 DEF Step

LEMMA NextKeepsCache ==
  ASSUME Types, CacheInv, [Next]_vars
  PROVE  CacheInv'
<1>1. ASSUME UNCHANGED <<cached, left>>,
             \A v \in Workers : \A row : Filling(v, row) => Filling(v, row)'
      PROVE  CacheInv'
  BY <1>1 DEF CacheInv
<1>2. ASSUME UNCHANGED <<cached, left, job>> PROVE CacheInv'
  BY <1>2 DEF CacheInv, Filling, RowFor
<1>3. ASSUME NEW i \in Replicas, End(i) PROVE CacheInv'
  <2>1. /\ cached' = cached
        /\ left' = left \cup {row \in cached : \E k \in Subjects : Filling(<<i, k>>, row)}
        /\ job' = [w \in Workers |-> IF w[1] = i THEN IdleJob ELSE job[w]]
    BY <1>3 DEF End
  <2>2. \A v \in Workers : \A row : Filling(v, row) => v[1] = i \/ Filling(v, row)'
    BY <2>1 DEF Filling, RowFor
  <2>3. ASSUME NEW v \in Workers, NEW row \in cached, Filling(v, row), v[1] = i
        PROVE  row \in left'
    <3>1. v[2] \in Subjects /\ Filling(<<i, v[2]>>, row)
      BY <2>3, WorkersArePairs
    <3>2. QED
      BY <2>1, <3>1
  <2>4. ASSUME NEW row \in cached', row \notin left'
        PROVE  \E v \in Workers : Filling(v, row)'
    <3>1. PICK v \in Workers : Filling(v, row)
      BY <2>1, <2>4 DEF CacheInv
    <3>2. v[1] # i
      BY <2>1, <2>3, <2>4, <3>1
    <3>3. QED
      BY <2>2, <3>1, <3>2
  <2>5. QED
    BY <2>4 DEF CacheInv
<1>4. ASSUME NEW i \in Replicas,
             Boot(i) \/ Client(i) \/ Starting(i) \/ Signal(i) \/ Crash(i) \/ Outage(i)
      PROVE  CacheInv'
  <2>1. End(i) \/ UNCHANGED <<cached, left, job>>
    BY <1>4, Zenon
    DEF Boot, Client, Starting, Signal, Crash, Outage, Redis, NATS, ContextDone, Stop, Stopped,
        StopTimeout, Exit, Drain, Unsubscribe, Subscribe, AppendSub, Close, eventVars, cacheVars
  <2>2. QED
    BY <1>2, <1>3, <2>1
<1>5. ASSUME NEW w \in Workers, Take(w) \/ Answer(w) PROVE CacheInv'
  <2>1. /\ UNCHANGED <<cached, left>>
        /\ \A v \in Workers : v # w => job'[v] = job[v]
        /\ job[w].stage \notin {"update", "evict"}
    BY <1>5 DEF Take, Answer, Doing, Types, EventTypes, cacheVars
  <2>2. \A v \in Workers : \A row : Filling(v, row) => Filling(v, row)'
    BY <2>1 DEF Filling, RowFor
  <2>3. QED
    BY <1>1, <2>1, <2>2
<1>6. ASSUME NEW w \in Workers, Handler(w) PROVE CacheInv'
  BY <1>5, <1>6, StepKeepsCache DEF Handler, Step
<1>7. ASSUME NEW m, NEW i, Push(i, m) PROVE CacheInv'
  BY <1>2, <1>7 DEF Push, cacheVars
<1>8. ASSUME NEW m, AckWait(m) \/ \E id : Forget(id) PROVE CacheInv'
  BY <1>2, <1>8 DEF AckWait, Forget, cacheVars
<1>9. CASE UNCHANGED eventVars
  BY <1>2, <1>9 DEF eventVars, cacheVars
<1>10. QED
  BY Zenon, <1>4, <1>6, <1>7, <1>8, <1>9 DEF Next, vars

-----------------------------------------------------------------------------
(* The budget of an event. *)

LEMMA SetsOfReplicas ==
  ASSUME NEW S \in SUBSET Replicas
  PROVE  /\ Cardinality(S) \in Nat
         /\ Cardinality(S) = 0 <=> S = {}
         /\ \A T \in SUBSET S : Cardinality(T) <= Cardinality(S)
         /\ \A i \in S : Cardinality(S \ {i}) = Cardinality(S) - 1
         /\ \A i \in Replicas : Cardinality(S \cup {i}) = IF i \in S THEN Cardinality(S)
                                                          ELSE Cardinality(S) + 1
<1>1. IsFiniteSet(S)
  BY ProcessAssumption, FS_Subset
<1>2. QED
  BY <1>1, FS_CardinalityType, FS_EmptySet, FS_Subset, FS_RemoveElement, FS_AddElement

(* Copies and callbacks may go, if those about to set the mark pay for it. *)
LEMMA BudgetLeft ==
  ASSUME NEW a \in Nat, NEW l \in Nat, NEW k \in Nat, NEW limit \in {1, 2}, k >= l,
         NEW A \in SUBSET Replicas, NEW L \in SUBSET Replicas, NEW Q \in SUBSET Replicas,
         NEW A1 \in SUBSET A, NEW L1 \in SUBSET L, NEW Q1 \in SUBSET Q,
         NEW M, NEW M1, M \subseteq M1 \/ k > l,
         Budget(a, l, limit, A, L, Q, M)
  PROVE  Budget(a, k, limit, A1, L1, Q1, M1)
<1>1. /\ Cardinality(A) \in Nat /\ Cardinality(L) \in Nat /\ Cardinality(Q) \in Nat
      /\ Cardinality(A1) \in Nat /\ Cardinality(L1) \in Nat /\ Cardinality(Q1) \in Nat
      /\ Cardinality(A1) <= Cardinality(A) /\ Cardinality(L1) <= Cardinality(L)
      /\ Cardinality(Q1) <= Cardinality(Q)
  BY SetsOfReplicas
<1>2. ASSUME limit = 1, A1 \cup L1 \cup Q1 \cup M1 = {} PROVE a <= k
  <2>1. CASE A # {} \/ L # {} \/ Q # {}
    <3>1. Cardinality(A) # 0 \/ Cardinality(L) # 0 \/ Cardinality(Q) # 0
      BY <2>1, SetsOfReplicas
    <3>2. QED
      BY <1>1, <1>2, <3>1 DEF Budget
  <2>2. CASE A = {} /\ L = {} /\ Q = {}
    <3>1. k > l \/ a <= l
      BY <1>2, <2>2 DEF Budget
    <3>2. a <= l + 1
      BY <1>1 DEF Budget
    <3>3. QED
      BY <3>1, <3>2
  <2>3. QED
    BY <2>1, <2>2
<1>3. QED
  BY <1>1, <1>2 DEF Budget

(* A copy is pushed: its first, or it is paid for. *)
LEMMA BudgetPush ==
  ASSUME NEW a \in Nat, NEW l \in Nat, NEW limit \in {1, 2}, NEW k \in {l, l + 1},
         NEW A \in SUBSET Replicas, NEW L \in SUBSET Replicas, NEW Q \in SUBSET Replicas, NEW M,
         NEW i \in Replicas, k = l => A \cup L \cup Q \cup M = {},
         Budget(a, l, limit, A, L, Q, M)
  PROVE  Budget(a, k, limit, A, L, Q \cup {i}, M)
<1>1. /\ Cardinality(A) \in Nat /\ Cardinality(L) \in Nat /\ Cardinality(Q) \in Nat
      /\ Cardinality(Q \cup {i}) \in {Cardinality(Q), Cardinality(Q) + 1}
  BY SetsOfReplicas
<1>2. k = l => /\ limit = 1 => a <= l
               /\ Cardinality(A) = 0 /\ Cardinality(L) = 0 /\ Cardinality(Q) = 0
  BY SetsOfReplicas DEF Budget
<1>3. QED
  BY <1>1, <1>2 DEF Budget

(* A copy is taken, or looked up in vain, or it changes the stock.         *)
LEMMA BudgetTake ==
  ASSUME NEW a \in Nat, NEW l \in Nat, NEW limit \in {1, 2},
         NEW A \in SUBSET Replicas, NEW L \in SUBSET Replicas, NEW Q \in SUBSET Replicas, NEW M,
         NEW i \in Q, i \notin L,
         Budget(a, l, limit, A, L, Q, M)
  PROVE  Budget(a, l, limit, A, L \cup {i}, Q \ {i}, M)
<1>1. /\ Cardinality(A) \in Nat /\ Cardinality(L) \in Nat /\ Cardinality(Q) \in Nat
      /\ Cardinality(L \cup {i}) = Cardinality(L) + 1
      /\ Cardinality(Q \ {i}) = Cardinality(Q) - 1
  BY SetsOfReplicas
<1>2. QED
  BY <1>1 DEF Budget

LEMMA BudgetLook ==
  ASSUME NEW a \in Nat, NEW l \in Nat,
         NEW A \in SUBSET Replicas, NEW L \in SUBSET Replicas, NEW Q \in SUBSET Replicas, NEW M,
         NEW i \in L, i \notin A,
         Budget(a, l, 1, A, L, Q, M)
  PROVE  Budget(a, l, 1, A \cup {i}, L \ {i}, Q, M)
<1>1. /\ Cardinality(A) \in Nat /\ Cardinality(L) \in Nat /\ Cardinality(Q) \in Nat
      /\ Cardinality(A \cup {i}) = Cardinality(A) + 1
      /\ Cardinality(L \ {i}) = Cardinality(L) - 1 /\ Cardinality(L \ {i}) \in Nat
  BY SetsOfReplicas
<1>2. QED
  BY <1>1 DEF Budget

LEMMA BudgetApply ==
  ASSUME NEW a \in Nat, NEW l \in Nat, NEW limit \in {1, 2},
         NEW A \in SUBSET Replicas, NEW L \in SUBSET Replicas, NEW Q \in SUBSET Replicas, NEW M,
         NEW i \in A,
         Budget(a, l, limit, A, L, Q, M)
  PROVE  Budget(a + 1, l, limit, A \ {i}, L, Q, M \cup {i})
<1>1. /\ Cardinality(A) \in Nat /\ Cardinality(L) \in Nat /\ Cardinality(Q) \in Nat
      /\ Cardinality(A \ {i}) = Cardinality(A) - 1
  BY SetsOfReplicas
<1>2. QED
  BY <1>1 DEF Budget

(* The mark is set, or runs out. *)
LEMMA BudgetMark ==
  ASSUME NEW a \in Nat, NEW l \in Nat, NEW limit \in {1, 2},
         NEW A \in SUBSET Replicas, NEW L \in SUBSET Replicas, NEW Q \in SUBSET Replicas,
         NEW M, NEW M1,
         Budget(a, l, limit, A, L, Q, M)
  PROVE  Budget(a, l, 2, A, L, Q, M1)
<1>1. Cardinality(A) \in Nat /\ Cardinality(L) \in Nat /\ Cardinality(Q) \in Nat
  BY SetsOfReplicas
<1>2. QED
  BY <1>1 DEF Budget

LEMMA BudgetForget ==
  ASSUME NEW a \in Nat, NEW l \in Nat,
         NEW A \in SUBSET Replicas, NEW L \in SUBSET Replicas, NEW Q \in SUBSET Replicas, NEW M,
         Budget(a, l, 2, A, L, Q, M)
  PROVE  Budget(a, l + 1, 1, A, L, Q, M)
<1>1. Cardinality(A) \in Nat /\ Cardinality(L) \in Nat /\ Cardinality(Q) \in Nat
  BY SetsOfReplicas
<1>2. QED
  BY <1>1 DEF Budget

(* A mark could not be looked up: that is a lapse. *)
LEMMA BudgetBlind ==
  ASSUME NEW a \in Nat, NEW l \in Nat,
         NEW A \in SUBSET Replicas, NEW L \in SUBSET Replicas, NEW Q \in SUBSET Replicas, NEW M,
         NEW i \in L, i \notin A,
         Budget(a, l, 2, A, L, Q, M)
  PROVE  Budget(a, l + 1, 2, A \cup {i}, L \ {i}, Q, M)
<1>1. /\ Cardinality(A) \in Nat /\ Cardinality(L) \in Nat /\ Cardinality(Q) \in Nat
      /\ Cardinality(A \cup {i}) = Cardinality(A) + 1
      /\ Cardinality(L \ {i}) = Cardinality(L) - 1 /\ Cardinality(L \ {i}) \in Nat
  BY SetsOfReplicas
<1>2. QED
  BY <1>1 DEF Budget

LEMMA InitBudget == Init => \A m \in Msgs : BudgetInv(m)
<1> SUFFICES ASSUME Init, NEW m \in Msgs PROVE BudgetInv(m)
  OBVIOUS
<1>1. \A i \in Replicas : job[Of(i, m)] = IdleJob
  BY WorkersArePairs DEF Init, Of
<1>2. Applying(m) = {} /\ Looking(m) = {} /\ Queued(m) = {}
  BY <1>1 DEF Init, Applying, Looking, Queued, IsApplying, IsLooking, IdleJob
<1>3. applied[m] = 0 /\ lapses[m] = 0 /\ Limit(m) = 1
  BY DEF Init, Limit, IsMarked
<1>4. QED
  BY <1>2, <1>3, FS_EmptySet DEF BudgetInv, Budget

LEMMA BudgetTypes ==
  ASSUME Types, NEW m \in Msgs
  PROVE  /\ applied[m] \in Nat /\ lapses[m] \in Nat /\ Limit(m) \in {1, 2}
         /\ Applying(m) \in SUBSET Replicas /\ Looking(m) \in SUBSET Replicas
         /\ Queued(m) \in SUBSET Replicas /\ Marking(m) \in SUBSET Replicas
BY DEF Types, EventTypes, Limit, Applying, Looking, Queued, Marking

(* The end of a process pays for each of its callbacks that would have     *)
(* marked their event.                                                     *)
LEMMA EndPays ==
  ASSUME Types, NEW m \in Msgs, NEW i \in Replicas, End(i)
  PROVE  /\ lapses'[m] \in Nat /\ lapses'[m] >= lapses[m]
         /\ i \in Marking(m) => lapses'[m] > lapses[m]
<1> DEFINE S == {w \in Workers : w[1] = i /\ job[w].msg = m /\ Unmarked(w)}
<1>1. IsFiniteSet(S) /\ Cardinality(S) \in Nat
  BY WorkersAreFinite, FS_Subset, FS_CardinalityType
<1>2. lapses'[m] = lapses[m] + Cardinality(S)
  BY DEF End
<1>3. i \in Marking(m) => Of(i, m) \in S
  BY WorkersArePairs DEF Marking, Of
<1> HIDE DEF S
<1>4. i \in Marking(m) => Cardinality(S) # 0
  BY <1>1, <1>3, FS_EmptySet
<1>5. QED
  BY <1>1, <1>2, <1>4, BudgetTypes

LEMMA ClientKeepsBudget ==
  ASSUME Types, NEW m \in Msgs, BudgetInv(m), NEW i \in Replicas,
         Boot(i) \/ Client(i) \/ Starting(i) \/ Signal(i) \/ Crash(i) \/ Outage(i)
  PROVE  BudgetInv(m)'
<1>1. UNCHANGED <<applied, marked>> /\ inbox' \subseteq inbox
  BY Zenon
  DEF Boot, Client, Starting, Signal, Crash, Outage, Redis, NATS, ContextDone, Stop, Stopped,
      StopTimeout, Exit, Drain, Unsubscribe, Subscribe, AppendSub, End, Close, eventVars
<1>2. \/ End(i)
      \/ UNCHANGED <<job, lapses>> /\ cancelled' \in {cancelled, [cancelled EXCEPT ![i] = TRUE]}
  BY Zenon
  DEF Boot, Client, Starting, Signal, Crash, Outage, Redis, NATS, ContextDone, Stop, Stopped,
      StopTimeout, Exit, Drain, Unsubscribe, Subscribe, AppendSub, Close, eventVars, clientVars
<1>3. Limit(m)' = Limit(m) /\ applied'[m] = applied[m]
  BY <1>1 DEF Limit, IsMarked
<1>4. Queued(m)' \subseteq Queued(m)
  BY <1>1 DEF Queued
<1>5. CASE End(i)
  <2>1. \A j \in Replicas : job'[Of(j, m)] = IF j = i THEN IdleJob ELSE job[Of(j, m)]
    BY <1>5, WorkersArePairs DEF End, Of
  <2>2. \A j \in Replicas : j # i => cancelled'[j] = cancelled[j]
    BY <1>5 DEF End, Types, ClientTypes
  <2>3. \A j \in Replicas :
          /\ IsLooking(Of(j, m))' <=> j # i /\ IsLooking(Of(j, m))
          /\ IsApplying(Of(j, m))' <=> j # i /\ IsApplying(Of(j, m))
          /\ Unmarked(Of(j, m))' <=> j # i /\ Unmarked(Of(j, m))
    BY <2>1, <2>2 DEF IsLooking, IsApplying, Unmarked, IdleJob, Alive, Of
  <2>4. \A j \in Replicas : j # i => job'[Of(j, m)].msg = job[Of(j, m)].msg
    BY <2>1
  <2>5. /\ Looking(m)' \subseteq Looking(m)
        /\ Applying(m)' \subseteq Applying(m)
        /\ Marking(m)' = Marking(m) \ {i}
    BY <2>3, <2>4 DEF Looking, Applying, Marking
  <2>6. Marking(m) \subseteq Marking(m)' \/ lapses'[m] > lapses[m]
    BY <1>5, <2>5, EndPays
  <2>7. QED
    BY <1>3, <1>4, <1>5, <2>5, <2>6, EndPays, BudgetTypes, BudgetLeft DEF BudgetInv
<1>6. CASE UNCHANGED <<job, lapses>> /\ cancelled' \in {cancelled, [cancelled EXCEPT ![i] = TRUE]}
  <2>1. \A j \in Replicas : cancelled[j] => cancelled'[j]
    BY <1>6 DEF Types, ClientTypes
  <2>2. \A j \in Replicas : IsApplying(Of(j, m))' => IsApplying(Of(j, m))
    BY <1>6, <2>1 DEF IsApplying, Alive, Of
  <2>3. /\ Looking(m)' = Looking(m) /\ Marking(m)' = Marking(m)
        /\ Applying(m)' \subseteq Applying(m)
    BY <1>6, <2>2 DEF Looking, Applying, Marking, IsLooking, Unmarked
  <2>4. QED
    BY <1>3, <1>4, <1>6, <2>3, BudgetTypes, BudgetLeft DEF BudgetInv
<1>7. QED
  BY <1>2, <1>5, <1>6

(* A callback makes a step: for its own event its process enters or leaves *)
(* the sets, for another event nothing changes.                            *)
LEMMA JobMoves ==
  ASSUME Types, NEW w \in Workers, NEW m \in Msgs, Step(w)
  PROVE  /\ Queued(m)' = Queued(m)
         /\ IF m = job[w].msg
            THEN /\ w[1] \in Looking(m) <=> IsLooking(w)
                 /\ w[1] \in Applying(m) <=> IsApplying(w)
                 /\ Looking(m)' = IF IsLooking(w)' THEN Looking(m) \cup {w[1]}
                                                   ELSE Looking(m) \ {w[1]}
                 /\ Applying(m)' = IF IsApplying(w)' THEN Applying(m) \cup {w[1]}
                                                     ELSE Applying(m) \ {w[1]}
                 /\ Marking(m)' = IF Unmarked(w)' THEN Marking(m) \cup {w[1]}
                                                  ELSE Marking(m) \ {w[1]}
                 /\ w[1] \in Marking(m) <=> Unmarked(w)
            ELSE /\ Looking(m)' = Looking(m) /\ Marking(m)' = Marking(m)
                 /\ Applying(m)' = Applying(m)
<1>1. PICK stage \in Stages \ {"idle"}, holds \in Holdings : Moved(w, stage, holds)
  BY StepMoves
<1>2. /\ \A v \in Workers \ {w} : job'[v] = job[v]
      /\ job'[w].msg = job[w].msg /\ UNCHANGED <<inbox, cancelled>>
      /\ KindOf[job[w].msg] = w[2]
  BY <1>1, MovedJobs, StepHasEvent DEF HandlerFrame, clientVars, Types, JobsFit
<1>3. \A i \in Replicas : Of(i, m) \in Workers
  BY WorkersArePairs DEF Of
<1>4. w[1] \in Replicas
  BY WorkersArePairs
<1>5. m = job[w].msg => \A i \in Replicas : Of(i, m) = w <=> i = w[1]
  BY <1>2, WorkersArePairs DEF Of
<1>6. \A v \in Workers \ {w} : /\ IsLooking(v)' <=> IsLooking(v)
                               /\ IsApplying(v)' <=> IsApplying(v)
                               /\ Unmarked(v)' <=> Unmarked(v)
  BY <1>2 DEF IsLooking, IsApplying, Unmarked, Alive
<1>7. \A i \in Replicas : job'[Of(i, m)].msg = job[Of(i, m)].msg
  BY <1>2, <1>3
<1>8. Queued(m)' = Queued(m)
  BY <1>2 DEF Queued
<1>9. CASE m = job[w].msg
  <2>1. Of(w[1], m) = w
    BY <1>4, <1>5, <1>9
  <2>2. \A i \in Replicas \ {w[1]} : /\ IsLooking(Of(i, m))' <=> IsLooking(Of(i, m))
                                     /\ IsApplying(Of(i, m))' <=> IsApplying(Of(i, m))
                                     /\ Unmarked(Of(i, m))' <=> Unmarked(Of(i, m))
    BY <1>3, <1>5, <1>6, <1>9
  <2>3. /\ w[1] \in Looking(m) <=> IsLooking(w)
        /\ w[1] \in Applying(m) <=> IsApplying(w)
        /\ w[1] \in Marking(m) <=> Unmarked(w)
        /\ w[1] \in Looking(m)' <=> IsLooking(w)'
        /\ w[1] \in Applying(m)' <=> IsApplying(w)'
        /\ w[1] \in Marking(m)' <=> Unmarked(w)'
    <3>1. job[Of(w[1], m)].msg = m /\ job'[Of(w[1], m)].msg = m
      BY <1>2, <1>9, <2>1
    <3>2. /\ IsLooking(Of(w[1], m)) <=> IsLooking(w)
          /\ IsApplying(Of(w[1], m)) <=> IsApplying(w)
          /\ Unmarked(Of(w[1], m)) <=> Unmarked(w)
          /\ IsLooking(Of(w[1], m))' <=> IsLooking(w)'
          /\ IsApplying(Of(w[1], m))' <=> IsApplying(w)'
          /\ Unmarked(Of(w[1], m))' <=> Unmarked(w)'
      BY <2>1 DEF IsLooking, IsApplying, Unmarked, Alive
    <3>3. QED
      BY <1>4, <3>1, <3>2 DEF Looking, Applying, Marking
  <2>4. \A i \in Replicas \ {w[1]} : /\ i \in Looking(m)' <=> i \in Looking(m)
                                     /\ i \in Applying(m)' <=> i \in Applying(m)
                                     /\ i \in Marking(m)' <=> i \in Marking(m)
    BY <1>7, <2>2 DEF Looking, Applying, Marking
  <2>5. /\ Looking(m) \subseteq Replicas /\ Looking(m)' \subseteq Replicas
        /\ Applying(m) \subseteq Replicas /\ Applying(m)' \subseteq Replicas
        /\ Marking(m) \subseteq Replicas /\ Marking(m)' \subseteq Replicas
    BY DEF Looking, Applying, Marking
  <2>6. Looking(m)' = IF IsLooking(w)' THEN Looking(m) \cup {w[1]} ELSE Looking(m) \ {w[1]}
    BY <1>4, <2>3, <2>4, <2>5
  <2>7. Applying(m)' = IF IsApplying(w)' THEN Applying(m) \cup {w[1]} ELSE Applying(m) \ {w[1]}
    BY <1>4, <2>3, <2>4, <2>5
  <2>8. Marking(m)' = IF Unmarked(w)' THEN Marking(m) \cup {w[1]} ELSE Marking(m) \ {w[1]}
    BY <1>4, <2>3, <2>4, <2>5
  <2>9. QED
    BY <1>8, <1>9, <2>3, <2>6, <2>7, <2>8
<1>10. CASE m # job[w].msg
  <2>1. \A i \in Replicas : job[Of(i, m)].msg = m => Of(i, m) # w
    BY <1>10
  <2>2. \A i \in Replicas : job[Of(i, m)].msg = m =>
           /\ IsLooking(Of(i, m))' <=> IsLooking(Of(i, m))
           /\ IsApplying(Of(i, m))' <=> IsApplying(Of(i, m))
           /\ Unmarked(Of(i, m))' <=> Unmarked(Of(i, m))
    BY <1>3, <1>6, <2>1
  <2>3. QED
    BY <1>7, <1>8, <1>10, <2>2 DEF Looking, Applying, Marking
<1>11. QED
  BY <1>9, <1>10

(* What a call may do to the budget: nothing that needs payment, or look   *)
(* at the mark, or change the stock.                                       *)
Quiet(w, n, l) ==
  /\ n = 0
  /\ IsLooking(w)' => IsLooking(w)
  /\ IsApplying(w)' => IsApplying(w)
  /\ Unmarked(w) => Unmarked(w)' \/ l = 1 \/ IsMarked(job[w].msg)'

Looks(w, n, l) ==
  /\ n = 0 /\ marked' = marked
  /\ IsLooking(w) /\ ~IsApplying(w) /\ ~Unmarked(w)
  /\ ~IsLooking(w)' /\ IsApplying(w)' /\ ~Unmarked(w)'
  /\ l = IF IsMarked(job[w].msg) THEN 1 ELSE 0

Changes(w, n, l) ==
  /\ n = 1 /\ marked' = marked
  /\ ~IsLooking(w) /\ IsApplying(w) /\ ~Unmarked(w)
  /\ ~IsLooking(w)' /\ ~IsApplying(w)' /\ (Unmarked(w)' \/ l = 1)

LEMMA StepCosts ==
  ASSUME Types, NEW w \in Workers, Step(w)
  PROVE  \E n \in {0, 1}, l \in {0, 1} :
           /\ applied' = [applied EXCEPT ![job[w].msg] = @ + n]
           /\ lapses' = [lapses EXCEPT ![job[w].msg] = @ + l]
           /\ Quiet(w, n, l) \/ Looks(w, n, l) \/ Changes(w, n, l)
<1>1. PICK stage \in Stages \ {"idle"}, holds \in Holdings : Moved(w, stage, holds)
  BY StepMoves
<1>2. /\ job'[w].stage = stage /\ job'[w].holds = holds /\ job'[w].msg = job[w].msg
      /\ job[w].msg \in Msgs /\ cancelled' = cancelled
  BY <1>1, MovedJobs, StepHasEvent DEF HandlerFrame, clientVars
<1>3. /\ IsLooking(w)' <=> stage = "seen"
      /\ IsApplying(w)' <=> \/ stage \in {"read", "fetch"} /\ Alive(w)
                            \/ stage = "fill"
                            \/ stage = "update" /\ holds = "row"
      /\ Unmarked(w)' <=> stage \in {"evict", "publish", "mark"} /\ holds = "changed"
  BY <1>2 DEF IsLooking, IsApplying, Unmarked, Alive
<1>4. applied \in [Msgs -> Nat] /\ lapses \in [Msgs -> Nat]
  BY DEF Types, EventTypes
<1>5. /\ UNCHANGED applied => applied' = [applied EXCEPT ![job[w].msg] = @ + 0]
      /\ UNCHANGED lapses => lapses' = [lapses EXCEPT ![job[w].msg] = @ + 0]
  BY <1>2, <1>4
<1>6. \A s : Goto(w, s) => stage = s /\ holds = job[w].holds
  BY <1>2, GotoJobs
<1>7. \A s, h : GotoWith(w, s, h) => stage = s /\ holds = h
  BY <1>2, GotoJobs
<1>8. GiveUp(w) => stage \in {"bury", "nak"} /\ holds = job[w].holds
  BY <1>6 DEF GiveUp
<1>9. /\ WithRow[w[2]] \subseteq {"update", "publish", "mark"}
      /\ WithBlank[w[2]] \subseteq {"update", "publish", "mark"}
  BY WorkersArePairs, ProcessAssumption DEF Subjects
<1>10. ASSUME UNCHANGED applied, UNCHANGED lapses, Quiet(w, 0, 0)
       PROVE  \E n \in {0, 1}, l \in {0, 1} :
                /\ applied' = [applied EXCEPT ![job[w].msg] = @ + n]
                /\ lapses' = [lapses EXCEPT ![job[w].msg] = @ + l]
                /\ Quiet(w, n, l) \/ Looks(w, n, l) \/ Changes(w, n, l)
  BY <1>5, <1>10, Zenon
<1>11. ASSUME UNCHANGED applied, Failed(w)
       PROVE  \E n \in {0, 1}, l \in {0, 1} :
                /\ applied' = [applied EXCEPT ![job[w].msg] = @ + n]
                /\ lapses' = [lapses EXCEPT ![job[w].msg] = @ + l]
                /\ Quiet(w, n, l) \/ Looks(w, n, l) \/ Changes(w, n, l)
  <2> DEFINE u == IF Unmarked(w) THEN 1 ELSE 0
  <2>1. u \in {0, 1} /\ lapses' = [lapses EXCEPT ![job[w].msg] = @ + u]
    BY <1>11 DEF Failed, Lapse
  <2>2. Quiet(w, 0, u)
    BY <1>3, <1>8, <1>11 DEF Failed, Quiet
  <2> HIDE DEF u
  <2>3. QED
    BY <1>5, <1>11, <2>1, <2>2, Zenon
<1>12. CASE Seen(w)
  <2>1. /\ job[w].stage = "seen" /\ UNCHANGED <<applied, marked>>
        /\ IsLooking(w) /\ ~IsApplying(w) /\ ~Unmarked(w)
    BY <1>12 DEF Seen, Doing, IsLooking, IsApplying, Unmarked
  <2>2. CASE Works(w) /\ UNCHANGED lapses /\ Goto(w, IF IsMarked(job[w].msg) THEN "ack" ELSE "read")
    <3>1. CASE IsMarked(job[w].msg)
      <4>1. Quiet(w, 0, 0)
        BY <1>3, <1>6, <2>1, <2>2, <3>1 DEF Quiet
      <4>2. QED
        BY <1>10, <2>1, <2>2, <4>1
    <3>2. CASE ~IsMarked(job[w].msg)
      <4>1. Looks(w, 0, 0)
        BY <1>3, <1>6, <2>1, <2>2, <3>2 DEF Looks, Works
      <4>2. QED
        BY <1>5, <2>1, <2>2, <4>1, Zenon
    <3>3. QED
      BY <3>1, <3>2
  <2>3. CASE Goto(w, "read") /\ Lapse(w, IF Alive(w) /\ IsMarked(job[w].msg) THEN 1 ELSE 0)
    <3> DEFINE u == IF Alive(w) /\ IsMarked(job[w].msg) THEN 1 ELSE 0
    <3>1. u \in {0, 1} /\ lapses' = [lapses EXCEPT ![job[w].msg] = @ + u]
      BY <2>3 DEF Lapse
    <3>2. Quiet(w, 0, u) \/ Looks(w, 0, u)
      BY <1>3, <1>6, <2>1, <2>3 DEF Quiet, Looks
    <3> HIDE DEF u
    <3>3. QED
      BY <1>5, <2>1, <3>1, <3>2, Zenon
  <2>4. QED
    BY <1>12, <2>2, <2>3 DEF Seen
<1>13. CASE Read(w)
  <2>1. job[w].stage = "read" /\ UNCHANGED <<applied, lapses>> /\ ~Unmarked(w)
    BY <1>13 DEF Read, Doing, Unmarked
  <2>2. CASE Goto(w, "fetch")
    <3>1. Quiet(w, 0, 0)
      BY <1>3, <1>6, <2>1, <2>2 DEF Quiet, IsApplying
    <3>2. QED
      BY <1>10, <2>1, <3>1
  <2>3. ASSUME NEW next \in WithBlank[w[2]], GotoWith(w, next, "blank")
        PROVE  Quiet(w, 0, 0)
    <3>1. stage = next /\ holds = "blank" /\ next \in {"update", "publish", "mark"}
      BY <1>7, <1>9, <2>3
    <3>2. QED
      BY <1>3, <2>1, <3>1 DEF Quiet
  <2>4. QED
    BY <1>10, <1>13, <2>1, <2>2, <2>3 DEF Read
<1>14. CASE Fetch(w)
  <2>1. job[w].stage = "fetch" /\ UNCHANGED applied /\ ~Unmarked(w)
    BY <1>14 DEF Fetch, Doing, Unmarked
  <2>2. CASE Works(w) /\ Goto(w, "fill") /\ UNCHANGED lapses
    <3>1. Quiet(w, 0, 0)
      BY <1>3, <1>6, <2>1, <2>2 DEF Quiet, IsApplying, Works
    <3>2. QED
      BY <1>10, <2>1, <2>2, <3>1
  <2>3. QED
    BY <1>11, <1>14, <2>1, <2>2 DEF Fetch
<1>15. CASE Fill(w)
  <2>1. job[w].stage = "fill" /\ UNCHANGED <<applied, lapses>> /\ ~Unmarked(w)
    BY <1>15 DEF Fill, Doing, Unmarked
  <2>2. PICK next \in WithRow[w[2]] : GotoWith(w, next, "row")
    BY <1>15 DEF Fill
  <2>3. stage = next /\ holds = "row" /\ next \in {"update", "publish", "mark"}
    BY <1>7, <1>9, <2>2
  <2>4. Quiet(w, 0, 0)
    BY <1>3, <2>1, <2>3 DEF Quiet, IsApplying
  <2>5. QED
    BY <1>10, <2>1, <2>4
<1>16. CASE Update(w)
  <2>1. /\ job[w].stage = "update" /\ job[w].holds = "row" /\ marked' = marked
        /\ ~IsLooking(w) /\ IsApplying(w) /\ ~Unmarked(w)
    BY <1>16 DEF Update, Doing, IsLooking, IsApplying, Unmarked
  <2>2. CASE /\ UNCHANGED lapses /\ GotoWith(w, "evict", "changed")
             /\ applied' = [applied EXCEPT ![job[w].msg] = @ + 1]
    <3>1. Changes(w, 1, 0)
      BY <1>3, <1>7, <2>1, <2>2 DEF Changes
    <3>2. QED
      BY <1>5, <2>2, <3>1, Zenon
  <2>3. ASSUME NEW n \in {0, 1}, applied' = [applied EXCEPT ![job[w].msg] = @ + n],
               Lapse(w, n), GiveUp(w)
        PROVE  \E k \in {0, 1}, l \in {0, 1} :
                 /\ applied' = [applied EXCEPT ![job[w].msg] = @ + k]
                 /\ lapses' = [lapses EXCEPT ![job[w].msg] = @ + l]
                 /\ Quiet(w, k, l) \/ Looks(w, k, l) \/ Changes(w, k, l)
    <3>1. Quiet(w, n, n) \/ Changes(w, n, n)
      BY <1>3, <1>8, <2>1, <2>3 DEF Quiet, Changes
    <3>2. QED
      BY <2>3, <3>1, Zenon DEF Lapse
  <2>4. QED
    BY <1>16, <2>2, <2>3 DEF Update
<1>17. CASE UpdateBlank(w)
  <2>1. UNCHANGED applied /\ ~Unmarked(w) /\ job[w].holds = "blank"
    BY <1>17 DEF UpdateBlank, Doing, Unmarked
  <2>2. CASE Goto(w, "evict") /\ UNCHANGED lapses
    <3>1. Quiet(w, 0, 0)
      BY <1>3, <1>6, <2>1, <2>2 DEF Quiet
    <3>2. QED
      BY <1>10, <2>1, <2>2, <3>1
  <2>3. QED
    BY <1>11, <1>17, <2>1, <2>2 DEF UpdateBlank
<1>18. CASE Evict(w) \/ Publish(w)
  <2>1. UNCHANGED applied /\ job[w].stage \in {"evict", "publish"}
    BY <1>18 DEF Evict, Publish, Doing
  <2>2. ASSUME NEW s \in {"publish", "mark"}, Goto(w, s), UNCHANGED lapses
        PROVE  Quiet(w, 0, 0)
    BY <1>3, <1>6, <2>1, <2>2 DEF Quiet, Unmarked
  <2>3. Failed(w) \/ (UNCHANGED lapses /\ \E s \in {"publish", "mark"} : Goto(w, s))
    BY <1>18 DEF Evict, Publish
  <2>4. QED
    BY <1>10, <1>11, <2>1, <2>2, <2>3
<1>19. CASE Mark(w)
  <2>1. UNCHANGED applied
    BY <1>19 DEF Mark
  <2>2. CASE Goto(w, "ack") /\ UNCHANGED lapses /\ marked' = marked \cup {IdOf[job[w].msg]}
    <3>1. IsMarked(job[w].msg)'
      BY <1>2, <2>2 DEF IsMarked
    <3>2. Quiet(w, 0, 0)
      BY <1>3, <1>6, <2>2, <3>1 DEF Quiet
    <3>3. QED
      BY <1>10, <2>1, <2>2, <3>2
  <2>3. QED
    BY <1>11, <1>19, <2>1, <2>2 DEF Mark
<1>20. CASE PublishDLQ(w)
  <2>1. /\ UNCHANGED <<applied, lapses>> /\ ~Unmarked(w) /\ Goto(w, "term")
    BY <1>20 DEF PublishDLQ, Doing, Unmarked
  <2>2. Quiet(w, 0, 0)
    BY <1>3, <1>6, <2>1 DEF Quiet
  <2>3. QED
    BY <1>10, <2>1, <2>2
<1>21. QED
  BY <1>12, <1>13, <1>14, <1>15, <1>16, <1>17, <1>18, <1>19, <1>20 DEF Step

LEMMA StepKeepsBudget ==
  ASSUME Types, NEW w \in Workers, NEW m \in Msgs, BudgetInv(m), Step(w)
  PROVE  BudgetInv(m)'
<1>1. PICK n \in {0, 1}, l \in {0, 1} :
        /\ applied' = [applied EXCEPT ![job[w].msg] = @ + n]
        /\ lapses' = [lapses EXCEPT ![job[w].msg] = @ + l]
        /\ Quiet(w, n, l) \/ Looks(w, n, l) \/ Changes(w, n, l)
  BY StepCosts
<1>2. /\ applied'[m] = IF m = job[w].msg THEN applied[m] + n ELSE applied[m]
      /\ lapses'[m] = IF m = job[w].msg THEN lapses[m] + l ELSE lapses[m]
      /\ applied[m] \in Nat /\ lapses[m] \in Nat
  BY <1>1 DEF Types, EventTypes
<1>3. marked \subseteq marked'
  BY StepCounts
<1>4. Limit(m)' \in {Limit(m), 2} /\ (marked' = marked => Limit(m)' = Limit(m))
  BY <1>3 DEF Limit, IsMarked
<1>5. w[1] \in Replicas
  BY WorkersArePairs
<1>6. ASSUME NEW a, NEW k, NEW A \in SUBSET Replicas, NEW L \in SUBSET Replicas,
             NEW Q \in SUBSET Replicas, NEW M, a \in Nat, k \in Nat,
             Budget(a, k, Limit(m), A, L, Q, M)
      PROVE  Budget(a, k, Limit(m)', A, L, Q, M)
  <2>1. Limit(m) \in {1, 2}
    BY BudgetTypes
  <2>2. CASE Limit(m)' = Limit(m)
    BY <1>6, <2>2
  <2>3. CASE Limit(m)' = 2
    BY <1>6, <2>1, <2>3, BudgetMark
  <2>4. QED
    BY <1>4, <2>2, <2>3
<1>7. CASE m # job[w].msg
  <2>1. /\ Applying(m)' = Applying(m) /\ Looking(m)' = Looking(m)
        /\ Queued(m)' = Queued(m) /\ Marking(m)' = Marking(m)
    BY <1>7, JobMoves
  <2>2. applied'[m] = applied[m] /\ lapses'[m] = lapses[m]
    BY <1>2, <1>7
  <2>3. QED
    BY <1>6, <2>1, <2>2, BudgetTypes DEF BudgetInv
<1>8. CASE m = job[w].msg
  <2>1. /\ Queued(m)' = Queued(m)
        /\ w[1] \in Looking(m) <=> IsLooking(w)
        /\ w[1] \in Applying(m) <=> IsApplying(w)
        /\ w[1] \in Marking(m) <=> Unmarked(w)
    BY <1>8, JobMoves
  <2>2. /\ Looking(m)' = IF IsLooking(w)' THEN Looking(m) \cup {w[1]} ELSE Looking(m) \ {w[1]}
        /\ Applying(m)' = IF IsApplying(w)' THEN Applying(m) \cup {w[1]} ELSE Applying(m) \ {w[1]}
    BY <1>8, JobMoves
  <2>3. Marking(m)' = IF Unmarked(w)' THEN Marking(m) \cup {w[1]} ELSE Marking(m) \ {w[1]}
    BY <1>8, JobMoves
  <2>4. applied'[m] = applied[m] + n /\ lapses'[m] = lapses[m] + l
    BY <1>2, <1>8
  <2>5. CASE Quiet(w, n, l)
    <3>1. applied'[m] = applied[m] /\ lapses'[m] \in Nat /\ lapses'[m] >= lapses[m]
      BY <1>2, <2>4, <2>5 DEF Quiet
    <3>2. Looking(m)' \subseteq Looking(m) /\ Applying(m)' \subseteq Applying(m)
      BY <2>1, <2>2, <2>5 DEF Quiet
    <3>3. CASE Marking(m) \subseteq Marking(m)' \/ l = 1
      <4>1. Marking(m) \subseteq Marking(m)' \/ lapses'[m] > lapses[m]
        BY <1>2, <2>4, <3>3
      <4>2. Budget(applied[m], lapses'[m], Limit(m), Applying(m)', Looking(m)', Queued(m),
                   Marking(m)')
        BY <3>1, <3>2, <4>1, BudgetTypes, BudgetLeft DEF BudgetInv
      <4>3. Applying(m)' \in SUBSET Replicas /\ Looking(m)' \in SUBSET Replicas
        BY <3>2, BudgetTypes
      <4>4. QED
        BY <1>2, <1>6, <2>1, <3>1, <4>2, <4>3, BudgetTypes DEF BudgetInv
    <3>4. CASE IsMarked(job[w].msg)'
      <4>1. Limit(m)' = 2
        <5>1. job'[w].msg = job[w].msg
          BY StepMoves, MovedJobs
        <5>2. QED
          BY <1>8, <3>4, <5>1 DEF Limit, IsMarked
      <4>2. Budget(applied[m], lapses'[m], Limit(m), Applying(m)', Looking(m)', Queued(m),
                   Marking(m))
        BY <3>1, <3>2, BudgetTypes, BudgetLeft DEF BudgetInv
      <4>3. Applying(m)' \in SUBSET Replicas /\ Looking(m)' \in SUBSET Replicas
        BY <3>2, BudgetTypes
      <4>4. Budget(applied[m], lapses'[m], 2, Applying(m)', Looking(m)', Queued(m), Marking(m)')
        BY <3>1, <4>2, <4>3, BudgetTypes, BudgetMark
      <4>5. QED
        BY <2>1, <3>1, <4>1, <4>4 DEF BudgetInv
    <3>5. Marking(m) \subseteq Marking(m)' \/ l = 1 \/ IsMarked(job[w].msg)'
      BY <2>1, <2>3, <2>5 DEF Quiet
    <3>6. QED
      BY <3>3, <3>4, <3>5
  <2>6. CASE Looks(w, n, l)
    <3>1. /\ applied'[m] = applied[m] /\ Limit(m)' = Limit(m) /\ Marking(m)' = Marking(m)
          /\ Looking(m)' = Looking(m) \ {w[1]} /\ Applying(m)' = Applying(m) \cup {w[1]}
          /\ w[1] \in Looking(m) /\ w[1] \notin Applying(m)
      BY <1>2, <1>4, <2>1, <2>2, <2>3, <2>4, <2>6 DEF Looks
    <3>2. CASE IsMarked(m)
      <4>1. lapses'[m] = lapses[m] + 1 /\ Limit(m) = 2
        BY <1>8, <2>4, <2>6, <3>2 DEF Looks, Limit
      <4>2. Budget(applied[m], lapses[m], 2, Applying(m), Looking(m), Queued(m), Marking(m))
        BY <4>1 DEF BudgetInv
      <4>3. Budget(applied[m], lapses[m] + 1, 2, Applying(m) \cup {w[1]}, Looking(m) \ {w[1]},
                   Queued(m), Marking(m))
        BY <3>1, <4>2, BudgetTypes, BudgetBlind
      <4>4. QED
        BY <2>1, <3>1, <4>1, <4>3 DEF BudgetInv
    <3>3. CASE ~IsMarked(m)
      <4>1. lapses'[m] = lapses[m] /\ Limit(m) = 1
        BY <1>2, <1>8, <2>4, <2>6, <3>3 DEF Looks, Limit
      <4>2. Budget(applied[m], lapses[m], 1, Applying(m), Looking(m), Queued(m), Marking(m))
        BY <4>1 DEF BudgetInv
      <4>3. Budget(applied[m], lapses[m], 1, Applying(m) \cup {w[1]}, Looking(m) \ {w[1]},
                   Queued(m), Marking(m))
        BY <3>1, <4>2, BudgetTypes, BudgetLook
      <4>4. QED
        BY <2>1, <3>1, <4>1, <4>3 DEF BudgetInv
    <3>4. QED
      BY <3>2, <3>3
  <2>7. CASE Changes(w, n, l)
    <3>1. /\ applied'[m] = applied[m] + 1 /\ Limit(m)' = Limit(m)
          /\ Looking(m)' = Looking(m) /\ Applying(m)' = Applying(m) \ {w[1]}
          /\ w[1] \in Applying(m)
      BY <1>4, <2>1, <2>2, <2>4, <2>7 DEF Changes
    <3>2. Budget(applied[m] + 1, lapses[m], Limit(m), Applying(m) \ {w[1]}, Looking(m),
                 Queued(m), Marking(m) \cup {w[1]})
      BY <3>1, BudgetTypes, BudgetApply DEF BudgetInv
    <3>3. /\ Marking(m) \cup {w[1]} \subseteq Marking(m)' \/ lapses'[m] > lapses[m]
          /\ lapses'[m] \in Nat /\ lapses'[m] >= lapses[m]
      BY <1>2, <2>3, <2>4, <2>7 DEF Changes
    <3>4. applied[m] + 1 \in Nat /\ Applying(m) \ {w[1]} \in SUBSET Replicas
      BY <1>2, BudgetTypes
    <3>5. Budget(applied[m] + 1, lapses'[m], Limit(m), Applying(m) \ {w[1]}, Looking(m),
                 Queued(m), Marking(m)')
      BY <3>2, <3>3, <3>4, BudgetTypes, BudgetLeft
    <3>6. QED
      BY <2>1, <3>1, <3>5 DEF BudgetInv
  <2>8. QED
    BY <1>1, <2>5, <2>6, <2>7
<1>9. QED
  BY <1>7, <1>8

LEMMA TakeKeepsBudget ==
  ASSUME Types, NEW w \in Workers, NEW m \in Msgs, BudgetInv(m), Take(w)
  PROVE  BudgetInv(m)'
<1> DEFINE new(c) == [msg |-> c.msg, stage |-> "seen", holds |-> "nothing"]
<1>1. PICK c \in inbox : /\ c.to = w[1] /\ KindOf[c.msg] = w[2]
                         /\ inbox' = inbox \ {c}
                         /\ job' = [job EXCEPT ![w] = new(c)]
  BY DEF Take
<1>2. /\ Doing(w, "idle") /\ UNCHANGED <<applied, lapses, marked, cancelled>>
      /\ c \in [to : Replicas, msg : Msgs] /\ w[1] \in Replicas
      /\ job[w].msg = NoMsg /\ NoMsg \notin Msgs
  BY WorkersArePairs, ProcessAssumption
  DEF Take, clientVars, Types, EventTypes, JobsFit, Doing, IdleJob
<1>3. Limit(m)' = Limit(m) /\ applied'[m] = applied[m] /\ lapses'[m] = lapses[m]
  BY <1>2 DEF Limit, IsMarked
<1>4. \A i \in Replicas : /\ Of(i, m) \in Workers
                          /\ Of(i, m) = w <=> i = w[1] /\ KindOf[m] = w[2]
  BY WorkersArePairs DEF Of
<1>5. \A i \in Replicas : job'[Of(i, m)] = IF i = w[1] /\ KindOf[m] = w[2] THEN new(c)
                                                                         ELSE job[Of(i, m)]
  BY <1>1, <1>4 DEF Types, EventTypes
<1>6. KindOf[m] = w[2] => job[Of(w[1], m)].msg # m
  BY <1>2, <1>4
<1>7. \A i \in Replicas :
        /\ IsApplying(Of(i, m))' <=> IsApplying(Of(i, m)) /\ ~(i = w[1] /\ KindOf[m] = w[2])
        /\ Unmarked(Of(i, m))' <=> Unmarked(Of(i, m)) /\ ~(i = w[1] /\ KindOf[m] = w[2])
        /\ IsLooking(Of(i, m))' <=> IsLooking(Of(i, m)) \/ (i = w[1] /\ KindOf[m] = w[2])
  BY <1>2, <1>4, <1>5 DEF IsApplying, Unmarked, IsLooking, Alive, Doing
<1>8. Applying(m)' = Applying(m) /\ Marking(m)' = Marking(m)
  BY <1>2, <1>5, <1>6, <1>7 DEF Applying, Marking
<1>9. CASE m = c.msg
  <2>1. Looking(m)' = Looking(m) \cup {w[1]} /\ w[1] \notin Looking(m)
    BY <1>1, <1>2, <1>5, <1>6, <1>7, <1>9 DEF Looking
  <2>2. w[1] \in Queued(m) /\ Queued(m)' = Queued(m) \ {w[1]}
    <3>1. c = [to |-> w[1], msg |-> m]
      BY <1>1, <1>2, <1>9
    <3>2. QED
      BY <1>1, <1>2, <3>1 DEF Queued
  <2>3. QED
    BY <1>3, <1>8, <2>1, <2>2, BudgetTypes, BudgetTake DEF BudgetInv
<1>10. CASE m # c.msg
  <2>1. Looking(m)' = Looking(m)
    BY <1>2, <1>5, <1>6, <1>7, <1>10 DEF Looking
  <2>2. Queued(m)' = Queued(m)
    BY <1>1, <1>2, <1>10 DEF Queued
  <2>3. QED
    BY <1>3, <1>8, <2>1, <2>2 DEF BudgetInv
<1>11. QED
  BY <1>9, <1>10

LEMMA HandlerKeepsBudget ==
  ASSUME Types, NEW w \in Workers, NEW m \in Msgs, BudgetInv(m), Handler(w)
  PROVE  BudgetInv(m)'
<1>1. CASE Answer(w)
  <2>1. /\ UNCHANGED <<inbox, cancelled, applied, marked, lapses>>
        /\ job' = [job EXCEPT ![w] = IdleJob] /\ job[w].stage \in {"ack", "nak", "term"}
    BY <1>1 DEF Answer, clientVars
  <2>2. \A i \in Replicas : \/ job'[Of(i, m)] = job[Of(i, m)]
                            \/ /\ job'[Of(i, m)] = IdleJob
                               /\ job[Of(i, m)].stage \in {"ack", "nak", "term"}
    BY <2>1, WorkersArePairs DEF Types, EventTypes, Of
  <2>3. \A i \in Replicas : /\ IsLooking(Of(i, m))' <=> IsLooking(Of(i, m))
                            /\ IsApplying(Of(i, m))' <=> IsApplying(Of(i, m))
                            /\ Unmarked(Of(i, m))' <=> Unmarked(Of(i, m))
    BY <2>1, <2>2 DEF IsLooking, IsApplying, Unmarked, Alive, IdleJob
  <2>4. \A i \in Replicas : IsLooking(Of(i, m)) \/ IsApplying(Of(i, m)) \/ Unmarked(Of(i, m))
          => job'[Of(i, m)] = job[Of(i, m)]
    BY <2>2 DEF IsLooking, IsApplying, Unmarked
  <2>5. /\ Applying(m)' = Applying(m) /\ Looking(m)' = Looking(m)
        /\ Queued(m)' = Queued(m) /\ Marking(m)' = Marking(m)
    BY <2>1, <2>3, <2>4 DEF Applying, Looking, Queued, Marking
  <2>6. Limit(m)' = Limit(m) /\ applied'[m] = applied[m] /\ lapses'[m] = lapses[m]
    BY <2>1 DEF Limit, IsMarked
  <2>7. QED
    BY <2>5, <2>6 DEF BudgetInv
<1>2. QED
  BY <1>1, TakeKeepsBudget, StepKeepsBudget DEF Handler, Step

LEMMA ServerKeepsBudget ==
  ASSUME Types, NEW m \in Msgs, BudgetInv(m), NEW n \in Msgs,
         AckWait(n) \/ (\E id \in Ids : Forget(id)) \/ \E i \in Replicas : Push(i, n)
  PROVE  BudgetInv(m)'
<1>1. UNCHANGED <<job, cancelled, applied>>
  BY DEF AckWait, Forget, Push, clientVars
<1>2. /\ Applying(m)' = Applying(m) /\ Looking(m)' = Looking(m)
      /\ Marking(m)' = Marking(m) /\ applied'[m] = applied[m]
  BY <1>1 DEF Applying, Looking, Marking, IsApplying, IsLooking, Unmarked, Alive
<1>3. CASE AckWait(n)
  BY <1>2, <1>3 DEF AckWait, BudgetInv, Queued, Limit, IsMarked
<1>4. ASSUME NEW id \in Ids, Forget(id) PROVE BudgetInv(m)'
  <2>1. /\ Queued(m)' = Queued(m) /\ id \in marked /\ marked' = marked \ {id}
        /\ lapses'[m] = IF IdOf[m] = id THEN lapses[m] + 1 ELSE lapses[m]
    BY <1>4 DEF Forget, Queued, Types, EventTypes
  <2>2. CASE IdOf[m] = id
    <3>1. Limit(m) = 2 /\ Limit(m)' = 1 /\ lapses'[m] = lapses[m] + 1
      BY <2>1, <2>2 DEF Limit, IsMarked
    <3>2. Budget(applied[m], lapses[m] + 1, 1, Applying(m), Looking(m), Queued(m), Marking(m))
      BY <3>1, BudgetTypes, BudgetForget DEF BudgetInv
    <3>3. QED
      BY <1>2, <2>1, <3>1, <3>2 DEF BudgetInv
  <2>3. CASE IdOf[m] # id
    <3>1. Limit(m)' = Limit(m) /\ lapses'[m] = lapses[m]
      BY <2>1, <2>3 DEF Limit, IsMarked
    <3>2. QED
      BY <1>2, <2>1, <3>1 DEF BudgetInv
  <2>4. QED
    BY <2>2, <2>3
<1>5. ASSUME NEW i \in Replicas, Push(i, n) PROVE BudgetInv(m)'
  <2>1. /\ Limit(m)' = Limit(m) /\ inbox' = inbox \cup {[to |-> i, msg |-> n]}
        /\ lapses' = [lapses EXCEPT ![n] = @ + (IF Held(n) THEN 1 ELSE 0)]
    BY <1>5 DEF Push, Limit, IsMarked
  <2>2. CASE m # n
    <3>1. Queued(m)' = Queued(m) /\ lapses'[m] = lapses[m]
      BY <2>1, <2>2 DEF Queued, Types, EventTypes
    <3>2. QED
      BY <1>2, <2>1, <3>1 DEF BudgetInv
  <2>3. CASE m = n
    <3>1. Queued(m)' = Queued(m) \cup {i}
      BY <2>1, <2>3 DEF Queued
    <3>2. lapses'[m] = IF Held(m) THEN lapses[m] + 1 ELSE lapses[m]
      BY <2>1, <2>3, BudgetTypes DEF Types, EventTypes
    <3>3. ~Held(m) => Applying(m) \cup Looking(m) \cup Queued(m) \cup Marking(m) = {}
      BY WorkersArePairs DEF Held, Applying, Looking, Queued, Marking, Of
    <3>4. lapses'[m] \in {lapses[m], lapses[m] + 1}
      BY <3>2
    <3>5. lapses'[m] = lapses[m]
            => Applying(m) \cup Looking(m) \cup Queued(m) \cup Marking(m) = {}
      BY <3>2, <3>3, BudgetTypes
    <3>6. Budget(applied[m], lapses'[m], Limit(m), Applying(m), Looking(m), Queued(m) \cup {i},
                 Marking(m))
      BY <3>4, <3>5, BudgetTypes, BudgetPush DEF BudgetInv
    <3>7. QED
      BY <1>2, <2>1, <3>1, <3>6 DEF BudgetInv
  <2>4. QED
    BY <2>2, <2>3
<1>6. QED
  BY <1>3, <1>4, <1>5

LEMMA NextKeepsBudget ==
  ASSUME Types, NEW m \in Msgs, BudgetInv(m), [Next]_vars
  PROVE  BudgetInv(m)'
<1>1. ASSUME UNCHANGED <<clientVars, eventVars>> PROVE BudgetInv(m)'
  BY <1>1
  DEF clientVars, eventVars, BudgetInv, Applying, Looking, Queued, Marking, IsApplying,
      IsLooking, Unmarked, Alive, Limit, IsMarked
<1>2. QED
  BY Zenon, <1>1, ClientKeepsBudget, HandlerKeepsBudget, ServerKeepsBudget DEF Next, vars

-----------------------------------------------------------------------------
(* The stream. *)

LEMMA ExpectedIsCaptured ==
  ASSUME NEW p \in Shippers
  PROVE  expected(p) # NoStream /\ ToSet(expected(p).subjects) = {Env[p]}
BY ExpectedAssumption DEF expected, ToSet

LEMMA SetupKeepsInv ==
  ASSUME SetupInv, SetupNext
  PROVE  SetupInv'
<1>1. PICK p \in Shippers : \/ StartShipper(p) \/ ShipperRedis(p) \/ ShipperNATS(p)
                            \/ StreamInfo(p) \/ UpdateStream(p) \/ AddStream(p) \/ StopShipper(p)
  BY DEF SetupNext
<1>2. PICK step \in ShipperSteps : Next1(p, step)
  BY <1>1, Zenon
  DEF StartShipper, ShipperRedis, ShipperNATS, StreamInfo, UpdateStream, AddStream, StopShipper,
      ShipperSteps
<1>3. /\ shipper' \in [Shippers -> ShipperSteps]
      /\ \A q \in Shippers : shipper'[q] = IF q = p THEN step ELSE shipper[q]
  BY <1>2 DEF Next1, SetupInv
<1>4. stream' = stream \/ stream' = expected(p)
  BY <1>1
  DEF StartShipper, ShipperRedis, ShipperNATS, StreamInfo, UpdateStream, AddStream, StopShipper
<1>5. step = "up" => \/ stream' = expected(p)
                     \/ stream' = stream /\ stream # NoStream /\ ~Changed(p)
  <2>1. step # "up" \/ StreamInfo(p) \/ UpdateStream(p) \/ AddStream(p)
    BY <1>1, <1>3
    DEF StartShipper, ShipperRedis, ShipperNATS, StopShipper, Next1, SetupInv
  <2>2. QED
    BY <1>3, <2>1 DEF StreamInfo, UpdateStream, AddStream, Next1, SetupInv
<1>6. ASSUME stream # NoStream, ~Changed(p) PROVE Captured(Env[p])
  <2>1. ToSet(expected(p).subjects) \subseteq ToSet(stream.subjects)
    BY <1>6 DEF Changed, equalSubjects
  <2>2. QED
    BY <1>6, <2>1, ExpectedIsCaptured DEF Captured
<1>7. ASSUME NEW q \in Shippers, shipper'[q] = "up", \A r \in Shippers : Env[r] = Env[q]
      PROVE  Captured(Env[q])'
  <2>1. Env[p] = Env[q]
    BY <1>7
  <2>2. CASE stream' = expected(p)
    BY <2>1, <2>2, ExpectedIsCaptured DEF Captured
  <2>3. CASE stream' = stream /\ stream' # expected(p)
    <3>1. Captured(Env[q])
      BY <1>3, <1>5, <1>6, <1>7, <2>1, <2>3 DEF SetupInv, EnsuredWhenUp, At
    <3>2. QED
      BY <2>3, <3>1 DEF Captured
  <2>4. QED
    BY <1>4, <2>2, <2>3
<1>8. QED
  BY <1>3, <1>7 DEF SetupInv, EnsuredWhenUp, At

LEMMA NextKeepsSetup ==
  ASSUME SetupInv, Types, [Next]_vars
  PROVE  SetupInv'
<1>1. ASSUME UNCHANGED setupVars PROVE SetupInv'
  BY <1>1 DEF setupVars, SetupInv, EnsuredWhenUp, At, Captured
<1>2. ASSUME NEW i, Boot(i) \/ Client(i) \/ Starting(i) \/ Signal(i) \/ Crash(i) \/ Outage(i)
      PROVE  UNCHANGED setupVars
  BY <1>2, Zenon
  DEF Boot, Client, Starting, Signal, Crash, Outage, Redis, NATS, ContextDone, Stop, Stopped,
      StopTimeout, Exit, Drain, Unsubscribe, Subscribe, AppendSub, End
<1>3. ASSUME UNCHANGED vars PROVE UNCHANGED setupVars
  BY <1>3 DEF vars
<1>4. QED
  BY Zenon, <1>1, <1>2, <1>3, Elsewhere, SetupKeepsInv DEF Next

-----------------------------------------------------------------------------
(* The theorems. *)

(* The inductive invariant holds throughout.                               *)
THEOREM ProcessInvHolds == Spec => [](ProcessInv /\ SetupInv)
<1>1. Init => ProcessInv
  BY InitTypes, InitIsLife, InitHeard, InitEffects, InitBudget DEF ProcessInv
<1>2. Init => SetupInv
  BY DEF Init, SetupInit, SetupInv, EnsuredWhenUp, At, ShipperSteps
<1>3. ProcessInv /\ [Next]_vars => ProcessInv'
  <2> SUFFICES ASSUME ProcessInv, [Next]_vars PROVE ProcessInv'
    OBVIOUS
  <2>1. Types' /\ HeardInv' /\ EffectsInv' /\ CacheInv'
    BY NextKeepsTypes, NextKeepsHeard, NextKeepsEffects, NextKeepsCache DEF ProcessInv
  <2>2. \A i \in Replicas : LifeInv(i)'
    BY NextKeepsLife DEF ProcessInv
  <2>3. \A m \in Msgs : BudgetInv(m)'
    BY NextKeepsBudget DEF ProcessInv
  <2>4. QED
    BY <2>1, <2>2, <2>3 DEF ProcessInv
<1>4. ProcessInv /\ SetupInv /\ [Next]_vars => SetupInv'
  BY NextKeepsSetup DEF ProcessInv
<1>5. QED
  BY <1>1, <1>2, <1>3, <1>4, PTL DEF Spec

(* The type invariant the runs check.                                      *)
THEOREM ProcessTypesHold == Spec => []TypeOK
<1>1. ProcessInv => TypeOK
  <2> SUFFICES ASSUME ProcessInv PROVE TypeOK
    OBVIOUS
  <2>1. \A i \in Replicas :
          /\ starter[i].next \in 1..(Len(Kinds) + 1)
          /\ subs[i] \cup seen[i] \cup todo[i] \cup live[i] \subseteq Subjects
    BY DEF ProcessInv, Types, ClientTypes, LinkTypes
  <2>2. \A i \in Replicas : /\ draining[i] \subseteq live[i]
                            /\ live[i] # {} => Running(i)
    BY DEF ProcessInv, LifeInv, NothingYet, Running
  <2>3. QED
    BY <2>1, <2>2
    DEF TypeOK, ProcessInv, Types, ClientTypes, LinkTypes, EventTypes, Statuses
<1>2. QED
  BY <1>1, ProcessInvHolds, PTL

(* When Stop has returned, nothing it found is open: the subscriptions     *)
(* Start makes meanwhile are of later subjects.                            *)
THEOREM StopClosesIt == Spec => []StopClosesWhatItSaw
<1>1. ProcessInv => StopClosesWhatItSaw
  BY DEF ProcessInv, LifeInv, StopClosesWhatItSaw
<1>2. QED
  BY <1>1, ProcessInvHolds, PTL

(* A Start that failed half-way takes its process down, whatever subject   *)
(* and whatever number of them it failed at; and while a process stays up, *)
(* only the end of the consumer itself, by the process that made it, can   *)
(* take one of its subjects from it.                                       *)
THEOREM NoHalfSubscriptions == Spec => []NeverHalfSubscribed
<1>1. ProcessInv => NeverHalfSubscribed
  <2> SUFFICES ASSUME ProcessInv, NEW i \in Replicas, phase[i] = "up",
                      starter[i].at \in {"done", "failed"}, ~cancelled[i], connected[i],
                      NEW k \in Subjects
               PROVE  k \in live[i] /\ (i \in consumer[k].members \/ <<i, k>> \in deaf)
    BY DEF NeverHalfSubscribed
  <2>1. LifeInv(i)
    BY DEF ProcessInv
  <2>2. starter[i].at = "done" /\ starter[i].next = Len(Kinds) + 1
    BY <2>1 DEF LifeInv
  <2>3. live[i] = Subjects
    BY <2>1, <2>2, Ends DEF LifeInv, Made
  <2>4. QED
    BY <2>3 DEF ProcessInv, HeardInv
<1>2. QED
  BY <1>1, ProcessInvHolds, PTL

(* No shutdown, crash, failed call or new consumer has an event counted as *)
(* handled for which neither the stock was changed nor anything accounts.  *)
THEOREM NothingSettledUnhandled == Spec => []HandledOrKept
<1>1. ProcessInv => HandledOrKept
  BY DEF ProcessInv, EffectsInv, HandledOrKept, Accounted, Explained
<1>2. QED
  BY <1>1, ProcessInvHolds, PTL

(* The stock changes once for an event, and once more for every lapse.     *)
THEOREM RepeatsArePaidFor == Spec => []RepeatsAreCaused
<1>1. ProcessInv => RepeatsAreCaused
  <2> SUFFICES ASSUME ProcessInv, NEW m \in Msgs PROVE applied[m] <= 1 + lapses[m]
    BY DEF RepeatsAreCaused
  <2>1. /\ applied[m] \in Nat /\ lapses[m] \in Nat /\ Cardinality(Applying(m)) \in Nat
        /\ BudgetInv(m)
    BY BudgetTypes, SetsOfReplicas DEF ProcessInv
  <2>2. QED
    BY <2>1 DEF BudgetInv, Budget
<1>2. QED
  BY <1>1, ProcessInvHolds, PTL

(* A shipment process that is up has a stream for its environment.         *)
THEOREM StreamIsEnsured == Spec => []EnsuredWhenUp
<1>1. SetupInv => EnsuredWhenUp
  BY DEF SetupInv
<1>2. QED
  BY <1>1, ProcessInvHolds, PTL
=============================================================================
