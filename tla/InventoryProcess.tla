--------------------------- MODULE InventoryProcess ---------------------------
(***************************************************************************)
(* The life of the inventory processes: run of inventory/cmd/inventory/    *)
(* main.go from its connections to its exit, Service.Start and Stop, and   *)
(* what becomes of the events on the way.  Start runs in a goroutine of    *)
(* its own; Stop hands the subscriptions it finds to another one.  A       *)
(* callback makes the calls of the idempotency wrapper, the cached store   *)
(* and the publisher, any of which a shutdown can cut short; of the stock  *)
(* it is kept which events changed it, and which rows have a cache entry.  *)
(*                                                                         *)
(* External: a durable consumer is deleted when the process whose          *)
(* subscription created it closes that subscription; whoever subscribes    *)
(* next creates it anew, and the stream is delivered from its beginning.   *)
(***************************************************************************)
EXTENDS StreamSetup, FiniteSets

CONSTANTS Replicas,       \* processes of the inventory service
          Kinds,          \* the subjects, in the order Start subscribes
          Msgs,           \* the events in the stream
          KindOf,         \* the subject of each event
          Ids, IdOf,      \* idempotency keys, and that of each event
          Rows, RowOf,    \* the rows of the table, and that of each event
          WithRow,        \* what a subject's handler may do with the row it read
          WithBlank,      \* and with the blank one that a cache hit returns
          Nobody,         \* no process
          NoMsg,          \* no event: an idle callback
          MaxDeliver,     \* NumDelivered is counted up to this value
          MaxSignals      \* bound: signals in a behaviour

ASSUME ProcessAssumption ==
  /\ IsFiniteSet(Replicas)
  /\ Kinds \in Seq(ToSet(Kinds)) /\ Kinds # <<>>
  /\ \A a, b \in DOMAIN Kinds : Kinds[a] = Kinds[b] => a = b
  /\ KindOf \in [Msgs -> ToSet(Kinds)] /\ RowOf \in [Msgs -> Rows]
  /\ IdOf \in [Msgs -> Ids]
  /\ WithRow \in [ToSet(Kinds) -> SUBSET {"update", "publish", "mark"}]
  /\ WithBlank \in [ToSet(Kinds) -> SUBSET {"update", "publish", "mark"}]
  /\ Nobody \notin Replicas /\ NoMsg \notin Msgs
  /\ MaxDeliver \in Nat \ {0} /\ MaxSignals \in Nat

VARIABLES phase,          \* what run does next
          cancelled,      \* its context
          starter,        \* the goroutine of Start: its next call
          subs,           \* s.subs
          seen, todo,     \* the subscriptions Stop found, and has left
          live,           \* the open subscriptions
          draining,       \* those that Drain was called on
          connected,      \* FALSE once the client has given up reconnecting
          consumer,       \* the durable consumer of each subject
          deaf,           \* history: subscriptions whose consumer was deleted
          status, deliveries,   \* the server's view of each event
          inbox,          \* the copies in client-side queues
          job,            \* the callback each subscription runs
          applied, marked, dlq, \* stock changes, marks, dead letters
          lapses,         \* history: occasions on which an event may repeat
          cached,         \* the rows with a cache entry, which has no expiry
          left,           \* history: entries that outlived the callback that made them
          excused,        \* history: events handled without a change, for a reason
          signals         \* signals so far

clientVars == <<phase, cancelled, starter, subs, seen, todo>>
linkVars   == <<live, draining, connected, consumer, deaf>>
cacheVars  == <<cached, left, excused>>
eventVars  == <<status, deliveries, inbox, job, applied, marked, dlq, lapses, cacheVars>>
vars == <<setupVars, faults, clientVars, linkVars, eventVars, signals>>

Subjects == ToSet(Kinds)
Workers  == Replicas \X Subjects

NoConsumer == [exists |-> FALSE, creator |-> Nobody, members |-> {}]
IdleJob    == [msg |-> NoMsg, stage |-> "idle", holds |-> "nothing"]

Phases == {"absent", "down", "redis", "nats", "up", "stopping", "stop", "drain"}
Stages == {"idle", "seen", "read", "fetch", "fill", "update", "evict", "publish", "mark",
           "ack", "nak", "bury", "term"}

(* What a callback has of the stock: the row of its event, the blank row   *)
(* of a cache hit, or the row with its change stored.                      *)
Holdings == {"nothing", "row", "blank", "changed"}

Running(i) == phase[i] \notin {"absent", "down"}

Doing(w, stage) == job[w].stage = stage

Goto(w, stage) == job' = [job EXCEPT ![w].stage = stage]

GotoWith(w, stage, holds) == job' = [job EXCEPT ![w].stage = stage, ![w].holds = holds]

RowFor(w) == RowOf[job[w].msg]

IsMarked(m) == IdOf[m] \in marked

-----------------------------------------------------------------------------
(* The end of a process: its connection, callbacks and goroutines go.      *)

(* An event whose stock change is stored and whose mark is not. *)
Unmarked(w) == job[w].stage \in {"evict", "publish", "mark"} /\ job[w].holds = "changed"

(* The callback has filled the entry of the row, and may yet evict it. *)
Filling(w, row) ==
  /\ job[w].stage \in {"update", "evict"} /\ job[w].holds \in {"row", "changed"}
  /\ RowFor(w) = row

(* Closing the subscriptions ks of i; those that made a consumer delete it. *)
Without(i, ks) ==
  [k \in Subjects |->
     IF k \notin ks THEN consumer[k]
     ELSE IF consumer[k].creator = i THEN NoConsumer
     ELSE [consumer[k] EXCEPT !.members = @ \ {i}]]

(* Their other members are left with a subscription nothing is sent to.    *)
Deafened(i, ks) ==
  (deaf \ ({i} \X ks)) \cup {w \in Workers : /\ w[2] \in ks /\ consumer[w[2]].creator = i
                                             /\ w[1] \in consumer[w[2]].members \ {i}}

(* The connection of i is gone: its consumers stay, but are no longer its. *)
Unbound(i) ==
  [k \in Subjects |->
     [consumer[k] EXCEPT !.creator = IF @ = i THEN Nobody ELSE @,
                         !.members = @ \ {i}]]

End(i) ==
  /\ phase' = [phase EXCEPT ![i] = "down"]
  /\ cancelled' = [cancelled EXCEPT ![i] = FALSE]
  /\ starter' = [starter EXCEPT ![i] = [next |-> 1, at |-> "off"]]
  /\ subs' = [subs EXCEPT ![i] = {}]
  /\ seen' = [seen EXCEPT ![i] = {}]
  /\ todo' = [todo EXCEPT ![i] = {}]
  /\ live' = [live EXCEPT ![i] = {}]
  /\ draining' = [draining EXCEPT ![i] = {}]
  /\ connected' = [connected EXCEPT ![i] = FALSE]
  /\ consumer' = Unbound(i)
  /\ deaf' = deaf \ ({i} \X Subjects)
  /\ inbox' = {c \in inbox : c.to # i}
  /\ left' = left \cup {row \in cached : \E k \in Subjects : Filling(<<i, k>>, row)}
  /\ job' = [w \in Workers |-> IF w[1] = i THEN IdleJob ELSE job[w]]
  /\ lapses' = [m \in Msgs |->
                  lapses[m] + Cardinality({w \in Workers : /\ w[1] = i /\ job[w].msg = m
                                                           /\ Unmarked(w)})]
  /\ UNCHANGED <<status, deliveries, applied, marked, dlq, cached, excused, signals, setupVars>>

Crash(i) == Running(i) /\ Fault("crash") /\ End(i)

-----------------------------------------------------------------------------
(* run: connections, then the service. *)

Boot(i) ==
  /\ phase[i] = "down"
  /\ phase' = [phase EXCEPT ![i] = "redis"]
  /\ UNCHANGED <<cancelled, starter, subs, seen, todo, linkVars, eventVars,
                 signals, setupVars, faults>>

Redis(i) ==
  /\ phase[i] = "redis"
  /\ \/ /\ NoFault
        /\ phase' = [phase EXCEPT ![i] = "nats"]
        /\ UNCHANGED <<cancelled, starter, subs, seen, todo, linkVars, eventVars,
                       signals, setupVars>>
     \/ Fault("redis") /\ End(i)

(* newNATS; then Start begins in its own goroutine. *)
NATS(i) ==
  /\ phase[i] = "nats"
  /\ \/ /\ NoFault
        /\ phase' = [phase EXCEPT ![i] = "up"]
        /\ connected' = [connected EXCEPT ![i] = TRUE]
        /\ starter' = [starter EXCEPT ![i] = [next |-> 1, at |-> "subscribe"]]
        /\ UNCHANGED <<cancelled, subs, seen, todo, live, draining, consumer, deaf,
                       eventVars, signals, setupVars>>
     \/ Fault("nats") /\ End(i)

Due(k) == {m \in Msgs : KindOf[m] = k}

(* QueueSubscribe: it binds to the consumer, or creates it and so has the  *)
(* whole stream delivered again.  It fails when no stream captures the     *)
(* subject.                                                                *)
Open(i, k) ==
  /\ live' = [live EXCEPT ![i] = @ \cup {k}]
  /\ IF ~consumer[k].exists
     THEN /\ consumer' = [consumer EXCEPT ![k] = [exists |-> TRUE, creator |-> i,
                                                    members |-> {i}]]
          /\ status' = [m \in Msgs |-> IF m \in Due(k) THEN "queued" ELSE status[m]]
          /\ deliveries' = [m \in Msgs |-> IF m \in Due(k) THEN 0 ELSE deliveries[m]]
     ELSE /\ consumer' = [consumer EXCEPT ![k].members = @ \cup {i}]
          /\ UNCHANGED <<status, deliveries>>

(* Variant of Subscribe: the error of Start is only logged. *)
SubscribeLogged(i) ==
  LET k == Kinds[starter[i].next] IN
  /\ starter[i].at = "subscribe"
  /\ \/ /\ Captured(k) /\ connected[i] /\ NoFault
        /\ Open(i, k)
        /\ starter' = [starter EXCEPT ![i].at = "append"]
     \/ /\ \/ (~Captured(k) \/ ~connected[i]) /\ NoFault
           \/ Fault("nats")
        /\ starter' = [starter EXCEPT ![i].at = "failed"]
        /\ UNCHANGED <<live, consumer, status, deliveries>>
  /\ UNCHANGED <<phase, cancelled, subs, seen, todo, draining, connected, deaf, inbox, job,
                 applied, marked, dlq, lapses, cacheVars, signals, setupVars>>

(* Start: QueueSubscribe for the next subject.  An error ends Start, and   *)
(* the goroutine cancels the context of run.                               *)
Subscribe(i) ==
  LET k == Kinds[starter[i].next] IN
  /\ starter[i].at = "subscribe"
  /\ \/ /\ Captured(k) /\ connected[i] /\ NoFault
        /\ Open(i, k)
        /\ starter' = [starter EXCEPT ![i].at = "append"]
        /\ UNCHANGED cancelled
     \/ /\ \/ (~Captured(k) \/ ~connected[i]) /\ NoFault
           \/ Fault("nats")
        /\ starter' = [starter EXCEPT ![i].at = "failed"]
        /\ cancelled' = [cancelled EXCEPT ![i] = TRUE]
        /\ UNCHANGED <<live, consumer, status, deliveries>>
  /\ UNCHANGED <<phase, subs, seen, todo, draining, connected, deaf, inbox, job, applied,
                 marked, dlq, lapses, cacheVars, signals, setupVars>>

(* s.subs = append(s.subs, sub), which Stop may be reading and clearing. *)
AppendSub(i) ==
  /\ starter[i].at = "append"
  /\ subs' = [subs EXCEPT ![i] = @ \cup {Kinds[starter[i].next]}]
  /\ starter' = [starter EXCEPT ![i] =
                   [next |-> @.next + 1,
                    at |-> IF @.next = Len(Kinds) THEN "done" ELSE "subscribe"]]
  /\ UNCHANGED <<phase, cancelled, seen, todo, linkVars, eventVars, signals, setupVars,
                 faults>>

(* A signal: before run waits for it the process just ends. *)
Signal(i) ==
  /\ signals < MaxSignals
  /\ signals' = signals + 1
  /\ phase[i] = "up"
  /\ phase' = [phase EXCEPT ![i] = "stopping"]
  /\ cancelled' = [cancelled EXCEPT ![i] = TRUE]
  /\ UNCHANGED <<starter, subs, seen, todo, linkVars, eventVars, setupVars, faults>>

(* Variant of ContextDone: the wait is for a service that has started. *)
ContextDoneOnceStarted(i) ==
  /\ phase[i] = "up" /\ cancelled[i] /\ starter[i].at = "done"
  /\ phase' = [phase EXCEPT ![i] = "stopping"]
  /\ UNCHANGED <<cancelled, starter, subs, seen, todo, linkVars, eventVars, signals,
                 setupVars, faults>>

(* The wait also ends when the context was cancelled. *)
ContextDone(i) ==
  /\ phase[i] = "up" /\ cancelled[i]
  /\ phase' = [phase EXCEPT ![i] = "stopping"]
  /\ UNCHANGED <<cancelled, starter, subs, seen, todo, linkVars, eventVars, signals,
                 setupVars, faults>>

-----------------------------------------------------------------------------
(* Service.Stop. *)

(* Nothing to stop, or the goroutine ranges over what is there now. *)
Stop(i) ==
  /\ phase[i] = "stopping"
  /\ phase' = [phase EXCEPT ![i] = IF subs[i] = {} THEN "drain" ELSE "stop"]
  /\ seen' = [seen EXCEPT ![i] = subs[i]]
  /\ todo' = [todo EXCEPT ![i] = subs[i]]
  /\ UNCHANGED <<cancelled, starter, subs, linkVars, eventVars, signals, setupVars, faults>>

(* Variant of Close: a drain goes on. *)
CloseDraining(i, ks) ==
  /\ live' = [live EXCEPT ![i] = @ \ ks]
  /\ consumer' = Without(i, ks)
  /\ deaf' = Deafened(i, ks)
  /\ inbox' = {c \in inbox : c.to # i \/ KindOf[c.msg] \notin ks}
  /\ UNCHANGED <<draining, connected, status, deliveries, job, applied, marked, dlq, lapses,
                 cacheVars>>

(* The subscriptions ks are closed: what waits in their queues is dropped, *)
(* a callback that runs goes on.                                           *)
Close(i, ks) ==
  /\ live' = [live EXCEPT ![i] = @ \ ks]
  /\ draining' = [draining EXCEPT ![i] = @ \ ks]
  /\ consumer' = Without(i, ks)
  /\ deaf' = Deafened(i, ks)
  /\ inbox' = {c \in inbox : c.to # i \/ KindOf[c.msg] \notin ks}
  /\ UNCHANGED <<connected, status, deliveries, job, applied, marked, dlq, lapses, cacheVars>>

(* Drain returns at once: no more copies come, those in the queue may run. *)
Drain(i, k) ==
  /\ phase[i] = "stop" /\ k \in todo[i] \ draining[i] /\ k \in live[i]
  /\ connected[i] /\ NoFault
  /\ draining' = [draining EXCEPT ![i] = @ \cup {k}]
  /\ UNCHANGED <<clientVars, live, connected, consumer, deaf, eventVars, signals, setupVars>>

(* Variant of Unsubscribe: a subscription that fails to drain is left. *)
UnsubscribeDrained(i, k) ==
  /\ phase[i] = "stop" /\ k \in todo[i]
  /\ todo' = [todo EXCEPT ![i] = @ \ {k}]
  /\ \/ k \in draining[i] /\ NoFault /\ Close(i, {k})
     \/ /\ k \notin draining[i]
        /\ (~connected[i] /\ NoFault) \/ Fault("nats")
        /\ UNCHANGED <<linkVars, eventVars>>
  /\ UNCHANGED <<phase, cancelled, starter, subs, seen, signals, setupVars>>

(* Unsubscribe follows at once, also when Drain failed. *)
Unsubscribe(i, k) ==
  /\ phase[i] = "stop" /\ k \in todo[i]
  /\ \/ (k \in draining[i] \/ ~connected[i]) /\ NoFault
     \/ k \notin draining[i] /\ Fault("nats")
  /\ todo' = [todo EXCEPT ![i] = @ \ {k}]
  /\ Close(i, {k})
  /\ UNCHANGED <<phase, cancelled, starter, subs, seen, signals, setupVars>>

(* The goroutine is done: s.subs = nil. *)
Stopped(i) ==
  /\ phase[i] = "stop" /\ todo[i] = {}
  /\ phase' = [phase EXCEPT ![i] = "drain"]
  /\ subs' = [subs EXCEPT ![i] = {}]
  /\ UNCHANGED <<cancelled, starter, seen, todo, linkVars, eventVars, signals, setupVars,
                 faults>>

(* The shutdown timeout comes first: unsubscribe whatever s.subs holds. *)
StopTimeout(i) ==
  /\ phase[i] = "stop" /\ Fault("slow")
  /\ phase' = [phase EXCEPT ![i] = "drain"]
  /\ todo' = [todo EXCEPT ![i] = {}]
  /\ Close(i, subs[i])
  /\ UNCHANGED <<cancelled, starter, subs, seen, signals, setupVars>>

(* nc.Drain only starts to drain the connection; run returns, main ends,   *)
(* and the callbacks that still run end with it.                           *)
Exit(i) == phase[i] = "drain" /\ NoFault /\ End(i)

-----------------------------------------------------------------------------
(* The events. *)

Held(m) == (\E c \in inbox : c.msg = m) \/ (\E w \in Workers : job[w].msg = m)

Push(i, m) ==
  LET k == KindOf[m] IN
  /\ consumer[k].exists /\ i \in consumer[k].members /\ k \in live[i] \ draining[i]
  /\ status[m] = "queued"
  /\ status' = [status EXCEPT ![m] = "outstanding"]
  /\ deliveries' = [deliveries EXCEPT ![m] = IF @ < MaxDeliver THEN @ + 1 ELSE @]
  /\ inbox' = inbox \cup {[to |-> i, msg |-> m]}
  /\ lapses' = [lapses EXCEPT ![m] = @ + (IF Held(m) THEN 1 ELSE 0)]
  /\ UNCHANGED <<setupVars, faults, clientVars, linkVars, job, applied, marked, dlq, cacheVars,
                 signals>>

Take(w) ==
  /\ Doing(w, "idle")
  /\ \E c \in inbox :
       /\ c.to = w[1] /\ KindOf[c.msg] = w[2]
       /\ inbox' = inbox \ {c}
       /\ job' = [job EXCEPT ![w] = [msg |-> c.msg, stage |-> "seen", holds |-> "nothing"]]
  /\ UNCHANGED <<setupVars, faults, clientVars, linkVars, status, deliveries, applied,
                 marked, dlq, lapses, cacheVars, signals>>

(* The context of every call the callback makes is derived from run's: a   *)
(* call succeeds before that is cancelled, or fails, with it or alone.     *)
Alive(w) == ~cancelled[w[1]]

Works(w) == Alive(w) /\ NoFault

Fails(w, f) == IF Alive(w) THEN Fault(f) ELSE NoFault

HandlerFrame == UNCHANGED <<setupVars, clientVars, linkVars, status, deliveries, inbox,
                            signals>>

(* The handler returned an error: the last delivery is buried. *)
GiveUp(w) == Goto(w, IF deliveries[job[w].msg] >= MaxDeliver THEN "bury" ELSE "nak")

Lapse(w, n) == lapses' = [lapses EXCEPT ![job[w].msg] = @ + n]

Failed(w) == GiveUp(w) /\ Lapse(w, IF Unmarked(w) THEN 1 ELSE 0)

(* Whatever entry the row has now stays. *)
Abandon(w) == left' = (left \ {RowFor(w)}) \cup ({RowFor(w)} \cap cached')

(* Variant of Seen: an error counts as seen. *)
SeenCautious(w) ==
  /\ Doing(w, "seen")
  /\ \/ Works(w) /\ Goto(w, IF IsMarked(job[w].msg) THEN "ack" ELSE "read")
     \/ Fails(w, "redis") /\ Goto(w, "ack")
  /\ HandlerFrame /\ UNCHANGED <<applied, marked, dlq, lapses, cacheVars>>

(* Variant of Seen: the mark is not looked at. *)
SeenBlindly(w) ==
  /\ Doing(w, "seen")
  /\ Goto(w, "read")
  /\ HandlerFrame /\ NoFault /\ UNCHANGED <<applied, marked, dlq, lapses, cacheVars>>

(* Seen: its error, as of a cancelled context, counts as "not seen". *)
Seen(w) ==
  /\ Doing(w, "seen")
  /\ \/ /\ Works(w) /\ UNCHANGED lapses
        /\ Goto(w, IF IsMarked(job[w].msg) THEN "ack" ELSE "read")
     \/ /\ Fails(w, "redis")
        /\ Lapse(w, IF Alive(w) /\ IsMarked(job[w].msg) THEN 1 ELSE 0)
        /\ Goto(w, "read")
  /\ HandlerFrame /\ UNCHANGED <<applied, marked, dlq, cacheVars>>

(* readCache: a hit returns a blank Inventory{}, and the handler decides   *)
(* by that; there is a reason for the entry if an earlier callback left it *)
(* or another one is between its fill and its eviction.                    *)
Read(w) ==
  /\ Doing(w, "read")
  /\ \/ /\ Works(w) /\ RowFor(w) \in cached
        /\ \E next \in WithBlank[w[2]] : GotoWith(w, next, "blank")
        /\ excused' = IF \/ RowFor(w) \in left
                         \/ \E v \in Workers : Filling(v, RowFor(w))
                      THEN excused \cup {job[w].msg} ELSE excused
     \/ /\ (Works(w) /\ RowFor(w) \notin cached) \/ Fails(w, "redis")
        /\ Goto(w, "fetch") /\ UNCHANGED excused
  /\ HandlerFrame /\ UNCHANGED <<applied, marked, dlq, lapses, cached, left>>

(* The SELECT of the row. *)
Fetch(w) ==
  /\ Doing(w, "fetch")
  /\ \/ Works(w) /\ Goto(w, "fill") /\ UNCHANGED lapses
     \/ Fails(w, "db") /\ Failed(w)
  /\ HandlerFrame /\ UNCHANGED <<applied, marked, dlq, cacheVars>>

(* writeCache, whose error is dropped; then the handler decides by the     *)
(* row, and may find nothing to change: the entry stays.                   *)
Fill(w) ==
  /\ Doing(w, "fill")
  /\ \/ Works(w) /\ cached' = cached \cup {RowFor(w)}
     \/ Fails(w, "redis") /\ cached' \in {cached, cached \cup {RowFor(w)}}
  /\ \E next \in WithRow[w[2]] :
       /\ GotoWith(w, next, "row")
       /\ IF next = "update" THEN UNCHANGED <<left, excused>>
                             ELSE excused' = excused \cup {job[w].msg} /\ Abandon(w)
  /\ HandlerFrame /\ UNCHANGED <<applied, marked, dlq, lapses>>

(* The UPDATE; one whose answer is lost may have been executed. *)
Update(w) ==
  /\ Doing(w, "update") /\ job[w].holds = "row"
  /\ HandlerFrame /\ UNCHANGED <<marked, dlq, cached, excused>>
  /\ \/ /\ Works(w) /\ UNCHANGED <<lapses, left>>
        /\ applied' = [applied EXCEPT ![job[w].msg] = @ + 1]
        /\ GotoWith(w, "evict", "changed")
     \/ /\ Fails(w, "db")
        /\ \E n \in {0, 1} : applied' = [applied EXCEPT ![job[w].msg] = @ + n] /\ Lapse(w, n)
        /\ GiveUp(w) /\ Abandon(w)

(* The UPDATE of a blank row matches none. *)
UpdateBlank(w) ==
  /\ Doing(w, "update") /\ job[w].holds = "blank"
  /\ \/ Works(w) /\ Goto(w, "evict") /\ UNCHANGED lapses
     \/ Fails(w, "db") /\ Failed(w)
  /\ HandlerFrame /\ UNCHANGED <<applied, marked, dlq, cacheVars>>

(* The eviction, whose error becomes the handler's; that of a blank row    *)
(* concerns no entry.                                                      *)
Evict(w) ==
  LET mine == IF job[w].holds = "changed" THEN {RowFor(w)} ELSE {} IN
  /\ Doing(w, "evict")
  /\ \/ /\ Works(w) /\ Goto(w, "publish") /\ UNCHANGED lapses
        /\ cached' = cached \ mine
        /\ left' = left \ mine
     \/ /\ Fails(w, "redis") /\ Failed(w)
        /\ cached' \in {cached, cached \ mine}
        /\ left' = (left \ mine) \cup (mine \cap cached')
  /\ HandlerFrame /\ UNCHANGED <<applied, marked, dlq, excused>>

(* What the handler publishes must be captured by a stream. *)
Publish(w) ==
  /\ Doing(w, "publish")
  /\ IF Alive(w) /\ connected[w[1]] /\ Captured("outputs")
     THEN \/ NoFault /\ Goto(w, "mark") /\ UNCHANGED lapses
          \/ Fault("publish") /\ Failed(w)
     ELSE NoFault /\ Failed(w)
  /\ HandlerFrame /\ UNCHANGED <<applied, marked, dlq, cacheVars>>

Mark(w) ==
  /\ Doing(w, "mark")
  /\ \/ /\ Works(w) /\ Goto(w, "ack") /\ UNCHANGED lapses
        /\ marked' = marked \cup {IdOf[job[w].msg]}
     \/ /\ Fails(w, "redis") /\ Failed(w)
        /\ marked' \in {marked, marked \cup {IdOf[job[w].msg]}}
  /\ HandlerFrame /\ UNCHANGED <<applied, dlq, cacheVars>>

(* PublishDLQ: its error is dropped, and so is the event. *)
PublishDLQ(w) ==
  /\ Doing(w, "bury")
  /\ \/ /\ NoFault
        /\ dlq' = IF Alive(w) /\ connected[w[1]] /\ Captured("dlq") THEN dlq \cup {job[w].msg}
                                                                      ELSE dlq
     \/ Fault("publish") /\ UNCHANGED dlq
  /\ Goto(w, "term")
  /\ HandlerFrame /\ UNCHANGED <<applied, marked, lapses, cacheVars>>

(* Ack, Nak and Term need no context.  They reach a consumer that exists;  *)
(* one that was created anew since may or may not recognise them.          *)
Answer(w) ==
  LET m == job[w].msg
      i == w[1]
      settled == IF status[m] # "outstanding" THEN status[m]
                 ELSE CASE Doing(w, "ack") -> "acked"
                        [] Doing(w, "nak") -> "queued"
                        [] OTHER -> "termed"
  IN  /\ job[w].stage \in {"ack", "nak", "term"}
      /\ \/ /\ connected[i] /\ consumer[w[2]].exists /\ NoFault
            /\ status' = [status EXCEPT ![m] = settled]
         \/ /\ (i \notin consumer[w[2]].members /\ NoFault) \/ Fault("ack")
            /\ UNCHANGED status
      /\ job' = [job EXCEPT ![w] = IdleJob]
      /\ UNCHANGED <<setupVars, clientVars, linkVars, deliveries, inbox, applied, marked, dlq,
                     lapses, cacheVars, signals>>

(* AckWait runs out for a copy nobody holds (a slow callback is covered by *)
(* InventoryService).                                                      *)
AckWait(m) ==
  /\ consumer[KindOf[m]].exists
  /\ status[m] = "outstanding" /\ ~Held(m)
  /\ status' = [status EXCEPT ![m] = "queued"]
  /\ UNCHANGED <<setupVars, faults, clientVars, linkVars, deliveries, inbox, job, applied,
                 marked, dlq, lapses, cacheVars, signals>>

(* A mark is kept for 24 hours, an event for 72. *)
Forget(id) ==
  /\ id \in marked /\ Fault("ttl")
  /\ marked' = marked \ {id}
  /\ lapses' = [m \in Msgs |-> IF IdOf[m] = id THEN lapses[m] + 1 ELSE lapses[m]]
  /\ UNCHANGED <<setupVars, clientVars, linkVars, status, deliveries, inbox, job, applied,
                 dlq, cacheVars, signals>>

(* NATS is away for longer than MaxReconnects attempts: the client closes  *)
(* the connection for good, and nobody tells run.                          *)
Outage(i) ==
  /\ connected[i] /\ Fault("outage")
  /\ connected' = [connected EXCEPT ![i] = FALSE]
  /\ live' = [live EXCEPT ![i] = {}]
  /\ draining' = [draining EXCEPT ![i] = {}]
  /\ consumer' = Unbound(i)
  /\ deaf' = deaf \ ({i} \X Subjects)
  /\ inbox' = {c \in inbox : c.to # i}
  /\ UNCHANGED <<setupVars, clientVars, status, deliveries, job, applied, marked, dlq, lapses,
                 cacheVars, signals>>

-----------------------------------------------------------------------------
Init ==
  /\ SetupInit
  /\ phase \in [Replicas -> {"down", "absent"}]
  /\ cancelled = [i \in Replicas |-> FALSE]
  /\ starter = [i \in Replicas |-> [next |-> 1, at |-> "off"]]
  /\ subs = [i \in Replicas |-> {}]
  /\ seen = [i \in Replicas |-> {}]
  /\ todo = [i \in Replicas |-> {}]
  /\ live = [i \in Replicas |-> {}]
  /\ draining = [i \in Replicas |-> {}]
  /\ connected = [i \in Replicas |-> FALSE]
  /\ consumer = [k \in Subjects |-> NoConsumer] /\ deaf = {}
  /\ status = [m \in Msgs |-> "queued"]
  /\ deliveries = [m \in Msgs |-> 0]
  /\ inbox = {}
  /\ job = [w \in Workers |-> IdleJob]
  /\ applied = [m \in Msgs |-> 0]
  /\ marked = {} /\ dlq = {}
  /\ lapses = [m \in Msgs |-> 0]
  /\ cached = {} /\ left = {} /\ excused = {}
  /\ signals = 0

Client(i) ==
  \/ Redis(i) \/ NATS(i) \/ ContextDone(i)
  \/ Stop(i) \/ Stopped(i) \/ StopTimeout(i) \/ Exit(i)
  \/ \E k \in Subjects : Drain(i, k) \/ Unsubscribe(i, k)

Starting(i) == Subscribe(i) \/ AppendSub(i)

Handler(w) ==
  \/ Take(w) \/ Seen(w) \/ Read(w) \/ Fetch(w) \/ Fill(w) \/ Update(w) \/ UpdateBlank(w)
  \/ Evict(w) \/ Publish(w) \/ Mark(w) \/ PublishDLQ(w) \/ Answer(w)

Next ==
  \/ \E i \in Replicas : \/ Boot(i) \/ Client(i) \/ Starting(i) \/ Signal(i) \/ Crash(i) \/ Outage(i)
                         \/ \E m \in Msgs : Push(i, m)
  \/ \E w \in Workers : Handler(w)
  \/ \E m \in Msgs : AckWait(m)
  \/ \E id \in Ids : Forget(id)
  \/ SetupNext /\ UNCHANGED <<clientVars, linkVars, eventVars, signals>>

Spec == Init /\ [][Next]_vars

(* Processes that run, their goroutines and the server keep going.  Nothing *)
(* in the repository starts a process again: Boot is not fair.              *)
Fairness ==
  /\ \A i \in Replicas : WF_vars(Client(i)) /\ WF_vars(Starting(i))
  /\ \A i \in Replicas, m \in Msgs : WF_vars(Push(i, m))
  /\ \A w \in Workers : WF_vars(Handler(w))
  /\ \A m \in Msgs : WF_vars(AckWait(m))

FairSpec == Spec /\ Fairness

-----------------------------------------------------------------------------
(* Properties. *)

(* Type invariant. *)
TypeOK ==
  /\ phase \in [Replicas -> Phases]
  /\ \A i \in Replicas :
       /\ starter[i].next \in 1..(Len(Kinds) + 1)
       /\ subs[i] \cup seen[i] \cup todo[i] \cup live[i] \subseteq Subjects
       /\ draining[i] \subseteq live[i]
       /\ live[i] # {} => Running(i)
  /\ \A k \in Subjects : consumer[k].members \subseteq Replicas
  /\ status \in [Msgs -> {"queued", "outstanding", "acked", "termed"}]
  /\ deliveries \in [Msgs -> 0..MaxDeliver]
  /\ \A w \in Workers : job[w].stage \in Stages /\ job[w].holds \in Holdings
  /\ applied \in [Msgs -> Nat] /\ marked \subseteq Ids /\ dlq \cup excused \subseteq Msgs
  /\ left \subseteq cached /\ cached \subseteq Rows /\ deaf \subseteq Workers

(* StopClosesWhatItSaw: when Stop has returned, in time or not, none of the *)
(* subscriptions it found is open, even if its Drain failed; only those     *)
(* Start was still making may be.                                           *)
StopClosesWhatItSaw ==
  \A i \in Replicas : phase[i] = "drain" => live[i] \cap seen[i] = {}

(* NeverHalfSubscribed: a service whose Start has ended, and that is not on *)
(* its way out, receives every subject as long as it is connected: it has   *)
(* all the subscriptions, and is a member of each one's consumer, but for   *)
(* those whose consumer the process that made it deleted since, when that   *)
(* process unsubscribed.                                                    *)
NeverHalfSubscribed ==
  \A i \in Replicas :
    phase[i] = "up" /\ starter[i].at \in {"done", "failed"} /\ ~cancelled[i] /\ connected[i]
      => \A k \in Subjects : k \in live[i] /\ (i \in consumer[k].members \/ <<i, k>> \in deaf)

(* HandledOrKept: an event the server counts as handled has changed the     *)
(* stock, or a handler that read its row found nothing to change, or it was *)
(* decided by the blank row of a cache hit that something accounts for: the *)
(* entry was left by a callback that changed nothing or was cut short       *)
(* between fill and eviction, or another callback was there at the time.    *)
(* For an event that shares its idempotency key with others this may be so  *)
(* of another one.  No other way of shutting down, crashing or subscribing  *)
(* anew loses an event.                                                     *)
HandledOrKept ==
  \A m \in Msgs : status[m] = "acked" =>
    \E n \in Msgs : IdOf[n] = IdOf[m] /\ (applied[n] > 0 \/ n \in excused)

(* RepeatsAreCaused: an event changes the stock again only for a reason:    *)
(* the answer to its UPDATE was lost; a failure or an end cut it short      *)
(* between the UPDATE and its mark; the mark ran out, or could not be       *)
(* looked up; or it was delivered while another process still held it.      *)
RepeatsAreCaused == \A m \in Msgs : applied[m] <= 1 + lapses[m]

(* EventsSettle: if streams capture the subjects from some time on and      *)
(* some process is connected, and not deaf, again and again (if it ended it *)
(* is started, if it was cut off or is deaf it is ended), every event is    *)
(* settled: a shutdown between Start's subscriptions, or of another process *)
(* that holds the event, does not leave it waiting.                         *)
EventsSettle ==
  (/\ <>[](\A k \in Subjects : Captured(k))
   /\ \E i \in Replicas : []<>(connected[i] /\ \A k \in Subjects : <<i, k>> \notin deaf))
    => \A m \in Msgs : <>(status[m] \in {"acked", "termed"})
=============================================================================
