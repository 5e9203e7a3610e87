---------------------------- MODULE ShipmentStore ----------------------------
(***************************************************************************)
(* The shipment aggregate: the domain calls (domain/shipment/shipment.go), *)
(* the cache in front of the tables (stores/shpimentcache), the statements *)
(* on the four tables (stores/shipmentdb), the transactions callers may    *)
(* pass to NewWithTx, and the seed document (migrate/migrate.go).          *)
(*                                                                         *)
(* A call is the list of statements it has left.  Every statement is a     *)
(* step of its own, because outside a transaction each one commits by      *)
(* itself.  A transaction works on a private copy of the shipments it      *)
(* wrote, which stay locked until it ends.                                 *)
(***************************************************************************)
EXTENDS Naturals, Sequences

CONSTANTS Clients,        \* goroutines that call the domain or the store
          Ids,            \* shipment ids
          Headers,        \* contents of a row of shipments
          NullTimes,      \* those with a time that is NULL
          Tracking,       \* the tracking number of each header
          Keys,           \* SKUs of items, sequence numbers of logs and changes
          NoHeader,       \* no row in shipments
          NoShipment,     \* no shipment at hand
          Complete,       \* shipments handed to Storer.Create
          NewShipments,   \* header and items handed to Business.Create
          Updates,        \* what UpdateShipment changes
          Seeded,         \* the shipment of seed.sql
          Faults,         \* the kinds of fault this instance considers
          MaxFaults,      \* bound: faults in a behaviour
          MaxCalls        \* bound: calls of each client

Parts == {"items", "logs", "history"}

(* What the tables hold of one shipment. *)
Stored == [header : Headers \cup {NoHeader}, items : SUBSET Keys,
           logs : SUBSET Keys, history : SUBSET Keys]

Absent == [header |-> NoHeader, items |-> {}, logs |-> {}, history |-> {}]

(* A shipment.Shipment: its rows name the shipment they belong to, and the *)
(* logs may hold one sequence number twice.                                *)
Shipment == [id : Ids, header : Headers \cup {NoHeader}, items : SUBSET (Ids \X Keys),
             logs : SUBSET (Ids \X Keys), history : SUBSET (Ids \X Keys), twice : BOOLEAN]

Blank(id) == [id |-> id, header |-> NoHeader, items |-> {}, logs |-> {},
              history |-> {}, twice |-> FALSE]

(* NewShipment, and UpdateShipment, whose Items may be nil or given.  Rows *)
(* keep the shipment id the caller wrote into them.                        *)
NewShipment == [header : Headers, items : SUBSET (Ids \X Keys)]

UpdateShipment == [header : Headers, given : BOOLEAN, items : SUBSET (Ids \X Keys),
                   logs : SUBSET (Ids \X Keys), history : SUBSET (Ids \X Keys)]

Nothing == [i \in Ids |-> Absent]

(* Rows of a table become parts of a shipment, and parts become rows. *)
ToBus(i, keys) == {i} \X keys

Of(rows, i) == {r[2] : r \in {r \in rows : r[1] = i}}

Owners(rows) == {r[1] : r \in rows}

FaultKinds == {"db", "redis", "rows", "crash", "ttl"}

ASSUME StoreAssumption ==
  /\ NoHeader \notin Headers /\ NoShipment \notin Shipment
  /\ Complete \subseteq Shipment
  /\ \A s \in Complete : /\ Owners(s.items \cup s.logs \cup s.history) = {s.id}
                        /\ ~s.twice
  /\ NewShipments \subseteq NewShipment /\ Updates \subseteq UpdateShipment
  /\ NullTimes \subseteq Headers
  /\ \A s \in Complete \cup NewShipments \cup Updates : s.header \in Headers \ NullTimes
  /\ Seeded \in Shipment /\ Seeded.header \in NullTimes
  /\ \A p \in Parts : Of(Seeded[p], Seeded.id) # {}
  /\ Faults \subseteq FaultKinds
  /\ MaxFaults \in Nat /\ MaxCalls \in Nat

VARIABLES db,        \* the committed tables, by shipment
          tx,        \* what each client passed to NewWithTx: none, open or aborted
          over,      \* the shipments as the transaction of each client left them
          touched,   \* the shipments it wrote: they are locked
          cache,     \* the entries "shipment:<id>": none or one shipment
          call,      \* the call each client runs
          got,       \* the last shipment each client was given
          calls,     \* calls made by each client
          suspect,   \* history: shipments whose entry may be out of date
          failed,    \* history: shipments written by a call that failed
          faults     \* faults so far

vars == <<db, tx, over, touched, cache, call, got, calls, suspect, failed, faults>>

-----------------------------------------------------------------------------
(* shipmentdb: the statements of each operation, in the order of the code. *)
StoreCreate == <<"insertHeader", "insertItems", "insertLogs", "insertHistory">>

StoreUpdate == <<"updateHeader", "deleteItems", "insertItems", "deleteLogs", "insertLogs",
                 "deleteHistory", "insertNothing">>

StoreDelete == <<"deleteHeader">>

StoreQueryByID == <<"readHeader", "readItems", "readLogs", "readHistory">>

(* The cache in front of them, and Seed. *)
Program == [
  create |-> StoreCreate \o <<"fill">>,
  update |-> StoreUpdate \o <<"evict">>,
  delete |-> StoreDelete \o <<"evict">>,
  query  |-> <<"readCache">> \o StoreQueryByID \o <<"fill">>,
  seed   |-> <<"ping", "begin", "seed", "commit">>]

Idle == [op |-> "none", shp |-> NoShipment, left |-> <<>>, clean |-> TRUE, wrote |-> {}]

NewCall(op, shp) == [op |-> op, shp |-> shp, left |-> Program[op], clean |-> TRUE,
                     wrote |-> {}]

At(c, step) == call[c].left # <<>> /\ Head(call[c].left) = step

Shp(c) == call[c].shp

(* What a statement of c sees: read committed, and its own writes. *)
View(c) == [i \in Ids |-> IF i \in touched[c] THEN over[c][i] ELSE db[i]]

(* A shipment as four SELECTs return it. *)
AsRead(i, stored) ==
  [id |-> i, header |-> stored.header, items |-> ToBus(i, stored.items),
   logs |-> ToBus(i, stored.logs), history |-> ToBus(i, stored.history), twice |-> FALSE]

(* The store a client works with is that of its transaction; the cache is   *)
(* the same one either way.                                                 *)
InTx(c) == tx[c] = "open"

Fault(f) == f \in Faults /\ faults < MaxFaults /\ faults' = faults + 1

NoFault == UNCHANGED faults

-----------------------------------------------------------------------------
(* How calls advance and end. *)

(* The calls after shipments `changed` were committed, c's own becoming `own`. *)
CallsAfter(c, own, changed) ==
  [d \in Clients |->
     IF d = c THEN own
     ELSE IF call[d].op # "none" /\ Shp(d).id \in changed
          THEN [call[d] EXCEPT !.clean = FALSE]
     ELSE call[d]]

Step(c) == [call[c] EXCEPT !.left = Tail(@)]

(* A failed call leaves what it wrote, and whatever the cache says of it. *)
Blame(ids) == suspect' = suspect \cup ids /\ failed' = failed \cup ids

(* Variant of EndTx: the locks are kept. *)
EndTxHolding(c) ==
  /\ tx' = [tx EXCEPT ![c] = "none"]
  /\ over' = [over EXCEPT ![c] = Nothing]
  /\ UNCHANGED touched

(* The transaction of c is over; its locks are free. *)
EndTx(c) ==
  /\ tx' = [tx EXCEPT ![c] = "none"]
  /\ over' = [over EXCEPT ![c] = Nothing]
  /\ touched' = [touched EXCEPT ![c] = {}]

(* The call fails, and its transaction with it when the server refused. *)
Fail(c, abort) ==
  /\ call' = [call EXCEPT ![c] = Idle]
  /\ Blame(call[c].wrote)
  /\ IF call[c].op = "seed"                     \* the deferred Rollback
     THEN EndTx(c)
     ELSE /\ tx' = [tx EXCEPT ![c] = IF abort /\ @ = "open" THEN "aborted" ELSE @]
          /\ UNCHANGED <<over, touched>>
  /\ UNCHANGED <<db, got, calls>>

(* A statement waits for a shipment another transaction wrote, and for a   *)
(* tracking number it has given away.                                      *)
Waits(c, ids) ==
  \E d \in Clients \ {c} :
    \/ touched[d] \cap ids # {}
    \/ /\ Head(call[c].left) \in {"insertHeader", "updateHeader", "seed"}
       /\ \E i \in touched[d] : LET h == over[d][i].header
                                IN  h # NoHeader /\ Tracking[h] = Tracking[Shp(c).header]

(* Variant of Write: the store of a transaction still writes to the pool. *)
WriteThrough(c, new, ids, own) ==
  /\ db' = new
  /\ call' = CallsAfter(c, own, ids)
  /\ UNCHANGED <<over, touched>>

(* The statement took effect: at once, or in the copy of the transaction. *)
Write(c, new, ids, own) ==
  IF InTx(c)
  THEN /\ over' = [over EXCEPT ![c] = new]
       /\ touched' = [touched EXCEPT ![c] = @ \cup ids]
       /\ call' = [call EXCEPT ![c] = own]
       /\ UNCHANGED db
  ELSE /\ db' = new
       /\ call' = CallsAfter(c, own, ids)
       /\ UNCHANGED <<over, touched>>

(* A statement that writes the shipments ids, giving new, if it is accepted. *)
(* It waits for a lock; a transaction that waits may be a deadlock's victim; *)
(* a connection may fail before or after the statement took effect.          *)
Execute(c, ids, accepted, new) ==
  LET free == ~Waits(c, ids)
      own  == [Step(c) EXCEPT !.wrote = @ \cup ids]
  IN  \/ /\ free /\ accepted /\ tx[c] # "aborted" /\ NoFault
         /\ Write(c, new, ids, own)
         /\ UNCHANGED <<tx, cache, got, calls, suspect, failed>>
      \/ /\ tx[c] = "aborted" \/ (free /\ ~accepted) \/ (~free /\ touched[c] # {})
         /\ NoFault /\ Fail(c, TRUE) /\ UNCHANGED cache
      \/ Fault("db") /\ Fail(c, TRUE) /\ UNCHANGED cache
      \/ /\ free /\ accepted /\ tx[c] = "none" /\ Fault("db")
         /\ Write(c, new, ids, Idle)
         /\ Blame(call[c].wrote \cup ids)
         /\ UNCHANGED <<tx, cache, got, calls>>

-----------------------------------------------------------------------------
(* shipmentdb: the statements. *)

Held(c) == {i \in Ids : View(c)[i].header # NoHeader}

(* UNIQUE (tracking_number): the empty string is a number like any other. *)
Unused(c, header) ==
  \A i \in Ids \ {Shp(c).id} :
     LET h == View(c)[i].header IN h # NoHeader => Tracking[h] # Tracking[header]

InsertHeader(c) ==
  LET s == Shp(c) IN
  /\ At(c, "insertHeader")
  /\ Execute(c, {s.id},
             s.id \notin Held(c) /\ Unused(c, s.header),
             [View(c) EXCEPT ![s.id].header = s.header])

(* No row is no error, and the rows that follow then have no shipment. *)
UpdateHeader(c) ==
  LET s == Shp(c) IN
  /\ At(c, "updateHeader")
  /\ Execute(c, {s.id} \cap Held(c),
             s.id \notin Held(c) \/ Unused(c, s.header),
             [View(c) EXCEPT ![s.id].header = IF @ = NoHeader THEN @ ELSE s.header])

(* ON DELETE CASCADE takes the rows of the other tables. *)
DeleteHeader(c) ==
  /\ At(c, "deleteHeader")
  /\ Execute(c, {Shp(c).id} \cap Held(c), TRUE, [View(c) EXCEPT ![Shp(c).id] = Absent])

Part(step) == CASE step \in {"insertItems", "deleteItems", "readItems"} -> "items"
                [] step \in {"insertLogs", "deleteLogs", "readLogs"} -> "logs"
                [] OTHER -> "history"

(* Variant of InsertRows: an empty list is skipped. *)
InsertRowsIfAny(c, step) ==
  LET part == Part(step)
      rows == Shp(c)[part]
      accepted == /\ \A r \in rows : /\ View(c)[r[1]].header # NoHeader
                                     /\ r[2] \notin View(c)[r[1]][part]
                  /\ part = "logs" => ~Shp(c).twice
      new == [i \in Ids |-> [View(c)[i] EXCEPT ![part] = @ \cup Of(rows, i)]]
  IN  At(c, step) /\ Execute(c, Owners(rows), accepted, new)

(* One INSERT of all rows.  sqlx refuses an empty list before anything is  *)
(* sent; foreign and primary keys are checked by the server.               *)
InsertRows(c, step) ==
  LET part == Part(step)
      rows == Shp(c)[part]
      accepted == /\ \A r \in rows : /\ View(c)[r[1]].header # NoHeader
                                     /\ r[2] \notin View(c)[r[1]][part]
                  /\ part = "logs" => ~Shp(c).twice
      new == [i \in Ids |-> [View(c)[i] EXCEPT ![part] = @ \cup Of(rows, i)]]
  IN  /\ At(c, step)
      /\ IF rows = {} THEN NoFault /\ Fail(c, FALSE) /\ UNCHANGED cache
                      ELSE Execute(c, Owners(rows), accepted, new)

DeleteRows(c, step) ==
  /\ At(c, step)
  /\ Execute(c, {Shp(c).id} \cap Held(c), TRUE, [View(c) EXCEPT ![Shp(c).id][Part(step)] = {}])

(* "INSERT INTO shipment_status_history (...) VALUES (...)" is no SQL. *)
InsertNothing(c) ==
  /\ At(c, "insertNothing")
  /\ NoFault
  /\ Fail(c, Shp(c).history # {})
  /\ UNCHANGED cache

(* The header: none is ErrDBNotFound, and a NULL does not fit a time.Time. *)
(* Neither is an error of the server: a transaction stays open.            *)
ReadHeader(c) ==
  LET h == View(c)[Shp(c).id].header IN
  /\ At(c, "readHeader")
  /\ \/ /\ tx[c] # "aborted" /\ h \notin NullTimes \cup {NoHeader} /\ NoFault
        /\ call' = [call EXCEPT ![c] = [Step(c) EXCEPT !.shp.header = h]]
        /\ UNCHANGED <<db, tx, over, touched, cache, got, calls, suspect, failed>>
     \/ /\ tx[c] # "aborted" /\ h \in NullTimes \cup {NoHeader} /\ NoFault
        /\ Fail(c, FALSE) /\ UNCHANGED cache
     \/ tx[c] = "aborted" /\ NoFault /\ Fail(c, TRUE) /\ UNCHANGED cache
     \/ Fault("db") /\ Fail(c, TRUE) /\ UNCHANGED cache

(* namedQuerySlice: rows.Err() is not asked, so a connection that fails     *)
(* between two rows ends the list early.                                    *)
ReadRows(c, step) ==
  LET id   == Shp(c).id
      part == Part(step)
      all  == ToBus(id, View(c)[id][part])
  IN  /\ At(c, step)
      /\ \/ /\ tx[c] # "aborted" /\ NoFault
            /\ call' = [call EXCEPT ![c] = [Step(c) EXCEPT !.shp[part] = all]]
            /\ UNCHANGED <<db, tx, over, touched, cache, got, calls, suspect, failed>>
         \/ /\ tx[c] # "aborted" /\ Fault("rows")
            /\ \E some \in SUBSET all \ {all} :
                 call' = [call EXCEPT ![c] = [Step(c) EXCEPT !.shp[part] = some,
                                                              !.clean = FALSE]]
            /\ tx' = [tx EXCEPT ![c] = IF @ = "open" THEN "aborted" ELSE @]
            /\ UNCHANGED <<db, over, touched, cache, got, calls, suspect, failed>>
         \/ tx[c] = "aborted" /\ NoFault /\ Fail(c, TRUE) /\ UNCHANGED cache
         \/ Fault("db") /\ Fail(c, TRUE) /\ UNCHANGED cache

-----------------------------------------------------------------------------
(* shpimentcache. *)

(* The call succeeds.  What it says of its shipment is sure when nothing    *)
(* else was committed meanwhile and its own writes are.                     *)
Settle(c, sure) ==
  LET id == Shp(c).id IN
  suspect' = IF sure /\ id \notin touched[c]
             THEN (suspect \ {id}) \cup (call[c].wrote \ {id})
             ELSE suspect \cup call[c].wrote \cup {id}

Return(c, shp) ==
  /\ call' = [call EXCEPT ![c] = Idle]
  /\ got' = [got EXCEPT ![c] = shp]
  /\ UNCHANGED <<db, tx, over, touched, calls, failed>>

ReadCache(c) ==
  /\ At(c, "readCache")
  /\ \/ /\ cache[Shp(c).id] # NoShipment /\ NoFault
        /\ Return(c, cache[Shp(c).id])
     \/ /\ (cache[Shp(c).id] = NoShipment /\ NoFault) \/ Fault("redis")
        /\ call' = [call EXCEPT ![c] = Step(c)]
        /\ UNCHANGED <<db, tx, over, touched, got, calls, failed>>
  /\ UNCHANGED <<cache, suspect>>

(* writeCache: an error fails a Create, and is logged by a query. *)
Fill(c) ==
  LET new == [cache EXCEPT ![Shp(c).id] = Shp(c)] IN
  /\ At(c, "fill")
  /\ \/ NoFault /\ cache' = new /\ Return(c, Shp(c)) /\ Settle(c, call[c].clean)
     \/ /\ Fault("redis") /\ cache' \in {cache, new}
        /\ IF call[c].op = "query"
           THEN /\ Return(c, Shp(c))
                /\ suspect' = suspect \cup {Shp(c).id}
           ELSE Fail(c, FALSE)

(* Variant of Evict: an error is logged, as a query does. *)
EvictLogged(c) ==
  LET new == [cache EXCEPT ![Shp(c).id] = NoShipment] IN
  /\ At(c, "evict")
  /\ \/ NoFault /\ cache' = new
     \/ Fault("redis") /\ cache' \in {cache, new}
  /\ Return(c, got[c])
  /\ Settle(c, TRUE)

(* deleteCache. *)
Evict(c) ==
  LET new == [cache EXCEPT ![Shp(c).id] = NoShipment] IN
  /\ At(c, "evict")
  /\ \/ NoFault /\ cache' = new /\ Return(c, got[c]) /\ Settle(c, TRUE)
     \/ Fault("redis") /\ cache' \in {cache, new} /\ Fail(c, FALSE)

(* The 24 hours of an entry are over. *)
Expire(id) ==
  /\ cache[id] # NoShipment /\ Fault("ttl")
  /\ cache' = [cache EXCEPT ![id] = NoShipment]
  /\ suspect' = suspect \ {id}
  /\ UNCHANGED <<db, tx, over, touched, call, got, calls, failed>>

-----------------------------------------------------------------------------
(* Transactions. *)

(* The writes of c become visible together. *)
Publish(c, own) ==
  /\ db' = View(c)
  /\ call' = CallsAfter(c, own, touched[c])

(* Outside its calls a client may begin a transaction, and end it. *)
Begin(c) ==
  /\ call[c] = Idle /\ tx[c] = "none"
  /\ tx' = [tx EXCEPT ![c] = "open"]
  /\ UNCHANGED <<db, over, touched, cache, call, got, calls, suspect, failed, faults>>

Commit(c) ==
  /\ call[c] = Idle /\ tx[c] = "open"
  /\ \/ NoFault /\ Publish(c, Idle)
     \/ Fault("db") /\ (Publish(c, Idle) \/ UNCHANGED <<db, call>>)
  /\ EndTx(c)
  /\ suspect' = suspect \cup touched[c]
  /\ UNCHANGED <<cache, got, calls, failed>>

Rollback(c) ==
  /\ call[c] = Idle /\ tx[c] # "none"
  /\ EndTx(c)
  /\ suspect' = suspect \cup touched[c]
  /\ UNCHANGED <<db, cache, call, got, calls, failed, faults>>

(* The process of c stops: the server rolls its transaction back. *)
Crash(c) ==
  /\ call[c] # Idle \/ tx[c] # "none"
  /\ Fault("crash")
  /\ call' = [call EXCEPT ![c] = Idle]
  /\ got' = [got EXCEPT ![c] = NoShipment]
  /\ EndTx(c)
  /\ Blame(call[c].wrote \cup touched[c])
  /\ UNCHANGED <<db, cache, calls>>

-----------------------------------------------------------------------------
(* migrate.Seed. *)

Ping(c) ==
  /\ At(c, "ping")
  /\ \/ /\ NoFault
        /\ call' = [call EXCEPT ![c] = Step(c)]
        /\ UNCHANGED <<db, tx, over, touched, got, calls, suspect, failed>>
     \/ Fault("db") /\ Fail(c, FALSE)
  /\ UNCHANGED cache

BeginSeed(c) ==
  /\ At(c, "begin")
  /\ \/ /\ NoFault
        /\ tx' = [tx EXCEPT ![c] = "open"]
        /\ call' = [call EXCEPT ![c] = Step(c)]
        /\ UNCHANGED <<db, over, touched, got, calls, suspect, failed>>
     \/ Fault("db") /\ Fail(c, FALSE)
  /\ UNCHANGED cache

(* seed.sql: the shipment and its rows. *)
ExecSeed(c) ==
  LET s == Shp(c) IN
  /\ At(c, "seed")
  /\ Execute(c, {s.id},
             s.id \notin Held(c) /\ Unused(c, s.header),
             [View(c) EXCEPT ![s.id] =
                [header |-> s.header, items |-> Of(s.items, s.id),
                 logs |-> Of(s.logs, s.id), history |-> Of(s.history, s.id)]])

CommitSeed(c) ==
  /\ At(c, "commit")
  /\ \/ /\ NoFault /\ Publish(c, Idle)
        /\ suspect' = suspect \cup touched[c] /\ UNCHANGED failed
     \/ /\ Fault("db")
        /\ Publish(c, Idle) \/ (call' = [call EXCEPT ![c] = Idle] /\ UNCHANGED db)
        /\ Blame(touched[c])
  /\ EndTx(c)
  /\ UNCHANGED <<cache, got, calls>>

-----------------------------------------------------------------------------
(* shipment.Business: what a call starts with. *)

Start(c, op, shp) ==
  /\ call[c] = Idle /\ calls[c] < MaxCalls
  /\ call' = [call EXCEPT ![c] = NewCall(op, shp)]
  /\ calls' = [calls EXCEPT ![c] = @ + 1]
  /\ UNCHANGED <<db, tx, over, touched, cache, got, suspect, failed, faults>>

(* An id no row, entry, call or transaction has seen: uuid.New. *)
Unseen(id) ==
  /\ db[id] = Absent /\ cache[id] = NoShipment /\ id \notin suspect \cup failed
  /\ \A c \in Clients : /\ id \notin touched[c]
                        /\ call[c] # Idle => Shp(c).id # id
                        /\ got[c] # NoShipment => got[c].id # id

(* The items keep the shipment id their caller gave them; there are no logs *)
(* and no history yet.                                                      *)
Create(c) ==
  \E id \in Ids, n \in NewShipments :
    /\ Unseen(id)
    /\ Start(c, "create", [Blank(id) EXCEPT !.header = n.header, !.items = n.items])

(* Storer.Create, given a whole shipment. *)
Store(c) == \E s \in Complete : Start(c, "create", s)

(* Items that are given, an empty list too, replace those the caller read; *)
(* logs and changes are added to them.                                     *)
Updated(s, u) ==
  [s EXCEPT !.header = u.header,
            !.items = IF u.given THEN u.items ELSE @,
            !.logs = @ \cup u.logs,
            !.history = @ \cup u.history,
            !.twice = s.logs \cap u.logs # {}]

Update(c) ==
  /\ got[c] # NoShipment
  /\ \E u \in Updates : Start(c, "update", Updated(got[c], u))

Delete(c) ==
  /\ got[c] # NoShipment
  /\ Start(c, "delete", got[c])

QueryById(c) == \E id \in Ids : Start(c, "query", Blank(id))

Seed(c) ==
  /\ tx[c] = "none"
  /\ Start(c, "seed", Seeded)

-----------------------------------------------------------------------------
(* An empty database, or one that was seeded. *)
Init ==
  /\ \/ db = Nothing
     \/ db = [Nothing EXCEPT ![Seeded.id] =
                [header |-> Seeded.header, items |-> Of(Seeded.items, Seeded.id),
                 logs |-> Of(Seeded.logs, Seeded.id),
                 history |-> Of(Seeded.history, Seeded.id)]]
  /\ tx = [c \in Clients |-> "none"]
  /\ over = [c \in Clients |-> Nothing]
  /\ touched = [c \in Clients |-> {}]
  /\ cache = [i \in Ids |-> NoShipment]
  /\ call = [c \in Clients |-> Idle]
  /\ got = [c \in Clients |-> NoShipment]
  /\ calls = [c \in Clients |-> 0]
  /\ suspect = {} /\ failed = {} /\ faults = 0

Inserts == {"insertItems", "insertLogs", "insertHistory"}
Deletes == {"deleteItems", "deleteLogs", "deleteHistory"}
Selects == {"readItems", "readLogs", "readHistory"}

Next ==
  \/ \E c \in Clients :
       \/ Create(c) \/ Store(c) \/ Update(c) \/ Delete(c) \/ QueryById(c) \/ Seed(c)
       \/ InsertHeader(c) \/ UpdateHeader(c) \/ DeleteHeader(c)
       \/ \E step \in Inserts : InsertRows(c, step)
       \/ \E step \in Deletes : DeleteRows(c, step)
       \/ InsertNothing(c)
       \/ ReadHeader(c)
       \/ \E step \in Selects : ReadRows(c, step)
       \/ ReadCache(c) \/ Fill(c) \/ Evict(c)
       \/ Begin(c) \/ Commit(c) \/ Rollback(c) \/ Crash(c)
       \/ Ping(c) \/ BeginSeed(c) \/ ExecSeed(c) \/ CommitSeed(c)
  \/ \E id \in Ids : Expire(id)

Spec == Init /\ [][Next]_vars

-----------------------------------------------------------------------------
(* Properties. *)

(* Type invariant: the tables, calls and entries stay well formed, and only *)
(* a client in a transaction holds locks.                                   *)
TypeOK ==
  /\ db \in [Ids -> Stored]
  /\ tx \in [Clients -> {"none", "open", "aborted"}]
  /\ over \in [Clients -> [Ids -> Stored]]
  /\ \A c \in Clients : /\ touched[c] \subseteq Ids
                        /\ tx[c] = "none" => touched[c] = {}
                        /\ call[c].op \in DOMAIN Program \cup {"none"}
                        /\ call[c].op # "none" => Shp(c) \in Shipment
                        /\ calls[c] \in 0..MaxCalls
  /\ \A i \in Ids : cache[i] # NoShipment => cache[i] \in Shipment /\ cache[i].id = i
  /\ suspect \cup failed \subseteq Ids /\ faults \in 0..MaxFaults

(* CacheIsFresh: an entry that differs from the committed tables belongs to *)
(* a shipment some call is writing, or one left so by a call that failed,   *)
(* by a read that overlapped a write, or by a transaction: no call that     *)
(* returns without an error and alone leaves a stale entry.                 *)
CacheIsFresh ==
  \A i \in Ids :
    \/ cache[i] \in {NoShipment, AsRead(i, db[i])}
    \/ i \in suspect
    \/ \E c \in Clients : i \in touched[c] \cup call[c].wrote

(* FilledIsStored: what a Create or a query is about to put in the cache is *)
(* what its statements left in or read from all four tables, unless another *)
(* call wrote the shipment meanwhile or rows were lost on the way.          *)
FilledIsStored ==
  \A c \in Clients :
    At(c, "fill") /\ call[c].clean => Shp(c) = AsRead(Shp(c).id, View(c)[Shp(c).id])

(* PartialIsReported: a stored shipment without items, logs or history was  *)
(* written by a call that returned an error, never by one that succeeded.   *)
PartialIsReported ==
  \A i \in Ids :
    db[i].header # NoHeader /\ {} \in {db[i][p] : p \in Parts}
      => i \in failed \/ \E c \in Clients : i \in call[c].wrote

(* CommitsWhole: the statements of a transaction change nothing anyone else *)
(* can see until it commits, and then everything it wrote appears at once.  *)
CommitsWhole ==
  [][db' # db =>
       \E c \in Clients :
         \/ tx[c] = "none" /\ call'[c] # call[c]
         \/ tx[c] = "open" /\ tx'[c] = "none" /\ db' = View(c)]_vars

(* HistoryReplaced: an Update nothing disturbed leaves the status history   *)
(* it was given, as the comment at shipmentdb.go:227 has it.                *)
HistoryReplaced ==
  [][\A c \in Clients :
       At(c, "insertNothing") /\ call'[c] = Idle /\ tx[c] = "none" /\ call[c].clean
       /\ faults' = faults
         => db'[Shp(c).id].history = Of(Shp(c).history, Shp(c).id)]_vars
=============================================================================
