------------------------- MODULE ShipmentStoreProofs -------------------------
(***************************************************************************)
(* What the shipment store promises, for any number of clients, shipments  *)
(* and faults, in and out of transactions.                                 *)
(***************************************************************************)
EXTENDS ShipmentStore, FiniteSets, SequenceTheorems, TLAPS

Ops == {"create", "update", "delete", "query", "seed"}

Steps == {"insertHeader", "updateHeader", "deleteHeader", "insertItems", "insertLogs",
          "insertHistory", "deleteItems", "deleteLogs", "deleteHistory", "insertNothing",
          "readCache", "readHeader", "readItems", "readLogs", "readHistory", "fill", "evict",
          "ping", "begin", "seed", "commit"}

Call == [op : Ops \cup {"none"}, shp : Shipment \cup {NoShipment}, left : Seq(Steps),
         clean : BOOLEAN, wrote : SUBSET Ids]

(* The types of the variables. *)
StoreTypes ==
  /\ db \in [Ids -> Stored]
  /\ tx \in [Clients -> {"none", "open", "aborted"}]
  /\ over \in [Clients -> [Ids -> Stored]]
  /\ touched \in [Clients -> SUBSET Ids]
  /\ cache \in [Ids -> Shipment \cup {NoShipment}]
  /\ call \in [Clients -> Call]
  /\ got \in [Clients -> Shipment \cup {NoShipment}]
  /\ calls \in [Clients -> 0..MaxCalls]
  /\ suspect \in SUBSET Ids /\ failed \in SUBSET Ids /\ faults \in 0..MaxFaults

(* A call has the end of its program left; Todo is how much.  Turn is what *)
(* is left when the rows of a part are inserted, or read.                  *)
Todo(c) == Len(call[c].left)

IsEndOf(s, p) ==
  Len(s) \in 1..Len(p) /\ \A k \in 1..Len(s) : s[k] = p[Len(p) - Len(s) + k]

Turn == [items |-> 4, logs |-> 3, history |-> 2]

Whole(s) == Owners(s.items \cup s.logs \cup s.history) = {s.id} /\ ~s.twice

(* What is known of a call by the statements it has left.  A Create either *)
(* has a whole shipment or fails at the latest at its logs; an Update      *)
(* fails at its history.                                                   *)
CallInv(c) ==
  /\ call[c].op = "none" => call[c].left = <<>>
  /\ call[c].op # "none" => Shp(c) \in Shipment /\ IsEndOf(call[c].left, Program[call[c].op])
  /\ call[c].op = "create" => /\ Todo(c) <= 4 => Shp(c).id \in call[c].wrote
                              /\ Shp(c).logs = {} => Todo(c) >= 3
                              /\ Shp(c).logs = {} \/ Whole(Shp(c))
  /\ call[c].op = "update" => Todo(c) >= 2 /\ Shp(c).header # NoHeader
  /\ call[c].op = "query" => call[c].wrote = {} /\ ~Shp(c).twice
  /\ call[c].op = "seed" => /\ Shp(c) = Seeded /\ call[c].wrote = touched[c]
                            /\ Todo(c) <= 2 => tx[c] = "open"
                            /\ Todo(c) >= 3 => tx[c] = "none"
  /\ tx[c] = "none" => touched[c] = {}

(* A Create that nothing disturbed finds what it inserted so far, a query  *)
(* still finds what it has read so far.                                    *)
Inserted(s, todo, v) ==
  todo <= 4 =>
    /\ v.header = s.header
    /\ \A p \in Parts : v[p] = IF todo < Turn[p] THEN Of(s[p], s.id) ELSE {}

ReadSoFar(s, todo, v) ==
  /\ todo <= 4 => s.header = v.header
  /\ \A p \in Parts : todo < Turn[p] => s[p] = ToBus(s.id, v[p])

FillInv(c) ==
  call[c].clean =>
    /\ call[c].op = "create" => Inserted(Shp(c), Todo(c), View(c)[Shp(c).id])
    /\ call[c].op = "query" => ReadSoFar(Shp(c), Todo(c), View(c)[Shp(c).id])

(* Without a row in shipments there are no rows of the shipment elsewhere. *)
Cascade(tables) == \A i \in Ids : tables[i].header = NoHeader => tables[i] = Absent

(* A call that wrote i and will insert rows of part p, or fail before.     *)
Owes(d, i, p) ==
  /\ i \in call[d].wrote
  /\ \/ call[d].op = "update"
     \/ /\ call[d].op = "create" /\ Shp(d).id = i
        /\ Todo(d) >= Turn[p] \/ Shp(d).logs = {}

Missing(tables, i, p) == tables[i].header # NoHeader /\ tables[i][p] = {}

(* A missing part is owed by a call, or one that owed it has failed.       *)
Accounted ==
  \A i \in Ids, p \in Parts : Missing(db, i, p) =>
     i \in failed \/ \E d \in Clients : tx[d] = "none" /\ Owes(d, i, p)

AccountedIn(c) ==
  \A i \in touched[c], p \in Parts : Missing(over[c], i, p) =>
     i \in failed \/ \E d \in Clients : (d = c \/ tx[d] = "none") /\ Owes(d, i, p)

StoreInv ==
  /\ StoreTypes
  /\ \A c \in Clients : CallInv(c) /\ FillInv(c) /\ Cascade(over[c]) /\ AccountedIn(c)
  /\ Cascade(db) /\ Accounted /\ CacheIsFresh

-----------------------------------------------------------------------------
(* The programs. *)

(* The programs, step by step.                                             *)
LEMMA Programs ==
  /\ Program.create \in Seq(Steps) /\ Len(Program.create) = 5
  /\ Program.create[1] = "insertHeader" /\ Program.create[2] = "insertItems"
  /\ Program.create[3] = "insertLogs" /\ Program.create[4] = "insertHistory"
  /\ Program.create[5] = "fill"
  /\ Program.update \in Seq(Steps) /\ Len(Program.update) = 8
  /\ Program.update[1] = "updateHeader" /\ Program.update[2] = "deleteItems"
  /\ Program.update[3] = "insertItems" /\ Program.update[4] = "deleteLogs"
  /\ Program.update[5] = "insertLogs" /\ Program.update[6] = "deleteHistory"
  /\ Program.update[7] = "insertNothing" /\ Program.update[8] = "evict"
  /\ Program.delete \in Seq(Steps) /\ Len(Program.delete) = 2
  /\ Program.delete[1] = "deleteHeader" /\ Program.delete[2] = "evict"
  /\ Program.query \in Seq(Steps) /\ Len(Program.query) = 6
  /\ Program.query[1] = "readCache" /\ Program.query[2] = "readHeader"
  /\ Program.query[3] = "readItems" /\ Program.query[4] = "readLogs"
  /\ Program.query[5] = "readHistory" /\ Program.query[6] = "fill"
  /\ Program.seed \in Seq(Steps) /\ Len(Program.seed) = 4
  /\ Program.seed[1] = "ping" /\ Program.seed[2] = "begin" /\ Program.seed[3] = "seed"
  /\ Program.seed[4] = "commit"
<1>1. /\ Program.create = StoreCreate \o <<"fill">>
      /\ Program.update = StoreUpdate \o <<"evict">>
      /\ Program.delete = StoreDelete \o <<"evict">>
      /\ Program.query = <<"readCache">> \o StoreQueryByID \o <<"fill">>
      /\ Program.seed = <<"ping", "begin", "seed", "commit">>
  BY Zenon DEF Program
<1>2. /\ Program.create \in Seq(Steps) /\ Len(Program.create) = 5
      /\ Program.create[1] = "insertHeader" /\ Program.create[2] = "insertItems"
      /\ Program.create[3] = "insertLogs" /\ Program.create[4] = "insertHistory"
      /\ Program.create[5] = "fill"
  BY <1>1 DEF StoreCreate, Steps
<1>3. /\ Program.update \in Seq(Steps) /\ Len(Program.update) = 8
      /\ Program.update[1] = "updateHeader" /\ Program.update[2] = "deleteItems"
      /\ Program.update[3] = "insertItems" /\ Program.update[4] = "deleteLogs"
      /\ Program.update[5] = "insertLogs" /\ Program.update[6] = "deleteHistory"
      /\ Program.update[7] = "insertNothing" /\ Program.update[8] = "evict"
  BY <1>1 DEF StoreUpdate, Steps
<1>4. /\ Program.delete \in Seq(Steps) /\ Len(Program.delete) = 2
      /\ Program.delete[1] = "deleteHeader" /\ Program.delete[2] = "evict"
  BY <1>1 DEF StoreDelete, Steps
<1>5. /\ Program.query \in Seq(Steps) /\ Len(Program.query) = 6
      /\ Program.query[1] = "readCache" /\ Program.query[2] = "readHeader"
      /\ Program.query[3] = "readItems" /\ Program.query[4] = "readLogs"
      /\ Program.query[5] = "readHistory" /\ Program.query[6] = "fill"
  BY <1>1 DEF StoreQueryByID, Steps
<1>6. /\ Program.seed \in Seq(Steps) /\ Len(Program.seed) = 4
      /\ Program.seed[1] = "ping" /\ Program.seed[2] = "begin" /\ Program.seed[3] = "seed"
      /\ Program.seed[4] = "commit"
  BY <1>1 DEF Steps
<1>7. QED
  BY Zenon, <1>2, <1>3, <1>4, <1>5, <1>6

(* Every program is a sequence of steps.                                   *)
LEMMA ProgramOf ==
  ASSUME NEW op \in Ops
  PROVE  Program[op] \in Seq(Steps) /\ Len(Program[op]) \in Nat
BY Programs, LenProperties DEF Ops

(* What a call has left after its next step.                               *)
LEMMA NextStep ==
  ASSUME NEW c \in Clients, StoreTypes, CallInv(c), NEW step, At(c, step)
  PROVE  /\ call[c].op \in Ops /\ Todo(c) \in 1..Len(Program[call[c].op])
         /\ step = Program[call[c].op][Len(Program[call[c].op]) - Todo(c) + 1]
         /\ Tail(call[c].left) \in Seq(Steps) /\ Len(Tail(call[c].left)) = Todo(c) - 1
         /\ Todo(c) > 1 => IsEndOf(Tail(call[c].left), Program[call[c].op])
<1> DEFINE l == call[c].left
<1> DEFINE p == Program[call[c].op]
<1>1. call[c] \in Call /\ l # <<>> /\ step = Head(l)
  BY DEF StoreTypes, At
<1>2. call[c].op \in Ops /\ l \in Seq(Steps) /\ IsEndOf(l, p)
  BY <1>1 DEF Call, CallInv
<1>3. p \in Seq(Steps)
  BY <1>2, Programs DEF Ops
<1> HIDE DEF l, p
<1>4. Len(l) \in 1..Len(p) /\ Len(p) \in Nat /\ \A k \in 1..Len(l) : l[k] = p[Len(p) - Len(l) + k]
  BY <1>2, <1>3, LenProperties DEF IsEndOf
<1>5. /\ Head(l) = l[1] /\ Tail(l) \in Seq(Steps) /\ Len(Tail(l)) = Len(l) - 1
      /\ \A k \in 1..Len(Tail(l)) : Tail(l)[k] = l[k + 1]
  BY <1>1, <1>2, HeadTailProperties
<1>6. ASSUME Len(l) > 1 PROVE IsEndOf(Tail(l), p)
  BY <1>4, <1>5, <1>6 DEF IsEndOf
<1>7. Head(l) = p[Len(p) - Len(l) + 1]
  BY <1>4, <1>5
<1>8. QED
  BY <1>1, <1>2, <1>4, <1>5, <1>6, <1>7 DEF Todo, l, p

(* The part a statement is about.                                          *)
LEMMA PartOfStep ==
  /\ Part("insertItems") = "items" /\ Part("insertLogs") = "logs"
  /\ Part("insertHistory") = "history" /\ Part("deleteItems") = "items"
  /\ Part("deleteLogs") = "logs" /\ Part("deleteHistory") = "history"
  /\ Part("readItems") = "items" /\ Part("readLogs") = "logs" /\ Part("readHistory") = "history"
BY DEF Part

(* Where a call is when a statement is next.                               *)
LEMMA Positions ==
  ASSUME NEW c \in Clients, StoreTypes, CallInv(c), NEW step, At(c, step)
  PROVE  /\ step = "insertHeader" => call[c].op = "create" /\ Todo(c) = 5
         /\ step \in Inserts => \/ call[c].op = "create" /\ Todo(c) = Turn[Part(step)]
                                \/ call[c].op = "update" /\ Todo(c) >= 3
         /\ step \in {"updateHeader"} \cup Deletes => call[c].op = "update" /\ Todo(c) >= 3
         /\ step = "insertNothing" => call[c].op = "update"
         /\ step = "deleteHeader" => call[c].op = "delete" /\ Todo(c) = 2
         /\ step = "readCache" => call[c].op = "query" /\ Todo(c) = 6
         /\ step = "readHeader" => call[c].op = "query" /\ Todo(c) = 5
         /\ step \in Selects => call[c].op = "query" /\ Todo(c) = Turn[Part(step)]
         /\ step = "fill" => call[c].op \in {"create", "query"} /\ Todo(c) = 1
         /\ step = "evict" => call[c].op = "delete" /\ Todo(c) = 1
         /\ step = "ping" => call[c].op = "seed" /\ Todo(c) = 4
         /\ step = "begin" => call[c].op = "seed" /\ Todo(c) = 3
         /\ step = "seed" => call[c].op = "seed" /\ Todo(c) = 2
         /\ step = "commit" => call[c].op = "seed" /\ Todo(c) = 1
<1> DEFINE n == Todo(c)
<1>1. /\ call[c].op \in Ops /\ n \in 1..Len(Program[call[c].op])
      /\ step = Program[call[c].op][Len(Program[call[c].op]) - n + 1]
  BY NextStep
<1> HIDE DEF n
<1>2. CASE call[c].op = "create"
  <2>1. n \in 1..5 /\ step = Program.create[5 - n + 1]
    BY <1>1, <1>2, Programs
  <2>2. \/ n = 5 /\ step = "insertHeader"
        \/ n = 4 /\ step = "insertItems"
        \/ n = 3 /\ step = "insertLogs"
        \/ n = 2 /\ step = "insertHistory"
        \/ n = 1 /\ step = "fill"
    BY <2>1, Programs
  <2>3. step \in Inserts => n = Turn[Part(step)]
    BY <2>2, PartOfStep DEF Inserts, Turn
  <2>4. step \notin {"updateHeader"} \cup Deletes /\ step \notin Selects
    BY <2>2 DEF Deletes, Selects
  <2>5. Todo(c) = n
    BY DEF n
  <2>6. QED
    BY <1>2, <2>2, <2>3, <2>4, <2>5
<1>3. CASE call[c].op = "update"
  <2>1. n \in 1..8 /\ n >= 2 /\ step = Program.update[8 - n + 1]
    BY <1>1, <1>3, Programs DEF CallInv, n
  <2>2. \/ n >= 3 /\ step \in {"updateHeader", "deleteItems", "insertItems", "deleteLogs",
                               "insertLogs", "deleteHistory"}
        \/ n = 2 /\ step = "insertNothing"
    <3>1. n \in {2, 3, 4, 5, 6, 7, 8} /\ 8 - n + 1 = 9 - n
      BY <2>1
    <3>2. CASE n = 8
      BY <2>1, <3>2, Programs
    <3>3. CASE n = 7
      BY <2>1, <3>3, Programs
    <3>4. CASE n = 6
      BY <2>1, <3>4, Programs
    <3>5. CASE n = 5
      BY <2>1, <3>5, Programs
    <3>6. CASE n = 4
      BY <2>1, <3>6, Programs
    <3>7. CASE n = 3
      BY <2>1, <3>7, Programs
    <3>8. CASE n = 2
      BY <2>1, <3>8, Programs
    <3>9. QED
      BY <3>1, <3>2, <3>3, <3>4, <3>5, <3>6, <3>7, <3>8
  <2>3. QED
    BY <1>3, <2>2 DEF n, Inserts, Deletes, Selects
<1>4. CASE call[c].op = "delete"
  <2>1. n \in 1..2 /\ step = Program.delete[2 - n + 1]
    BY <1>1, <1>4, Programs
  <2>2. (n = 2 /\ step = "deleteHeader") \/ (n = 1 /\ step = "evict")
    BY <2>1, Programs
  <2>3. QED
    BY <1>4, <2>2 DEF n, Inserts, Deletes, Selects
<1>5. CASE call[c].op = "query"
  <2>1. n \in 1..6 /\ step = Program.query[6 - n + 1]
    BY <1>1, <1>5, Programs
  <2>2. \/ n = 6 /\ step = "readCache"
        \/ n = 5 /\ step = "readHeader"
        \/ n = 4 /\ step = "readItems"
        \/ n = 3 /\ step = "readLogs"
        \/ n = 2 /\ step = "readHistory"
        \/ n = 1 /\ step = "fill"
    BY <2>1, Programs
  <2>3. QED
    BY <1>5, <2>2, PartOfStep DEF n, Inserts, Deletes, Selects, Turn
<1>6. CASE call[c].op = "seed"
  <2>1. n \in 1..4 /\ step = Program.seed[4 - n + 1]
    BY <1>1, <1>6, Programs
  <2>2. \/ n = 4 /\ step = "ping"
        \/ n = 3 /\ step = "begin"
        \/ n = 2 /\ step = "seed"
        \/ n = 1 /\ step = "commit"
    BY <2>1, Programs
  <2>3. QED
    BY <1>6, <2>2 DEF n, Inserts, Deletes, Selects
<1>7. QED
  BY <1>1, <1>2, <1>3, <1>4, <1>5, <1>6 DEF Ops

-----------------------------------------------------------------------------
(* Rows and parts. *)

(* A part of what is stored can be read and replaced by itself.            *)
LEMMA StoredParts ==
  ASSUME NEW st \in Stored
  PROVE  /\ st.header \in Headers \cup {NoHeader}
         /\ \A p \in Parts : st[p] \in SUBSET Keys
         /\ \A h \in Headers \cup {NoHeader} :
              /\ [st EXCEPT !.header = h] \in Stored /\ [st EXCEPT !.header = h].header = h
              /\ \A p \in Parts : [st EXCEPT !.header = h][p] = st[p]
         /\ \A p \in Parts : \A x \in SUBSET Keys :
              /\ [st EXCEPT ![p] = x] \in Stored /\ [st EXCEPT ![p] = x].header = st.header
              /\ \A q \in Parts : [st EXCEPT ![p] = x][q] = IF q = p THEN x ELSE st[q]
BY DEF Stored, Parts

(* A shipment that is not stored has no rows.                              *)
LEMMA AbsentParts ==
  Absent \in Stored /\ Absent.header = NoHeader /\ \A p \in Parts : Absent[p] = {}
BY DEF Absent, Stored, Parts

(* Two stored shipments are the same when their parts are.                 *)
LEMMA SameParts ==
  ASSUME NEW st \in Stored, NEW su \in Stored, st.header = su.header,
         \A p \in Parts : st[p] = su[p]
  PROVE  st = su
BY DEF Stored, Parts

(* The same of a shipment in the program.                                  *)
LEMMA ShipmentParts ==
  ASSUME NEW s \in Shipment
  PROVE  /\ s.id \in Ids /\ s.header \in Headers \cup {NoHeader} /\ s.twice \in BOOLEAN
         /\ \A p \in Parts : s[p] \in SUBSET (Ids \X Keys)
         /\ \A h \in Headers \cup {NoHeader} :
              /\ [s EXCEPT !.header = h] \in Shipment /\ [s EXCEPT !.header = h].header = h
              /\ [s EXCEPT !.header = h].id = s.id /\ [s EXCEPT !.header = h].twice = s.twice
              /\ \A p \in Parts : [s EXCEPT !.header = h][p] = s[p]
         /\ \A p \in Parts : \A x \in SUBSET (Ids \X Keys) :
              /\ [s EXCEPT ![p] = x] \in Shipment /\ [s EXCEPT ![p] = x].header = s.header
              /\ [s EXCEPT ![p] = x].id = s.id /\ [s EXCEPT ![p] = x].twice = s.twice
              /\ \A q \in Parts : [s EXCEPT ![p] = x][q] = IF q = p THEN x ELSE s[q]
BY DEF Shipment, Parts

(* Rows become parts and parts become rows.                                *)
LEMMA RowsOf ==
  ASSUME NEW rows \in SUBSET (Ids \X Keys), NEW i \in Ids
  PROVE  /\ Of(rows, i) \in SUBSET Keys
         /\ Owners(rows) \in SUBSET Ids
         /\ i \in Owners(rows) <=> Of(rows, i) # {}
         /\ i \notin Owners(rows) => Of(rows, i) = {}
         /\ Owners(rows) \subseteq {i} => ToBus(i, Of(rows, i)) = rows
BY DEF Of, Owners, ToBus

(* The rows a part is read as name the shipment.                           *)
LEMMA BusOf ==
  ASSUME NEW keys \in SUBSET Keys, NEW i \in Ids
  PROVE  ToBus(i, keys) \in SUBSET (Ids \X Keys)
BY DEF ToBus

(* What a statement sees is stored, row for row.                           *)
LEMMA Seen ==
  ASSUME StoreTypes, NEW c \in Clients
  PROVE  /\ View(c) \in [Ids -> Stored]
         /\ \A i \in Ids : View(c)[i] = IF i \in touched[c] THEN over[c][i] ELSE db[i]
         /\ Cascade(db) /\ Cascade(over[c]) => Cascade(View(c))
BY DEF StoreTypes, View, Cascade

-----------------------------------------------------------------------------
(* Calls. *)

(* A call another client's step leaves as it is, but perhaps not clean.    *)
Undisturbed(d) ==
  /\ call'[d] \in Call
  /\ call'[d].op = call[d].op /\ call'[d].shp = call[d].shp /\ call'[d].left = call[d].left
  /\ call'[d].wrote = call[d].wrote
  /\ call'[d].clean => call[d].clean

(* A commit of c disturbs the calls about what changed, and no other.      *)
LEMMA OtherCalls ==
  ASSUME StoreTypes, NEW c \in Clients, NEW own \in Call, NEW changed,
         call' = CallsAfter(c, own, changed)
  PROVE  /\ call' \in [Clients -> Call] /\ call'[c] = own
         /\ \A d \in Clients \ {c} :
              /\ Undisturbed(d)
              /\ call[d].op # "none" /\ Shp(d).id \in changed => ~call'[d].clean
<1>1. \A d \in Clients : call[d] \in Call
  BY DEF StoreTypes
<1>2. \A k \in Call : /\ [k EXCEPT !.clean = FALSE] \in Call
                      /\ [k EXCEPT !.clean = FALSE].op = k.op
                      /\ [k EXCEPT !.clean = FALSE].shp = k.shp
                      /\ [k EXCEPT !.clean = FALSE].left = k.left
                      /\ [k EXCEPT !.clean = FALSE].wrote = k.wrote
                      /\ [k EXCEPT !.clean = FALSE].clean = FALSE
  BY DEF Call
<1>3. QED
  BY <1>1, <1>2 DEF CallsAfter, Undisturbed

(* It knows what it knew, when the shipment it is about is the same.       *)
LEMMA OthersKeepInv ==
  ASSUME StoreTypes, NEW d \in Clients, CallInv(d), FillInv(d), Undisturbed(d),
         tx'[d] = tx[d], touched'[d] = touched[d], over'[d] = over[d],
         db' \in [Ids -> Stored],
         call'[d].clean /\ call[d].op # "none" /\ Shp(d).id \notin touched[d]
           => db'[Shp(d).id] = db[Shp(d).id]
  PROVE  /\ CallInv(d)' /\ FillInv(d)'
         /\ \A i \in Ids, p \in Parts : Owes(d, i, p)' <=> Owes(d, i, p)
<1>1. CallInv(d)'
  BY DEF CallInv, Undisturbed, Shp, Todo
<1>2. ASSUME call'[d].clean, call[d].op \in {"create", "query"}
      PROVE  View(d)'[Shp(d).id] = View(d)[Shp(d).id]
  <2>1. Shp(d).id \in Ids
    BY <1>2, ShipmentParts DEF CallInv
  <2>2. QED
    BY <1>2, <2>1 DEF View
<1>3. FillInv(d)'
  BY <1>2 DEF FillInv, Undisturbed, Shp, Todo
<1>4. \A i \in Ids, p \in Parts : Owes(d, i, p)' <=> Owes(d, i, p)
  BY DEF Owes, Undisturbed, Shp, Todo
<1>5. QED
  BY <1>1, <1>3, <1>4

(* Outside a call nothing has to be known.                                 *)
LEMMA IdleInv ==
  ASSUME NEW c \in Clients, call'[c] = Idle, tx'[c] = "none" => touched'[c] = {}
  PROVE  /\ CallInv(c)' /\ FillInv(c)' /\ Idle \in Call /\ Idle.wrote = {}
         /\ \A i \in Ids, p \in Parts : ~Owes(c, i, p)'
<1>1. Idle \in Call /\ Idle.wrote = {} /\ Idle.op = "none" /\ Idle.left = <<>>
  BY DEF Idle, Call
<1>2. QED
  BY <1>1 DEF CallInv, FillInv, Owes

-----------------------------------------------------------------------------
(* A statement that takes effect, giving new for ids: it is enough that    *)
(* the client's own call keeps what is known of it, and that what it owed  *)
(* is there, still owed or blamed on a failure.                            *)
LEMMA WriteKeepsInv ==
  ASSUME StoreInv, NEW c \in Clients, NEW ids \in SUBSET Ids, NEW new \in [Ids -> Stored],
         NEW own \in Call, tx[c] # "aborted", Write(c, new, ids, own),
         \A i \in Ids \ ids : new[i] = View(c)[i],
         Cascade(new),
         \A d \in Clients \ {c} : touched[d] \cap ids = {},
         UNCHANGED <<tx, cache, got, calls>>, faults' \in 0..MaxFaults,
         failed \subseteq failed', failed' \subseteq Ids,
         suspect \subseteq suspect', suspect' \subseteq Ids,
         ids \cup call[c].wrote \subseteq own.wrote \cup suspect',
         CallInv(c)', FillInv(c)',
         \A i \in Ids, p \in Parts :
            Owes(c, i, p) => \/ i \in failed'
                             \/ Owes(c, i, p)'
                             \/ i \in ids /\ ~Missing(new, i, p),
         \A i \in ids, p \in Parts :
            Missing(new, i, p) => \/ Missing(View(c), i, p)
                                  \/ i \in failed'
                                  \/ Owes(c, i, p)'
  PROVE  StoreInv'
<1>1. /\ StoreTypes /\ Cascade(db) /\ Accounted /\ CacheIsFresh
      /\ \A d \in Clients : CallInv(d) /\ FillInv(d) /\ Cascade(over[d]) /\ AccountedIn(d)
  BY DEF StoreInv
<1>2. /\ View(c) \in [Ids -> Stored]
      /\ \A i \in Ids : View(c)[i] = IF i \in touched[c] THEN over[c][i] ELSE db[i]
  BY <1>1, Seen
<1>3. CASE InTx(c)
  <2>1. /\ over' = [over EXCEPT ![c] = new]
        /\ touched' = [touched EXCEPT ![c] = touched[c] \cup ids]
        /\ call' = [call EXCEPT ![c] = own] /\ db' = db
    BY <1>3 DEF Write
  <2>2. StoreTypes'
    BY <1>1, <2>1 DEF StoreTypes
  <2>3. call'[c] = own /\ over'[c] = new /\ touched'[c] = touched[c] \cup ids /\ tx[c] = "open"
    BY <1>1, <1>3, <2>1 DEF StoreTypes, InTx
  <2>4. \A d \in Clients \ {c} : /\ over'[d] = over[d] /\ touched'[d] = touched[d]
                                 /\ call'[d] = call[d] /\ call[d] \in Call
    BY <1>1, <2>1 DEF StoreTypes
  <2>5. \A d \in Clients \ {c} : /\ CallInv(d)' /\ FillInv(d)' /\ Cascade(over[d])'
                                 /\ \A i \in Ids, p \in Parts : Owes(d, i, p)' <=> Owes(d, i, p)
    <3> SUFFICES ASSUME NEW d \in Clients \ {c}
                 PROVE  /\ CallInv(d)' /\ FillInv(d)' /\ Cascade(over[d])'
                        /\ \A i \in Ids, p \in Parts : Owes(d, i, p)' <=> Owes(d, i, p)
      OBVIOUS
    <3>1. Undisturbed(d)
      BY <2>4 DEF Undisturbed
    <3>2. QED
      BY <1>1, <2>1, <2>2, <2>4, <3>1, OthersKeepInv DEF StoreTypes, Cascade
  <2>6. Cascade(over[c])' /\ Cascade(db)'
    BY <1>1, <2>1, <2>3 DEF Cascade
  <2>7. Accounted'
    BY <1>1, <2>1, <2>3, <2>5 DEF Accounted, Missing
  <2>8. \A d \in Clients \ {c} : AccountedIn(d)'
    <3> SUFFICES ASSUME NEW d \in Clients \ {c}, NEW i \in touched[d], NEW p \in Parts,
                        Missing(over[d], i, p), i \notin failed'
                 PROVE  \E e \in Clients : (e = d \/ tx[e] = "none") /\ Owes(e, i, p)'
      BY <2>4 DEF AccountedIn, Missing
    <3>1. i \in Ids
      BY <1>1 DEF StoreTypes
    <3>2. PICK e \in Clients : (e = d \/ tx[e] = "none") /\ Owes(e, i, p)
      BY <1>1 DEF AccountedIn
    <3>3. QED
      BY <2>3, <2>5, <3>1, <3>2
  <2>9. AccountedIn(c)'
    <3> SUFFICES ASSUME NEW i \in touched[c] \cup ids, NEW p \in Parts, Missing(new, i, p),
                        i \notin failed'
                 PROVE  \E d \in Clients : (d = c \/ tx[d] = "none") /\ Owes(d, i, p)'
      BY <2>3 DEF AccountedIn, Missing
    <3>1. i \in Ids
      BY <1>1 DEF StoreTypes
    <3>2. CASE ~Missing(View(c), i, p)
      BY <1>2, <3>1, <3>2 DEF Missing
    <3>3. CASE Missing(View(c), i, p)
      <4>1. \E d \in Clients : (d = c \/ tx[d] = "none") /\ Owes(d, i, p)
        BY <1>1, <1>2, <3>1, <3>3 DEF Accounted, AccountedIn, Missing
      <4>2. Owes(c, i, p) => Owes(c, i, p)'
        BY <3>1
      <4>3. QED
        BY <2>5, <3>1, <4>1, <4>2
    <3>4. QED
      BY <3>2, <3>3
  <2>10. CacheIsFresh'
    BY <1>1, <2>1, <2>3, <2>4 DEF CacheIsFresh
  <2>11. QED
    BY <2>2, <2>5, <2>6, <2>7, <2>8, <2>9, <2>10 DEF StoreInv
<1>4. CASE ~InTx(c)
  <2>1. db' = new /\ call' = CallsAfter(c, own, ids) /\ UNCHANGED <<over, touched>>
    BY <1>4 DEF Write
  <2>2. /\ call' \in [Clients -> Call] /\ call'[c] = own
        /\ \A d \in Clients \ {c} :
             /\ Undisturbed(d)
             /\ call[d].op # "none" /\ Shp(d).id \in ids => ~call'[d].clean
    BY <1>1, <2>1, OtherCalls
  <2>3. StoreTypes'
    BY <1>1, <2>1, <2>2 DEF StoreTypes
  <2>4. touched[c] = {} /\ touched'[c] = {} /\ tx[c] = "none" /\ View(c) = db
    <3>1. tx[c] = "none" /\ touched[c] = {}
      BY <1>1, <1>4 DEF InTx, StoreTypes, CallInv
    <3>2. QED
      BY <1>1, <2>1, <3>1 DEF View, StoreTypes
  <2>5. \A d \in Clients \ {c} : /\ CallInv(d)' /\ FillInv(d)' /\ Cascade(over[d])'
                                 /\ \A i \in Ids, p \in Parts : Owes(d, i, p)' <=> Owes(d, i, p)
    <3> SUFFICES ASSUME NEW d \in Clients \ {c}
                 PROVE  /\ CallInv(d)' /\ FillInv(d)' /\ Cascade(over[d])'
                        /\ \A i \in Ids, p \in Parts : Owes(d, i, p)' <=> Owes(d, i, p)
      OBVIOUS
    <3>1. call'[d].clean /\ call[d].op # "none" => db'[Shp(d).id] = db[Shp(d).id]
      <4> SUFFICES ASSUME call'[d].clean, call[d].op # "none"
                   PROVE  db'[Shp(d).id] = db[Shp(d).id]
        OBVIOUS
      <4>1. Shp(d).id \in Ids
        BY <1>1, ShipmentParts DEF CallInv
      <4>2. QED
        BY <2>1, <2>2, <2>4, <4>1
    <3>2. QED
      BY <1>1, <2>1, <2>2, <3>1, OthersKeepInv DEF Cascade
  <2>6. Cascade(over[c])' /\ Cascade(db)'
    BY <1>1, <2>1 DEF Cascade
  <2>7. \A i \in Ids, p \in Parts, d \in Clients :
           Owes(d, i, p) => i \in failed' \/ Owes(d, i, p)' \/ (i \in ids /\ ~Missing(new, i, p))
    BY <2>5
  <2>8. Accounted'
    <3> SUFFICES ASSUME NEW i \in Ids, NEW p \in Parts, Missing(new, i, p), i \notin failed'
                 PROVE  \E d \in Clients : tx[d] = "none" /\ Owes(d, i, p)'
      BY <2>1 DEF Accounted, Missing
    <3>1. CASE Missing(db, i, p)
      BY <1>1, <2>7, <3>1 DEF Accounted
    <3>2. CASE ~Missing(db, i, p)
      BY <2>4, <3>2 DEF Missing
    <3>3. QED
      BY <3>1, <3>2
  <2>9. \A d \in Clients : AccountedIn(d)'
    <3> SUFFICES ASSUME NEW d \in Clients, NEW i \in touched[d], NEW p \in Parts,
                        Missing(over[d], i, p), i \notin failed'
                 PROVE  \E e \in Clients : (e = d \/ tx[e] = "none") /\ Owes(e, i, p)'
      BY <2>1 DEF AccountedIn, Missing
    <3>1. i \in Ids /\ i \notin ids
      BY <1>1, <2>4 DEF StoreTypes
    <3>2. \E e \in Clients : (e = d \/ tx[e] = "none") /\ Owes(e, i, p)
      BY <1>1 DEF AccountedIn
    <3>3. QED
      BY <2>7, <3>1, <3>2
  <2>10. CacheIsFresh'
    BY <1>1, <2>1, <2>2, <2>4 DEF CacheIsFresh, Undisturbed
  <2>11. QED
    BY <2>3, <2>5, <2>6, <2>8, <2>9, <2>10 DEF StoreInv
<1>5. QED
  BY <1>3, <1>4

(* A step of c that leaves the tables alone, and what others do.           *)
LEMMA RestKeepsInv ==
  ASSUME StoreInv, NEW c \in Clients, StoreTypes', UNCHANGED db, failed \subseteq failed',
         \A d \in Clients \ {c} : /\ call'[d] = call[d] /\ tx'[d] = tx[d]
                                  /\ over'[d] = over[d] /\ touched'[d] = touched[d],
         CallInv(c)', FillInv(c)',
         over'[c] \in {over[c], Nothing},
         touched'[c] = {} \/ (touched'[c] = touched[c] /\ over'[c] = over[c]),
         \A i \in Ids, p \in Parts :
            Owes(c, i, p) => \/ i \in failed'
                             \/ Owes(c, i, p)' /\ (tx[c] = "none" => tx'[c] = "none"),
         CacheIsFresh'
  PROVE  StoreInv'
<1>1. /\ StoreTypes /\ Cascade(db) /\ Accounted
      /\ \A d \in Clients : CallInv(d) /\ FillInv(d) /\ Cascade(over[d]) /\ AccountedIn(d)
  BY DEF StoreInv
<1>2. \A d \in Clients \ {c} : /\ CallInv(d)' /\ FillInv(d)' /\ Cascade(over[d])'
                               /\ \A i \in Ids, p \in Parts : Owes(d, i, p)' <=> Owes(d, i, p)
  <2> SUFFICES ASSUME NEW d \in Clients \ {c}
               PROVE  /\ CallInv(d)' /\ FillInv(d)' /\ Cascade(over[d])'
                      /\ \A i \in Ids, p \in Parts : Owes(d, i, p)' <=> Owes(d, i, p)
    OBVIOUS
  <2>1. Undisturbed(d)
    BY DEF Undisturbed, StoreTypes
  <2>2. QED
    BY <1>1, <2>1, OthersKeepInv DEF StoreTypes, Cascade
<1>3. Cascade(over[c])' /\ Cascade(db)'
  BY <1>1 DEF Cascade, Nothing
<1>4. \A i \in Ids, p \in Parts, d \in Clients :
         Owes(d, i, p) => i \in failed' \/ (Owes(d, i, p)' /\ (tx[d] = "none" => tx'[d] = "none"))
  BY <1>2
<1>5. Accounted'
  <2> SUFFICES ASSUME NEW i \in Ids, NEW p \in Parts, Missing(db, i, p), i \notin failed'
               PROVE  \E d \in Clients : tx'[d] = "none" /\ Owes(d, i, p)'
    BY DEF Accounted, Missing
  <2>1. QED
    BY <1>1, <1>4 DEF Accounted
<1>6. \A d \in Clients : AccountedIn(d)'
  <2> SUFFICES ASSUME NEW d \in Clients, NEW i \in touched'[d], NEW p \in Parts,
                      Missing(over'[d], i, p), i \notin failed'
               PROVE  \E e \in Clients : (e = d \/ tx'[e] = "none") /\ Owes(e, i, p)'
    BY DEF AccountedIn, Missing
  <2>1. i \in Ids /\ i \in touched[d] /\ Missing(over[d], i, p)
    BY <1>1 DEF StoreTypes, Missing
  <2>2. PICK e \in Clients : (e = d \/ tx[e] = "none") /\ Owes(e, i, p)
    BY <1>1, <2>1 DEF AccountedIn
  <2>3. QED
    BY <1>4, <2>1, <2>2
<1>7. QED
  BY <1>2, <1>3, <1>5, <1>6 DEF StoreInv

(* A failed call is blamed for what it wrote, and for what it still owed.  *)
LEMMA FailKeepsInv ==
  ASSUME StoreInv, NEW c \in Clients, NEW step, At(c, step), NEW abort \in BOOLEAN, Fail(c, abort),
         cache' \in [Ids -> Shipment \cup {NoShipment}],
         \A i \in Ids : cache'[i] \in {cache[i], NoShipment} \/ i \in call[c].wrote,
         faults' \in 0..MaxFaults
  PROVE  StoreInv'
<1>1. /\ StoreTypes /\ CallInv(c) /\ CacheIsFresh /\ call[c].op \in Ops /\ call[c] \in Call
  <2>1. StoreTypes /\ CallInv(c) /\ CacheIsFresh
    BY DEF StoreInv
  <2>2. QED
    BY <2>1, NextStep DEF StoreTypes
<1>2. /\ call' = [call EXCEPT ![c] = Idle] /\ UNCHANGED <<db, got, calls>>
      /\ suspect' = suspect \cup call[c].wrote /\ failed' = failed \cup call[c].wrote
      /\ call[c].wrote \subseteq Ids
  BY <1>1 DEF Fail, Blame, Call
<1>3. /\ tx' \in [Clients -> {"none", "open", "aborted"}]
      /\ over' \in [Clients -> [Ids -> Stored]] /\ touched' \in [Clients -> SUBSET Ids]
      /\ \A d \in Clients \ {c} : /\ tx'[d] = tx[d] /\ over'[d] = over[d]
                                  /\ touched'[d] = touched[d]
      /\ over'[c] \in {over[c], Nothing}
      /\ touched'[c] = {} \/ (touched'[c] = touched[c] /\ over'[c] = over[c])
      /\ tx'[c] = "none" => touched'[c] = {}
      /\ touched[c] \subseteq touched'[c] \cup call[c].wrote
  <2>1. CASE call[c].op = "seed"
    <3>1. Nothing \in [Ids -> Stored]
      BY AbsentParts DEF Nothing
    <3>2. EndTx(c) /\ call[c].wrote = touched[c]
      BY <1>1, <2>1 DEF Fail, CallInv
    <3>3. QED
      BY <1>1, <3>1, <3>2 DEF EndTx, StoreTypes
  <2>2. CASE call[c].op # "seed"
    <3>1. UNCHANGED <<over, touched>> /\ tx' \in {tx, [tx EXCEPT ![c] = "aborted"]}
      BY <1>1, <2>2 DEF Fail, StoreTypes
    <3>2. QED
      BY <1>1, <3>1 DEF StoreTypes, CallInv
  <2>3. QED
    BY <2>1, <2>2
<1>4. CallInv(c)' /\ FillInv(c)' /\ Idle \in Call /\ call'[c] = Idle /\ Idle.wrote = {}
  <2>1. call'[c] = Idle
    BY <1>1, <1>2 DEF StoreTypes
  <2>2. QED
    BY <1>3, <2>1, IdleInv
<1>5. StoreTypes'
  BY <1>1, <1>2, <1>3, <1>4 DEF StoreTypes
<1>6. \A i \in Ids, p \in Parts : Owes(c, i, p) => i \in failed'
  BY <1>2 DEF Owes
<1>7. \A d \in Clients \ {c} : call'[d] = call[d]
  BY <1>1, <1>2 DEF StoreTypes
<1>8. CacheIsFresh'
  <2> SUFFICES ASSUME NEW i \in Ids, cache'[i] \notin {NoShipment, AsRead(i, db[i])},
                      i \notin suspect'
               PROVE  \E d \in Clients : i \in touched'[d] \cup call'[d].wrote
    BY <1>2 DEF CacheIsFresh
  <2>1. cache'[i] = cache[i] /\ i \notin call[c].wrote
    BY <1>2
  <2>2. PICK d \in Clients : i \in touched[d] \cup call[d].wrote
    BY <1>1, <1>2, <2>1 DEF CacheIsFresh
  <2>3. QED
    BY <1>3, <1>7, <2>1, <2>2
<1>9. QED
  BY <1>2, <1>3, <1>4, <1>5, <1>6, <1>7, <1>8, RestKeepsInv

-----------------------------------------------------------------------------
(* What an accepted statement does to the shipments ids, so that its call  *)
(* keeps what is known of it: a Create inserts what it owes next, and the  *)
(* parts that are missing then are owed by it, or were missing before.     *)
Fits(c, ids, new) ==
  /\ ids \in SUBSET Ids /\ new \in [Ids -> Stored]
  /\ \A i \in Ids \ ids : new[i] = View(c)[i]
  /\ Cascade(new)
  /\ call[c].op \in {"create", "update", "delete", "seed"} /\ Todo(c) >= 2
  /\ call[c].op = "update" => Todo(c) >= 3
  /\ call[c].op = "seed" => Todo(c) = 2
  /\ call[c].op = "create" =>
       /\ Shp(c).id \in call[c].wrote \cup ids
       /\ Shp(c).logs = {} => Todo(c) >= 4
       /\ call[c].clean => Inserted(Shp(c), Todo(c) - 1, new[Shp(c).id])
       /\ \A p \in Parts : Todo(c) = Turn[p] /\ Shp(c).logs # {} =>
            Shp(c).id \in ids /\ new[Shp(c).id][p] # {}
  /\ \A i \in ids, p \in Parts : Missing(new, i, p) =>
       \/ Missing(View(c), i, p)
       \/ call[c].op = "update"
       \/ /\ call[c].op = "create" /\ Shp(c).id = i
          /\ Todo(c) - 1 >= Turn[p] \/ Shp(c).logs = {}

(* A statement that is accepted advances its call.                         *)
LEMMA AdvanceKeepsInv ==
  ASSUME StoreInv, NEW c \in Clients, NEW step, At(c, step), NEW ids, NEW new,
         Fits(c, ids, new), tx[c] # "aborted",
         \A d \in Clients \ {c} : touched[d] \cap ids = {},
         NEW own, own = [Step(c) EXCEPT !.wrote = @ \cup ids], Write(c, new, ids, own),
         UNCHANGED <<tx, cache, got, calls, suspect, failed, faults>>
  PROVE  StoreInv'
<1>1. StoreTypes /\ CallInv(c) /\ FillInv(c)
  BY DEF StoreInv
<1>2. /\ ids \in SUBSET Ids /\ new \in [Ids -> Stored]
      /\ \A i \in Ids \ ids : new[i] = View(c)[i]
      /\ Cascade(new)
  BY DEF Fits
<1>3. /\ own \in Call /\ own.op = call[c].op /\ own.shp = Shp(c) /\ own.clean = call[c].clean
      /\ own.wrote = call[c].wrote \cup ids /\ own.left = Tail(call[c].left)
  <2>1. call[c] \in Call /\ Tail(call[c].left) \in Seq(Steps)
    BY <1>1, NextStep DEF StoreTypes
  <2>2. QED
    BY <1>2, <2>1 DEF Step, Call, Shp
<1>5. /\ call[c].op \in Ops /\ Todo(c) \in Nat
      /\ Len(Tail(call[c].left)) = Todo(c) - 1
      /\ Todo(c) > 1 => IsEndOf(Tail(call[c].left), Program[call[c].op])
  <2>1. call[c].op \in Ops /\ Len(Program[call[c].op]) \in Nat
    BY <1>1, NextStep, ProgramOf
  <2>2. QED
    BY <1>1, <2>1, NextStep
<1>6. /\ call'[c] = own
      /\ InTx(c) => over'[c] = new /\ touched'[c] = touched[c] \cup ids
      /\ ~InTx(c) => db' = new /\ touched'[c] = touched[c] /\ touched[c] = {}
  <2>1. CASE InTx(c)
    BY <1>1, <2>1 DEF Write, StoreTypes
  <2>2. CASE ~InTx(c)
    <3>1. tx[c] = "none" /\ touched[c] = {}
      BY <1>1, <2>2 DEF InTx, StoreTypes, CallInv
    <3>2. db' = new /\ call' = CallsAfter(c, own, ids) /\ UNCHANGED <<over, touched>>
      BY <2>2 DEF Write
    <3>3. QED
      BY <1>1, <1>3, <2>2, <3>1, <3>2, OtherCalls
  <2>3. QED
    BY <2>1, <2>2
<1>7. Todo(c)' = Todo(c) - 1 /\ Shp(c)' = Shp(c)
  BY <1>3, <1>5, <1>6 DEF Todo, Shp
<1>8. CallInv(c)'
  <2>1. call[c].op = "seed" => tx[c] = "open" /\ call[c].wrote = touched[c]
    BY <1>1 DEF CallInv, Fits
  <2>2. QED
    <3>1. Shp(c) \in Shipment /\ Todo(c) >= 2
      BY <1>1, <1>5 DEF CallInv, Fits, Ops
    <3>2. call[c].op = "create" =>
            /\ Shp(c).id \in call[c].wrote \cup ids
            /\ Shp(c).logs = {} => Todo(c) >= 4
            /\ Shp(c).logs = {} \/ Whole(Shp(c))
      BY <1>1 DEF CallInv, Fits
    <3>3. call[c].op = "update" => Todo(c) >= 3 /\ Shp(c).header # NoHeader
      BY <1>1 DEF CallInv, Fits
    <3>4. call[c].op = "seed" => Shp(c) = Seeded /\ Todo(c) = 2
      BY <1>1 DEF CallInv, Fits
    <3>5. call[c].op # "query" /\ call[c].op # "none" /\ (tx[c] = "none" => touched[c] = {})
      BY <1>1 DEF CallInv, Fits
    <3>6. QED
      BY <1>3, <1>5, <1>6, <1>7, <2>1, <3>1, <3>2, <3>3, <3>4, <3>5 DEF CallInv, InTx
<1>9. View(c)'[Shp(c).id] = new[Shp(c).id]
  <2>1. Shp(c).id \in Ids
    BY <1>1, <1>5, ShipmentParts DEF CallInv, Ops
  <2>2. View(c)[Shp(c).id] = IF Shp(c).id \in touched[c] THEN over[c][Shp(c).id] ELSE db[Shp(c).id]
    BY <1>1, <2>1, Seen
  <2>3. QED
    BY <1>1, <1>2, <1>6, <2>1, <2>2 DEF View, Write
<1>10. FillInv(c)'
  BY <1>3, <1>6, <1>7, <1>9 DEF FillInv, Fits
<1>11. ASSUME NEW i \in Ids, NEW p \in Parts, Owes(c, i, p)
       PROVE  Owes(c, i, p)' \/ (i \in ids /\ ~Missing(new, i, p))
  <2>1. CASE call[c].op = "update"
    BY <1>3, <1>6, <1>11, <2>1 DEF Owes
  <2>2. CASE call[c].op = "create" /\ Shp(c).id = i
    <3>1. CASE Todo(c) - 1 >= Turn[p] \/ Shp(c).logs = {}
      BY <1>3, <1>6, <1>7, <1>11, <2>2, <3>1 DEF Owes
    <3>2. CASE Todo(c) = Turn[p] /\ Shp(c).logs # {}
      BY <2>2, <3>2 DEF Fits, Missing
    <3>3. QED
      BY <1>5, <1>11, <2>2, <3>1, <3>2 DEF Owes, Turn, Parts
  <2>3. QED
    BY <1>11, <2>1, <2>2 DEF Owes
<1>12. ASSUME NEW i \in ids, NEW p \in Parts, Missing(new, i, p)
       PROVE  Missing(View(c), i, p) \/ Owes(c, i, p)'
  BY <1>3, <1>6, <1>7, <1>12 DEF Fits, Owes
<1>13. /\ ids \cup call[c].wrote \subseteq own.wrote \cup suspect'
       /\ UNCHANGED <<tx, cache, got, calls>> /\ faults' \in 0..MaxFaults
       /\ failed \subseteq failed' /\ failed' \subseteq Ids
       /\ suspect \subseteq suspect' /\ suspect' \subseteq Ids
  BY <1>1, <1>3 DEF StoreTypes
<1>14. QED
  BY <1>2, <1>3, <1>8, <1>10, <1>11, <1>12, <1>13, WriteKeepsInv

(* A statement whose answer is lost: it took effect, and its call failed.  *)
LEMMA LostAnswerKeepsInv ==
  ASSUME StoreInv, NEW c \in Clients, NEW step, At(c, step), NEW ids, NEW new,
         Fits(c, ids, new), tx[c] = "none",
         \A d \in Clients \ {c} : touched[d] \cap ids = {},
         Write(c, new, ids, Idle), Blame(call[c].wrote \cup ids),
         UNCHANGED <<tx, cache, got, calls>>, faults' \in 0..MaxFaults
  PROVE  StoreInv'
<1>1. StoreTypes /\ CallInv(c) /\ call[c] \in Call
  BY DEF StoreInv, StoreTypes
<1>2. /\ ids \in SUBSET Ids /\ new \in [Ids -> Stored]
      /\ \A i \in Ids \ ids : new[i] = View(c)[i]
      /\ Cascade(new)
  BY DEF Fits
<1>3. Idle \in Call
  BY DEF Idle, Call
<1>4. call'[c] = Idle /\ touched' = touched /\ touched[c] = {}
  BY <1>1, <1>3, OtherCalls DEF Write, InTx, CallInv
<1>5. CallInv(c)' /\ FillInv(c)'
  BY <1>4, IdleInv
<1>6. /\ failed' = failed \cup call[c].wrote \cup ids
      /\ suspect' = suspect \cup call[c].wrote \cup ids
      /\ call[c].wrote \subseteq Ids
  BY <1>1 DEF Blame, Call
<1>7. \A i \in Ids, p \in Parts : Owes(c, i, p) => i \in failed'
  BY <1>6 DEF Owes
<1>8. QED
  BY <1>1, <1>2, <1>3, <1>5, <1>6, <1>7, WriteKeepsInv DEF StoreTypes

(* Execute: the statement waits, is refused, fails, or does what it does.  *)
LEMMA ExecuteKeepsInv ==
  ASSUME StoreInv, NEW c \in Clients, NEW step, At(c, step), NEW ids, NEW accepted, NEW new,
         Execute(c, ids, accepted, new), accepted => Fits(c, ids, new)
  PROVE  StoreInv'
<1>1. \/ Fail(c, TRUE) /\ UNCHANGED cache /\ (NoFault \/ Fault("db"))
      \/ /\ ~Waits(c, ids) /\ Fits(c, ids, new) /\ tx[c] # "aborted" /\ NoFault
         /\ Write(c, new, ids, [Step(c) EXCEPT !.wrote = @ \cup ids])
         /\ UNCHANGED <<tx, cache, got, calls, suspect, failed>>
      \/ /\ ~Waits(c, ids) /\ Fits(c, ids, new) /\ tx[c] = "none" /\ Fault("db")
         /\ Write(c, new, ids, Idle)
         /\ Blame(call[c].wrote \cup ids)
         /\ UNCHANGED <<tx, cache, got, calls>>
  BY Zenon DEF Execute
<1>2. StoreTypes
  BY DEF StoreInv
<1>3. NoFault \/ Fault("db") => faults' \in 0..MaxFaults
  BY <1>2, StoreAssumption DEF StoreTypes, NoFault, Fault
<1>4. ~Waits(c, ids) => \A d \in Clients \ {c} : touched[d] \cap ids = {}
  BY DEF Waits
<1>5. CASE Fail(c, TRUE) /\ UNCHANGED cache /\ (NoFault \/ Fault("db"))
  BY <1>2, <1>3, <1>5, FailKeepsInv DEF StoreTypes
<1>6. CASE /\ ~Waits(c, ids) /\ Fits(c, ids, new) /\ tx[c] # "aborted" /\ NoFault
           /\ Write(c, new, ids, [Step(c) EXCEPT !.wrote = @ \cup ids])
           /\ UNCHANGED <<tx, cache, got, calls, suspect, failed>>
  BY <1>4, <1>6, AdvanceKeepsInv DEF NoFault
<1>7. CASE /\ ~Waits(c, ids) /\ Fits(c, ids, new) /\ tx[c] = "none" /\ Fault("db")
           /\ Write(c, new, ids, Idle)
           /\ Blame(call[c].wrote \cup ids)
           /\ UNCHANGED <<tx, cache, got, calls>>
  BY <1>3, <1>4, <1>7, LostAnswerKeepsInv
<1>8. QED
  BY <1>1, <1>5, <1>6, <1>7

-----------------------------------------------------------------------------
(* The statements that write. *)

(* What a client and its statement are.                                    *)
LEMMA AtStatement ==
  ASSUME StoreInv, NEW c \in Clients, NEW step, At(c, step)
  PROVE  /\ StoreTypes /\ CallInv(c) /\ FillInv(c) /\ Shp(c) \in Shipment /\ Shp(c).id \in Ids
         /\ View(c) \in [Ids -> Stored] /\ Cascade(View(c)) /\ Todo(c) \in Nat
<1>1. StoreTypes /\ CallInv(c) /\ FillInv(c) /\ Cascade(db) /\ Cascade(over[c])
  BY DEF StoreInv
<1>2. Shp(c) \in Shipment
  BY <1>1, NextStep DEF CallInv, Ops
<1>3. call[c].left \in Seq(Steps)
  BY <1>1 DEF StoreTypes, Call
<1>4. Todo(c) \in Nat
  BY <1>3, LenProperties DEF Todo
<1>5. QED
  BY <1>1, <1>2, <1>4, Seen, ShipmentParts

(* The row of shipments comes first, with no rows elsewhere yet.           *)
LEMMA InsertHeaderKeepsInv ==
  ASSUME StoreInv, NEW c \in Clients, InsertHeader(c)
  PROVE  StoreInv'
<1> DEFINE s == Shp(c)
<1> DEFINE accepted == s.id \notin Held(c) /\ Unused(c, s.header)
<1> DEFINE new == [View(c) EXCEPT ![s.id].header = s.header]
<1>1. At(c, "insertHeader") /\ Execute(c, {s.id}, accepted, new)
  BY DEF InsertHeader
<1>2. /\ StoreTypes /\ CallInv(c) /\ s \in Shipment /\ s.id \in Ids
      /\ View(c) \in [Ids -> Stored] /\ Cascade(View(c)) /\ Todo(c) \in Nat
  BY <1>1, AtStatement
<1>3. call[c].op = "create" /\ Todo(c) = 5
  BY <1>1, <1>2, Positions
<1>4. ASSUME accepted PROVE Fits(c, {s.id}, new)
  <2>1. View(c)[s.id] = Absent /\ s.header \in Headers \cup {NoHeader}
    BY <1>2, <1>4, ShipmentParts DEF Held, Cascade
  <2>2. /\ new \in [Ids -> Stored] /\ new[s.id].header = s.header
        /\ \A p \in Parts : new[s.id][p] = {}
        /\ \A i \in Ids \ {s.id} : new[i] = View(c)[i]
    BY <1>2, <2>1, StoredParts, AbsentParts
  <2> HIDE DEF new
  <2>3. Cascade(new)
    <3>1. new[s.id].header = NoHeader => new[s.id] = Absent
      BY <1>2, <2>2 DEF Stored, Parts, Absent
    <3>2. QED
      BY <1>2, <2>2, <3>1 DEF Cascade
  <2>4. Inserted(s, 4, new[s.id])
    BY <2>2 DEF Inserted, Turn, Parts
  <2>5. \A p \in Parts : Turn[p] \in 2..4
    BY DEF Turn, Parts
  <2>6. QED
    BY <1>2, <1>3, <2>2, <2>3, <2>4, <2>5 DEF Fits
<1>5. QED
  BY <1>1, <1>4, ExecuteKeepsInv

(* An Update of the row owes the rows that are missing.                    *)
LEMMA UpdateHeaderKeepsInv ==
  ASSUME StoreInv, NEW c \in Clients, UpdateHeader(c)
  PROVE  StoreInv'
<1> DEFINE s == Shp(c)
<1> DEFINE ids == {s.id} \cap Held(c)
<1> DEFINE accepted == s.id \notin Held(c) \/ Unused(c, s.header)
<1> DEFINE new == [View(c) EXCEPT ![s.id].header = IF @ = NoHeader THEN @ ELSE s.header]
<1>1. At(c, "updateHeader") /\ Execute(c, ids, accepted, new)
  BY DEF UpdateHeader
<1>2. /\ StoreTypes /\ CallInv(c) /\ s \in Shipment /\ s.id \in Ids
      /\ View(c) \in [Ids -> Stored] /\ Cascade(View(c)) /\ Todo(c) \in Nat
  BY <1>1, AtStatement
<1>3. call[c].op = "update" /\ Todo(c) >= 3 /\ s.header # NoHeader
  BY <1>1, <1>2, Positions DEF CallInv
<1>4. Fits(c, ids, new)
  <2>1. PICK h \in Headers \cup {NoHeader} :
           h = IF View(c)[s.id].header = NoHeader THEN View(c)[s.id].header ELSE s.header
    BY <1>2, ShipmentParts
  <2>2. new = [View(c) EXCEPT ![s.id] = [View(c)[s.id] EXCEPT !.header = h]]
    BY <2>1, Zenon
  <2> HIDE DEF new
  <2>3. /\ new \in [Ids -> Stored]
        /\ \A i \in Ids \ {s.id} : new[i] = View(c)[i]
        /\ new[s.id].header = h
        /\ \A p \in Parts : new[s.id][p] = View(c)[s.id][p]
    BY <1>2, <2>2 DEF Stored, Parts
  <2>4. View(c)[s.id].header = NoHeader => new[s.id] = View(c)[s.id]
    BY <1>2, <2>1, <2>3, SameParts
  <2>5. Cascade(new)
    <3>1. h = NoHeader => View(c)[s.id].header = NoHeader
      BY <1>3, <2>1
    <3>2. QED
      BY <1>2, <2>3, <2>4, <3>1 DEF Cascade
  <2>6. \A i \in Ids \ ids : new[i] = View(c)[i]
    BY <1>2, <2>3, <2>4 DEF Held
  <2>7. ids \in SUBSET Ids
    BY <1>2
  <2> HIDE DEF ids
  <2>8. QED
    BY <1>2, <1>3, <2>3, <2>5, <2>6, <2>7 DEF Fits
<1>5. QED
  BY <1>1, <1>4, ExecuteKeepsInv

(* A Delete takes the row, and the rows of the other tables with it.       *)
LEMMA DeleteHeaderKeepsInv ==
  ASSUME StoreInv, NEW c \in Clients, DeleteHeader(c)
  PROVE  StoreInv'
<1> DEFINE s == Shp(c)
<1> DEFINE ids == {s.id} \cap Held(c)
<1> DEFINE new == [View(c) EXCEPT ![s.id] = Absent]
<1>1. At(c, "deleteHeader") /\ Execute(c, ids, TRUE, new)
  BY DEF DeleteHeader
<1>2. /\ StoreTypes /\ CallInv(c) /\ s \in Shipment /\ s.id \in Ids
      /\ View(c) \in [Ids -> Stored] /\ Cascade(View(c)) /\ Todo(c) \in Nat
  BY <1>1, AtStatement
<1>3. call[c].op = "delete" /\ Todo(c) = 2
  BY <1>1, <1>2, Positions
<1>4. Fits(c, ids, new)
  <2>1. /\ new \in [Ids -> Stored] /\ new[s.id] = Absent
        /\ \A i \in Ids \ {s.id} : new[i] = View(c)[i]
    BY <1>2, AbsentParts
  <2>2. Cascade(new)
    BY <1>2, <2>1 DEF Cascade
  <2>3. \A i \in Ids \ ids : new[i] = View(c)[i]
    BY <1>2, <2>1 DEF Held, Cascade
  <2>4. ids \in SUBSET Ids
    BY <1>2
  <2>5. \A i \in ids, p \in Parts : ~Missing(new, i, p)
    BY <2>1, AbsentParts DEF Missing
  <2> HIDE DEF new, ids
  <2>6. QED
    BY <1>3, <2>1, <2>2, <2>3, <2>4, <2>5 DEF Fits
<1>5. QED
  BY <1>1, <1>4, ExecuteKeepsInv

(* The rows of a part are inserted all at once, or the call fails.         *)
LEMMA InsertRowsKeepsInv ==
  ASSUME StoreInv, NEW c \in Clients, NEW step \in Inserts, InsertRows(c, step)
  PROVE  StoreInv'
<1> DEFINE s == Shp(c)
<1> DEFINE part == Part(step)
<1> DEFINE rows == s[part]
<1> DEFINE accepted == /\ \A r \in rows : /\ View(c)[r[1]].header # NoHeader
                                          /\ r[2] \notin View(c)[r[1]][part]
                       /\ part = "logs" => ~s.twice
<1> DEFINE new == [i \in Ids |-> [View(c)[i] EXCEPT ![part] = @ \cup Of(rows, i)]]
<1>1. /\ At(c, step)
      /\ \/ rows = {} /\ NoFault /\ Fail(c, FALSE) /\ UNCHANGED cache
         \/ rows # {} /\ Execute(c, Owners(rows), accepted, new)
  BY DEF InsertRows
<1>2. /\ StoreTypes /\ CallInv(c) /\ FillInv(c) /\ s \in Shipment /\ s.id \in Ids
      /\ View(c) \in [Ids -> Stored] /\ Cascade(View(c)) /\ Todo(c) \in Nat
  BY <1>1, AtStatement
<1>3. part \in Parts /\ (\/ call[c].op = "create" /\ Todo(c) = Turn[part]
                         \/ call[c].op = "update" /\ Todo(c) >= 3)
  BY <1>1, <1>2, Positions, PartOfStep DEF Inserts, Parts
<1>4. rows \in SUBSET (Ids \X Keys)
  BY <1>2, <1>3, ShipmentParts
<1> HIDE DEF part
<1>5. CASE rows = {} /\ NoFault /\ Fail(c, FALSE) /\ UNCHANGED cache
  <2>1. FALSE \in BOOLEAN /\ faults' \in 0..MaxFaults
    BY <1>2, <1>5 DEF NoFault, StoreTypes
  <2>2. cache' \in [Ids -> Shipment \cup {NoShipment}] /\ cache' = cache
    BY <1>2, <1>5 DEF StoreTypes
  <2>3. QED
    BY <1>1, <1>5, <2>1, <2>2, FailKeepsInv
<1>6. CASE rows # {} /\ Execute(c, Owners(rows), accepted, new)
  <2>1. ASSUME accepted PROVE Fits(c, Owners(rows), new)
    <3>1. \A i \in Ids : Of(rows, i) \in SUBSET Keys /\ (i \in Owners(rows) <=> Of(rows, i) # {})
      BY <1>4, RowsOf
    <3>2. /\ new \in [Ids -> Stored]
          /\ \A i \in Ids : /\ new[i].header = View(c)[i].header
                            /\ \A p \in Parts : new[i][p] = IF p = part
                                                            THEN View(c)[i][p] \cup Of(rows, i)
                                                            ELSE View(c)[i][p]
      <4> SUFFICES ASSUME NEW i \in Ids
                   PROVE  /\ new[i] \in Stored /\ new[i].header = View(c)[i].header
                          /\ \A p \in Parts : new[i][p] = IF p = part
                                                          THEN View(c)[i][p] \cup Of(rows, i)
                                                          ELSE View(c)[i][p]
        BY Zenon
      <4>1. View(c)[i] \in Stored
        BY <1>2
      <4>2. View(c)[i][part] \cup Of(rows, i) \in SUBSET Keys
        BY <1>3, <3>1, <4>1, StoredParts
      <4>3. new[i] = [View(c)[i] EXCEPT ![part] = View(c)[i][part] \cup Of(rows, i)]
        BY Zenon
      <4> HIDE DEF new, rows
      <4>4. QED
        BY <1>3, <4>1, <4>2, <4>3 DEF Stored, Parts
    <3> HIDE DEF new
    <3>3. \A i \in Ids \ Owners(rows) : new[i] = View(c)[i]
      <4> SUFFICES ASSUME NEW i \in Ids \ Owners(rows) PROVE new[i] = View(c)[i]
        OBVIOUS
      <4>1. Of(rows, i) = {}
        BY <3>1
      <4>2. \A p \in Parts : new[i][p] = View(c)[i][p]
        BY <3>2, <4>1
      <4>3. QED
        BY <1>2, <3>2, <4>2, SameParts
    <3>4. \A i \in Owners(rows) : View(c)[i].header # NoHeader
      BY <2>1 DEF Owners
    <3>5. Owners(rows) \in SUBSET Ids
      BY <1>2, <1>4, RowsOf
    <3>6. Cascade(new)
      BY <1>2, <3>2, <3>3, <3>4 DEF Cascade
    <3> HIDE DEF rows
    <3>7. \A i \in Owners(rows), p \in Parts : Missing(new, i, p) => Missing(View(c), i, p)
      BY <3>2, <3>5 DEF Missing
    <3>8. CASE call[c].op = "update"
      BY <1>2, <1>3, <3>2, <3>3, <3>5, <3>6, <3>7, <3>8 DEF Fits
    <3>9. CASE call[c].op = "create"
      <4>1. Todo(c) = Turn[part] /\ Todo(c) \in 2..4
        BY <1>3, <3>9 DEF Turn, Parts
      <4>2. s.id \in call[c].wrote
        BY <1>2, <3>9, <4>1 DEF CallInv
      <4>3. s.logs = {} => Todo(c) >= 4
        <5>1. part = "logs" => rows # {} /\ rows = s.logs
          BY <1>6 DEF rows
        <5>2. s.logs = {} => Todo(c) >= 3
          BY <1>2, <3>9 DEF CallInv
        <5>3. QED
          BY <1>3, <4>1, <5>1, <5>2 DEF Turn, Parts
      <4>4. call[c].clean => Inserted(s, Todo(c) - 1, new[s.id])
        <5>1. SUFFICES ASSUME call[c].clean PROVE Inserted(s, Todo(c) - 1, new[s.id])
          OBVIOUS
        <5>2. Inserted(s, Todo(c), View(c)[s.id])
          BY <1>2, <3>9, <5>1 DEF FillInv
        <5>3. /\ View(c)[s.id].header = s.header
              /\ \A p \in Parts : View(c)[s.id][p] = IF Todo(c) < Turn[p] THEN Of(s[p], s.id) ELSE {}
          BY <4>1, <5>2 DEF Inserted
        <5>4. new[s.id].header = s.header /\ rows = s[part]
          BY <1>2, <3>2, <5>3 DEF rows
        <5>5. \A p \in Parts : new[s.id][p] = IF Todo(c) - 1 < Turn[p] THEN Of(s[p], s.id) ELSE {}
          <6> SUFFICES ASSUME NEW p \in Parts
                       PROVE  new[s.id][p] = IF Todo(c) - 1 < Turn[p] THEN Of(s[p], s.id) ELSE {}
            OBVIOUS
          <6>1. Turn[p] = Turn[part] <=> p = part
            BY <1>3 DEF Turn, Parts
          <6>2. Turn[p] \in 2..4
            BY DEF Turn, Parts
          <6>3. CASE p = part
            <7>1. Todo(c) - 1 < Turn[p] /\ ~(Todo(c) < Turn[p])
              BY <4>1, <6>3
            <7>2. new[s.id][p] = View(c)[s.id][p] \cup Of(rows, s.id) /\ rows = s[p]
              BY <1>2, <3>2, <5>4, <6>3
            <7>3. QED
              BY <5>3, <7>1, <7>2
          <6>4. CASE p # part
            <7>1. Todo(c) < Turn[p] <=> Todo(c) - 1 < Turn[p]
              BY <4>1, <6>1, <6>2, <6>4
            <7>2. new[s.id][p] = View(c)[s.id][p]
              BY <1>2, <3>2, <6>4
            <7>3. QED
              BY <5>3, <7>1, <7>2
          <6>5. QED
            BY <6>3, <6>4
        <5>6. QED
          BY <5>4, <5>5 DEF Inserted
      <4>5. ASSUME NEW p \in Parts, Todo(c) = Turn[p], s.logs # {}
            PROVE  s.id \in Owners(rows) /\ new[s.id][p] # {}
        <5>1. p = part
          BY <1>3, <4>1, <4>5 DEF Turn, Parts
        <5>2. Owners(s.items \cup s.logs \cup s.history) = {s.id}
          BY <1>2, <3>9, <4>5 DEF CallInv, Whole
        <5>3. s.id \in Owners(rows)
          <6>1. PICK r \in rows : TRUE
            BY <1>6
          <6>2. r[1] = s.id
            BY <1>3, <5>2, <6>1 DEF rows, Owners, Parts
          <6>3. QED
            BY <6>1, <6>2 DEF Owners
        <5>4. Of(rows, s.id) # {}
          BY <1>2, <3>1, <5>3
        <5>5. QED
          BY <1>2, <3>2, <5>1, <5>3, <5>4
      <4>6. QED
        BY <3>2, <3>3, <3>5, <3>6, <3>7, <3>9, <4>1, <4>2, <4>3, <4>4, <4>5 DEF Fits
    <3>10. QED
      BY <1>3, <3>8, <3>9
  <2>2. QED
    BY <1>1, <1>6, <2>1, ExecuteKeepsInv
<1>7. QED
  BY <1>1, <1>5, <1>6

(* An Update deletes the rows of a part, and owes them from then on.       *)
LEMMA DeleteRowsKeepsInv ==
  ASSUME StoreInv, NEW c \in Clients, NEW step \in Deletes, DeleteRows(c, step)
  PROVE  StoreInv'
<1> DEFINE s == Shp(c)
<1> DEFINE ids == {s.id} \cap Held(c)
<1> DEFINE new == [View(c) EXCEPT ![s.id][Part(step)] = {}]
<1>1. At(c, step) /\ Execute(c, ids, TRUE, new)
  BY DEF DeleteRows
<1>2. /\ StoreTypes /\ CallInv(c) /\ s \in Shipment /\ s.id \in Ids
      /\ View(c) \in [Ids -> Stored] /\ Cascade(View(c)) /\ Todo(c) \in Nat
  BY <1>1, AtStatement
<1>3. call[c].op = "update" /\ Todo(c) >= 3 /\ Part(step) \in Parts
  BY <1>1, <1>2, Positions, PartOfStep DEF Deletes, Parts
<1>4. Fits(c, ids, new)
  <2>1. new = [View(c) EXCEPT ![s.id] = [View(c)[s.id] EXCEPT ![Part(step)] = {}]]
    BY Zenon
  <2> HIDE DEF new
  <2>2. /\ new \in [Ids -> Stored]
        /\ \A i \in Ids \ {s.id} : new[i] = View(c)[i]
        /\ new[s.id].header = View(c)[s.id].header
        /\ \A p \in Parts : new[s.id][p] \in {{}, View(c)[s.id][p]}
    BY <1>2, <1>3, <2>1 DEF Stored, Parts
  <2>3. View(c)[s.id].header = NoHeader => new[s.id] = View(c)[s.id]
    <3>1. SUFFICES ASSUME View(c)[s.id] = Absent PROVE new[s.id] = View(c)[s.id]
      BY <1>2 DEF Cascade
    <3>2. \A p \in Parts : new[s.id][p] = {} /\ View(c)[s.id][p] = {}
      BY <2>2, <3>1, AbsentParts
    <3>3. new[s.id] \in Stored /\ View(c)[s.id] \in Stored
      BY <1>2, <2>2
    <3>4. \A p \in Parts : new[s.id][p] = View(c)[s.id][p]
      BY <3>2
    <3>5. QED
      BY <2>2, <3>3, <3>4, SameParts
  <2>4. Cascade(new)
    BY <1>2, <2>2, <2>3 DEF Cascade
  <2>5. \A i \in Ids \ ids : new[i] = View(c)[i]
    BY <1>2, <2>2, <2>3 DEF Held
  <2>6. ids \in SUBSET Ids
    BY <1>2
  <2> HIDE DEF ids
  <2>7. QED
    BY <1>2, <1>3, <2>2, <2>4, <2>5, <2>6 DEF Fits
<1>5. QED
  BY <1>1, <1>4, ExecuteKeepsInv

(* The seed brings all four tables at once.                                *)
LEMMA ExecSeedKeepsInv ==
  ASSUME StoreInv, NEW c \in Clients, ExecSeed(c)
  PROVE  StoreInv'
<1> DEFINE s == Shp(c)
<1> DEFINE row == [header |-> s.header, items |-> Of(s.items, s.id),
                   logs |-> Of(s.logs, s.id), history |-> Of(s.history, s.id)]
<1> DEFINE accepted == s.id \notin Held(c) /\ Unused(c, s.header)
<1> DEFINE new == [View(c) EXCEPT ![s.id] = row]
<1>1. At(c, "seed") /\ Execute(c, {s.id}, accepted, new)
  BY DEF ExecSeed
<1>2. /\ StoreTypes /\ CallInv(c) /\ s \in Shipment /\ s.id \in Ids
      /\ View(c) \in [Ids -> Stored] /\ Cascade(View(c)) /\ Todo(c) \in Nat
  BY <1>1, AtStatement
<1>3. call[c].op = "seed" /\ Todo(c) = 2 /\ s = Seeded
  BY <1>1, <1>2, Positions DEF CallInv
<1>4. Fits(c, {s.id}, new)
  <2>1. /\ row \in Stored /\ row.header # NoHeader
        /\ \A p \in Parts : row[p] # {}
    <3>1. \A p \in Parts : Of(s[p], s.id) \in SUBSET Keys /\ Of(s[p], s.id) # {}
      BY <1>2, <1>3, ShipmentParts, RowsOf, StoreAssumption
    <3>2. s.header \in Headers /\ s.header # NoHeader
      BY <1>3, StoreAssumption
    <3>3. QED
      BY <3>1, <3>2 DEF Stored, Parts
  <2> HIDE DEF row
  <2>2. new \in [Ids -> Stored] /\ new[s.id] = row /\ \A i \in Ids \ {s.id} : new[i] = View(c)[i]
    BY <1>2, <2>1
  <2> HIDE DEF new
  <2>3. Cascade(new)
    BY <1>2, <2>1, <2>2 DEF Cascade
  <2>4. \A p \in Parts : ~Missing(new, s.id, p)
    BY <2>1, <2>2 DEF Missing
  <2>5. QED
    BY <1>2, <1>3, <2>2, <2>3, <2>4 DEF Fits
<1>5. QED
  BY <1>1, <1>4, ExecuteKeepsInv

(* The statement that is no SQL ends an Update.                            *)
LEMMA InsertNothingKeepsInv ==
  ASSUME StoreInv, NEW c \in Clients, InsertNothing(c)
  PROVE  StoreInv'
<1> DEFINE abort == Shp(c).history # {}
<1>1. At(c, "insertNothing") /\ NoFault /\ Fail(c, abort) /\ UNCHANGED cache
  BY Zenon DEF InsertNothing
<1>2. abort \in BOOLEAN
  OBVIOUS
<1> HIDE DEF abort
<1>3. faults' \in 0..MaxFaults /\ cache' \in [Ids -> Shipment \cup {NoShipment}] /\ cache' = cache
  BY <1>1 DEF NoFault, StoreInv, StoreTypes
<1>4. QED
  BY <1>1, <1>2, <1>3, FailKeepsInv

-----------------------------------------------------------------------------
(* The statements that read. *)

(* A step that fails its call and leaves the cache alone.                  *)
LEMMA RefusedKeepsInv ==
  ASSUME StoreInv, NEW c \in Clients, NEW step, At(c, step), NEW abort \in BOOLEAN,
         Fail(c, abort), UNCHANGED cache, NoFault \/ \E f \in FaultKinds : Fault(f)
  PROVE  StoreInv'
<1>1. StoreTypes
  BY DEF StoreInv
<1>2. faults' \in 0..MaxFaults
  BY <1>1, StoreAssumption DEF StoreTypes, NoFault, Fault
<1>3. cache' \in [Ids -> Shipment \cup {NoShipment}]
  BY <1>1 DEF StoreTypes
<1>4. QED
  BY <1>2, <1>3, FailKeepsInv

(* A query that goes on with the shipment read so far.                     *)
LEMMA ReadOnKeepsInv ==
  ASSUME StoreInv, NEW c \in Clients, NEW step, At(c, step), call[c].op = "query", Todo(c) > 1,
         NEW own \in Call, call' = [call EXCEPT ![c] = own],
         own.op = "query", own.left = Tail(call[c].left), own.wrote = {},
         own.shp \in Shipment, own.shp.id = Shp(c).id, ~own.shp.twice,
         own.clean => call[c].clean /\ ReadSoFar(own.shp, Todo(c) - 1, View(c)[Shp(c).id]),
         tx' \in {tx, [tx EXCEPT ![c] = "aborted"]}, tx'[c] = "none" => tx[c] = "none",
         UNCHANGED <<db, over, touched, cache, got, calls, suspect, failed>>,
         faults' \in 0..MaxFaults
  PROVE  StoreInv'
<1>1. /\ StoreTypes /\ CallInv(c) /\ CacheIsFresh
      /\ IsEndOf(Tail(call[c].left), Program[call[c].op])
      /\ Len(Tail(call[c].left)) = Todo(c) - 1
  <2>1. StoreTypes /\ CallInv(c) /\ CacheIsFresh
    BY DEF StoreInv
  <2>2. QED
    BY <2>1, NextStep
<1>2. call'[c] = own /\ \A d \in Clients \ {c} : call'[d] = call[d] /\ tx'[d] = tx[d]
  BY <1>1 DEF StoreTypes
<1>3. StoreTypes'
  BY <1>1 DEF StoreTypes
<1>4. CallInv(c)'
  BY <1>1, <1>2 DEF CallInv, Shp
<1>5. View(c)' = View(c)
  BY DEF View
<1>6. FillInv(c)'
  <2>1. /\ call'[c].op = "query" /\ call'[c].op # "create" /\ call'[c].clean = own.clean
        /\ Shp(c)' = own.shp /\ own.shp.id = Shp(c).id
    BY <1>2 DEF Shp
  <2>2. Todo(c)' = Todo(c) - 1
    BY <1>1, <1>2 DEF Todo
  <2>3. QED
    BY <1>5, <2>1, <2>2, Zenon DEF FillInv
<1>7. \A i \in Ids, p \in Parts : ~Owes(c, i, p)
  BY DEF Owes
<1>8. call[c].wrote = {}
  BY <1>1 DEF CallInv
<1>9. CacheIsFresh'
  BY <1>1, <1>2, <1>8 DEF CacheIsFresh
<1>10. QED
  BY <1>2, <1>3, <1>4, <1>6, <1>7, <1>9, RestKeepsInv

(* The header is read first; no row, or a NULL in it, ends the query.      *)
LEMMA ReadHeaderKeepsInv ==
  ASSUME StoreInv, NEW c \in Clients, ReadHeader(c)
  PROVE  StoreInv'
<1> DEFINE s == Shp(c)
<1> DEFINE h == View(c)[s.id].header
<1> DEFINE own == [Step(c) EXCEPT !.shp.header = h]
<1>1. /\ At(c, "readHeader")
      /\ \/ /\ h # NoHeader /\ NoFault /\ call' = [call EXCEPT ![c] = own]
            /\ UNCHANGED <<db, tx, over, touched, cache, got, calls, suspect, failed>>
         \/ /\ Fail(c, FALSE) \/ Fail(c, TRUE)
            /\ UNCHANGED cache /\ (NoFault \/ Fault("db"))
  BY Zenon DEF ReadHeader
<1>2. /\ StoreTypes /\ CallInv(c) /\ s \in Shipment /\ s.id \in Ids
      /\ View(c) \in [Ids -> Stored] /\ Todo(c) \in Nat
  BY <1>1, AtStatement
<1>3. call[c].op = "query" /\ Todo(c) = 5 /\ Tail(call[c].left) \in Seq(Steps)
      /\ call[c].wrote = {} /\ ~s.twice /\ call[c] \in Call
  BY <1>1, <1>2, Positions, NextStep DEF CallInv, StoreTypes
<1>4. CASE /\ h # NoHeader /\ NoFault /\ call' = [call EXCEPT ![c] = own]
           /\ UNCHANGED <<db, tx, over, touched, cache, got, calls, suspect, failed>>
  <2>1. h \in Headers \cup {NoHeader}
    BY <1>2, StoredParts
  <2>2. own = [[call[c] EXCEPT !.left = Tail(call[c].left)] EXCEPT !.shp = [s EXCEPT !.header = h]]
    BY Zenon DEF Step, Shp
  <2> DEFINE t == [s EXCEPT !.header = h]
  <2>3. t \in Shipment /\ t.header = h /\ t.id = s.id /\ t.twice = s.twice
    BY <1>2, <2>1, ShipmentParts
  <2> HIDE DEF own, t, h
  <2>4. /\ own \in Call /\ own.op = "query" /\ own.left = Tail(call[c].left)
        /\ own.wrote = {} /\ own.shp = t /\ own.clean = call[c].clean
    BY <1>3, <2>2, <2>3 DEF Call, t
  <2>5. ReadSoFar(t, 4, View(c)[s.id])
    BY <2>3 DEF ReadSoFar, Turn, Parts, h
  <2>6. faults' \in 0..MaxFaults
    BY <1>2, <1>4 DEF NoFault, StoreTypes
  <2>7. own.clean => call[c].clean /\ ReadSoFar(own.shp, Todo(c) - 1, View(c)[Shp(c).id])
    BY <1>3, <2>4, <2>5
  <2>8. own.shp \in Shipment /\ own.shp.id = Shp(c).id /\ ~own.shp.twice /\ Todo(c) > 1
    BY <1>3, <2>3, <2>4
  <2>9. tx' \in {tx, [tx EXCEPT ![c] = "aborted"]} /\ (tx'[c] = "none" => tx[c] = "none")
    BY <1>4
  <2>10. QED
    BY <1>1, <1>3, <1>4, <2>4, <2>6, <2>7, <2>8, <2>9, ReadOnKeepsInv
<1>5. CASE /\ Fail(c, FALSE) \/ Fail(c, TRUE)
           /\ UNCHANGED cache /\ (NoFault \/ Fault("db"))
  BY <1>1, <1>5, RefusedKeepsInv DEF FaultKinds
<1>6. QED
  BY <1>1, <1>4, <1>5

(* A SELECT returns all rows of a part, or loses some and is not clean.    *)
LEMMA ReadRowsKeepsInv ==
  ASSUME StoreInv, NEW c \in Clients, NEW step \in Selects, ReadRows(c, step)
  PROVE  StoreInv'
<1> DEFINE s == Shp(c)
<1> DEFINE part == Part(step)
<1> DEFINE all == ToBus(s.id, View(c)[s.id][part])
<1> DEFINE read == [Step(c) EXCEPT !.shp[part] = all]
<1> DEFINE lost(some) == [Step(c) EXCEPT !.shp[part] = some, !.clean = FALSE]
<1>1. /\ At(c, step)
      /\ \/ /\ NoFault /\ call' = [call EXCEPT ![c] = read]
            /\ UNCHANGED <<db, tx, over, touched, cache, got, calls, suspect, failed>>
         \/ /\ tx[c] # "aborted" /\ Fault("rows")
            /\ \E some \in SUBSET all \ {all} : call' = [call EXCEPT ![c] = lost(some)]
            /\ tx' = [tx EXCEPT ![c] = IF @ = "open" THEN "aborted" ELSE @]
            /\ UNCHANGED <<db, over, touched, cache, got, calls, suspect, failed>>
         \/ Fail(c, TRUE) /\ UNCHANGED cache /\ (NoFault \/ Fault("db"))
  BY Zenon DEF ReadRows
<1>2. /\ StoreTypes /\ CallInv(c) /\ FillInv(c) /\ s \in Shipment /\ s.id \in Ids
      /\ View(c) \in [Ids -> Stored] /\ Todo(c) \in Nat
  BY <1>1, AtStatement
<1>3. /\ call[c].op = "query" /\ Todo(c) = Turn[part] /\ Tail(call[c].left) \in Seq(Steps)
      /\ call[c].wrote = {} /\ ~s.twice /\ call[c] \in Call /\ part \in Parts
  BY <1>1, <1>2, Positions, NextStep, PartOfStep DEF CallInv, StoreTypes, Selects, Parts
<1> HIDE DEF part
<1>4. Todo(c) \in 2..4
  BY <1>3 DEF Turn, Parts
<1>5. all \in SUBSET (Ids \X Keys)
  BY <1>2, <1>3, StoredParts, BusOf
<1>6. CASE /\ NoFault /\ call' = [call EXCEPT ![c] = read]
           /\ UNCHANGED <<db, tx, over, touched, cache, got, calls, suspect, failed>>
  <2> DEFINE t == [s EXCEPT ![part] = all]
  <2>1. read = [[call[c] EXCEPT !.left = Tail(call[c].left)] EXCEPT !.shp = t]
    BY Zenon DEF Step, Shp
  <2>2. /\ t \in Shipment /\ t.header = s.header /\ t.id = s.id /\ t.twice = s.twice
        /\ \A q \in Parts : t[q] = IF q = part THEN all ELSE s[q]
    BY <1>2, <1>3, <1>5 DEF Shipment, Parts
  <2> HIDE DEF read, t
  <2>3. /\ read \in Call /\ read.op = "query" /\ read.left = Tail(call[c].left)
        /\ read.wrote = {} /\ read.shp = t /\ read.clean = call[c].clean
    BY <1>3, <2>1, <2>2 DEF Call
  <2>4. ASSUME call[c].clean PROVE ReadSoFar(t, Todo(c) - 1, View(c)[s.id])
    <3>1. /\ s.header = View(c)[s.id].header
          /\ \A p \in Parts : Todo(c) < Turn[p] => s[p] = ToBus(s.id, View(c)[s.id][p])
      BY <1>2, <1>3, <1>4, <2>4 DEF FillInv, ReadSoFar
    <3>2. ASSUME NEW p \in Parts, Todo(c) - 1 < Turn[p]
          PROVE  t[p] = ToBus(t.id, View(c)[s.id][p])
      <4>1. CASE p = part
        BY <2>2, <4>1
      <4>2. CASE p # part
        <5>1. Todo(c) < Turn[p]
          BY <1>3, <1>4, <3>2, <4>2 DEF Turn, Parts
        <5>2. QED
          BY <2>2, <3>1, <4>2, <5>1
      <4>3. QED
        BY <4>1, <4>2
    <3>3. QED
      BY <2>2, <3>1, <3>2 DEF ReadSoFar
  <2>5. faults' \in 0..MaxFaults
    BY <1>2, <1>6 DEF NoFault, StoreTypes
  <2>6. read.clean => call[c].clean /\ ReadSoFar(read.shp, Todo(c) - 1, View(c)[Shp(c).id])
    BY <2>3, <2>4
  <2>7. read.shp \in Shipment /\ read.shp.id = Shp(c).id /\ ~read.shp.twice /\ Todo(c) > 1
    BY <1>3, <1>4, <2>2, <2>3
  <2>8. tx' \in {tx, [tx EXCEPT ![c] = "aborted"]} /\ (tx'[c] = "none" => tx[c] = "none")
    BY <1>6
  <2>9. QED
    BY <1>1, <1>3, <1>6, <2>3, <2>5, <2>6, <2>7, <2>8, ReadOnKeepsInv
<1>7. CASE /\ tx[c] # "aborted" /\ Fault("rows")
           /\ \E some \in SUBSET all \ {all} : call' = [call EXCEPT ![c] = lost(some)]
           /\ tx' = [tx EXCEPT ![c] = IF @ = "open" THEN "aborted" ELSE @]
           /\ UNCHANGED <<db, over, touched, cache, got, calls, suspect, failed>>
  <2>1. PICK some \in SUBSET all : call' = [call EXCEPT ![c] = lost(some)]
    BY <1>7, Zenon
  <2> DEFINE t == [s EXCEPT ![part] = some]
  <2> DEFINE own == lost(some)
  <2>2. own = [[[call[c] EXCEPT !.left = Tail(call[c].left)] EXCEPT !.shp = t]
                 EXCEPT !.clean = FALSE]
    BY Zenon DEF Step, Shp
  <2>3. some \in SUBSET (Ids \X Keys)
    BY <1>5
  <2>4. t \in Shipment /\ t.id = s.id /\ t.twice = s.twice
    BY <1>2, <1>3, <2>3 DEF Shipment, Parts
  <2>5. call' = [call EXCEPT ![c] = own]
    BY <2>1, Zenon
  <2> HIDE DEF own, t, lost
  <2>6. /\ own \in Call /\ own.op = "query" /\ own.left = Tail(call[c].left)
        /\ own.wrote = {} /\ own.shp = t /\ ~own.clean
    BY <1>3, <2>2, <2>4 DEF Call
  <2>7. faults' \in 0..MaxFaults
    BY <1>2, <1>7, StoreAssumption DEF Fault, StoreTypes
  <2>8. own.shp \in Shipment /\ own.shp.id = Shp(c).id /\ ~own.shp.twice /\ Todo(c) > 1
    BY <1>3, <1>4, <2>4, <2>6
  <2>9. tx' \in {tx, [tx EXCEPT ![c] = "aborted"]} /\ (tx'[c] = "none" => tx[c] = "none")
    BY <1>2, <1>7 DEF StoreTypes
  <2>10. QED
    BY <1>1, <1>3, <1>7, <2>5, <2>6, <2>7, <2>8, <2>9, ReadOnKeepsInv
<1>8. CASE Fail(c, TRUE) /\ UNCHANGED cache /\ (NoFault \/ Fault("db"))
  BY <1>1, <1>8, RefusedKeepsInv DEF FaultKinds
<1>9. QED
  BY <1>1, <1>6, <1>7, <1>8

-----------------------------------------------------------------------------
(* The steps on the cache. *)

(* A call that owes nothing may return.                                    *)
LEMMA ReturnKeepsInv ==
  ASSUME StoreInv, NEW c \in Clients, NEW shp \in Shipment \cup {NoShipment}, Return(c, shp),
         cache' \in [Ids -> Shipment \cup {NoShipment}], suspect' \in SUBSET Ids,
         faults' \in 0..MaxFaults,
         \A i \in Ids, p \in Parts : ~Owes(c, i, p),
         CacheIsFresh'
  PROVE  StoreInv'
<1>1. StoreTypes /\ CallInv(c)
  BY DEF StoreInv
<1>2. /\ call' = [call EXCEPT ![c] = Idle] /\ got' = [got EXCEPT ![c] = shp]
      /\ UNCHANGED <<db, tx, over, touched, calls, failed>>
  BY DEF Return
<1>3. Idle \in Call
  BY DEF Idle, Call
<1>4. call'[c] = Idle /\ \A d \in Clients \ {c} : call'[d] = call[d]
  BY <1>1, <1>2 DEF StoreTypes
<1>5. CallInv(c)' /\ FillInv(c)'
  BY <1>1, <1>2, <1>4, IdleInv DEF CallInv
<1>6. StoreTypes'
  BY <1>1, <1>2, <1>3 DEF StoreTypes
<1>7. QED
  BY <1>2, <1>4, <1>5, <1>6, RestKeepsInv

(* What a call not disturbed puts in the cache is what it sees.            *)
LEMMA FilledIsRead ==
  ASSUME StoreInv, NEW c \in Clients, At(c, "fill"), call[c].clean
  PROVE  Shp(c) = AsRead(Shp(c).id, View(c)[Shp(c).id])
<1> DEFINE s == Shp(c)
<1> DEFINE v == View(c)[s.id]
<1>1. /\ StoreTypes /\ CallInv(c) /\ FillInv(c) /\ s \in Shipment /\ s.id \in Ids
      /\ v \in Stored
  BY AtStatement
<1>2. call[c].op \in {"create", "query"} /\ Todo(c) = 1
  BY <1>1, Positions
<1>3. \A p \in Parts : 1 < Turn[p]
  BY DEF Turn, Parts
<1>4. s.header = v.header /\ ~s.twice /\ \A p \in Parts : s[p] = ToBus(s.id, v[p])
  <2>1. CASE call[c].op = "create"
    <3>1. Whole(s)
      BY <1>1, <1>2, <2>1 DEF CallInv
    <3>2. v.header = s.header /\ \A p \in Parts : v[p] = Of(s[p], s.id)
      BY <1>1, <1>2, <1>3, <2>1 DEF FillInv, Inserted
    <3>3. ASSUME NEW p \in Parts PROVE ToBus(s.id, Of(s[p], s.id)) = s[p]
      <4>1. Owners(s[p]) \subseteq {s.id}
        BY <3>1 DEF Whole, Owners, Parts
      <4>2. s[p] \in SUBSET (Ids \X Keys)
        BY <1>1, ShipmentParts
      <4>3. QED
        BY <1>1, <4>1, <4>2, RowsOf
    <3>4. QED
      BY <3>1, <3>2, <3>3 DEF Whole
  <2>2. CASE call[c].op = "query"
    BY <1>1, <1>2, <1>3, <2>2 DEF FillInv, ReadSoFar, CallInv
  <2>3. QED
    BY <1>2, <2>1, <2>2
<1> HIDE DEF v
<1>5. s.twice = FALSE
  BY <1>1, <1>4, ShipmentParts
<1>6. s = AsRead(s.id, v)
  BY <1>1, <1>4, <1>5 DEF AsRead, Shipment, Parts
<1>7. QED
  BY <1>6 DEF v

(* A call at its fill owes nothing, and has written what a Create writes.  *)
LEMMA FillOwesNothing ==
  ASSUME StoreInv, NEW c \in Clients, At(c, "fill")
  PROVE  /\ \A i \in Ids, p \in Parts : ~Owes(c, i, p)
         /\ call[c].op \in {"create", "query"}
         /\ call[c].op = "create" => Shp(c).id \in call[c].wrote
         /\ call[c].op = "query" => call[c].wrote = {}
<1>1. StoreTypes /\ CallInv(c)
  BY DEF StoreInv
<1>2. call[c].op \in {"create", "query"} /\ Todo(c) = 1
  BY <1>1, Positions
<1>3. \A p \in Parts : ~(1 >= Turn[p])
  BY DEF Turn, Parts
<1>4. QED
  BY <1>1, <1>2, <1>3 DEF Owes, CallInv

(* Create and a query fill the cache, and may not be told whether they did. *)
LEMMA FillKeepsInv ==
  ASSUME StoreInv, NEW c \in Clients, Fill(c)
  PROVE  StoreInv'
<1> DEFINE s == Shp(c)
<1> DEFINE new == [cache EXCEPT ![s.id] = s]
<1>1. /\ At(c, "fill")
      /\ \/ NoFault /\ cache' = new /\ Return(c, s) /\ Settle(c, call[c].clean)
         \/ /\ Fault("redis") /\ cache' \in {cache, new} /\ call[c].op = "query"
            /\ Return(c, s) /\ suspect' = suspect \cup {s.id}
         \/ /\ Fault("redis") /\ cache' \in {cache, new} /\ call[c].op # "query"
            /\ Fail(c, FALSE)
  BY DEF Fill
<1>2. /\ StoreTypes /\ s \in Shipment /\ s.id \in Ids /\ View(c) \in [Ids -> Stored]
      /\ call[c].wrote \subseteq Ids /\ CacheIsFresh
  BY <1>1, AtStatement DEF StoreInv, StoreTypes, Call
<1>3. /\ \A i \in Ids, p \in Parts : ~Owes(c, i, p)
      /\ call[c].op \in {"create", "query"}
      /\ call[c].op = "create" => s.id \in call[c].wrote
      /\ call[c].op = "query" => call[c].wrote = {}
  BY <1>1, FillOwesNothing
<1>4. faults' \in 0..MaxFaults
  <2>1. NoFault \/ Fault("redis")
    BY <1>1
  <2>2. QED
    BY <1>2, <2>1, StoreAssumption DEF StoreTypes, NoFault, Fault
<1>5. /\ new \in [Ids -> Shipment \cup {NoShipment}] /\ new[s.id] = s
      /\ \A i \in Ids \ {s.id} : new[i] = cache[i]
  BY <1>2 DEF StoreTypes
<1> HIDE DEF new
<1>6. cache' \in [Ids -> Shipment \cup {NoShipment}] /\ \A i \in Ids \ {s.id} : cache'[i] = cache[i]
  BY <1>1, <1>2, <1>5 DEF StoreTypes
<1>7. Return(c, s) => /\ db' = db /\ touched' = touched
                      /\ \A d \in Clients \ {c} : call'[d] = call[d]
  BY <1>2 DEF Return, StoreTypes
<1>8. CASE NoFault /\ cache' = new /\ Return(c, s) /\ Settle(c, call[c].clean)
  <2>1. CASE call[c].clean /\ s.id \notin touched[c]
    <3>1. suspect' = (suspect \ {s.id}) \cup (call[c].wrote \ {s.id})
      BY <1>8, <2>1 DEF Settle
    <3>2. s = AsRead(s.id, db[s.id])
      BY <1>1, <1>2, <2>1, FilledIsRead, Seen
    <3>3. CacheIsFresh'
      BY <1>2, <1>5, <1>7, <1>8, <3>1, <3>2 DEF CacheIsFresh
    <3>4. suspect' \in SUBSET Ids
      BY <1>2, <3>1 DEF StoreTypes
    <3>5. QED
      BY <1>2, <1>3, <1>4, <1>6, <1>8, <3>3, <3>4, ReturnKeepsInv
  <2>2. CASE ~(call[c].clean /\ s.id \notin touched[c])
    <3>1. suspect' = suspect \cup call[c].wrote \cup {s.id}
      BY <1>8, <2>2 DEF Settle
    <3>2. CacheIsFresh'
      BY <1>2, <1>5, <1>7, <1>8, <3>1 DEF CacheIsFresh
    <3>3. suspect' \in SUBSET Ids
      BY <1>2, <3>1 DEF StoreTypes
    <3>4. QED
      BY <1>2, <1>3, <1>4, <1>6, <1>8, <3>2, <3>3, ReturnKeepsInv
  <2>3. QED
    BY <2>1, <2>2
<1>9. CASE /\ Fault("redis") /\ cache' \in {cache, new} /\ call[c].op = "query"
           /\ Return(c, s) /\ suspect' = suspect \cup {s.id}
  <2>1. CacheIsFresh'
    BY <1>2, <1>3, <1>6, <1>7, <1>9 DEF CacheIsFresh
  <2>2. suspect' \in SUBSET Ids
    BY <1>2, <1>9 DEF StoreTypes
  <2>3. QED
    BY <1>2, <1>3, <1>4, <1>6, <1>9, <2>1, <2>2, ReturnKeepsInv
<1>10. CASE /\ Fault("redis") /\ cache' \in {cache, new} /\ call[c].op # "query"
            /\ Fail(c, FALSE)
  BY <1>1, <1>3, <1>4, <1>6, <1>10, FailKeepsInv
<1>11. QED
  BY <1>1, <1>8, <1>9, <1>10

(* A Delete evicts what it deleted.                                        *)
LEMMA EvictKeepsInv ==
  ASSUME StoreInv, NEW c \in Clients, Evict(c)
  PROVE  StoreInv'
<1> DEFINE s == Shp(c)
<1> DEFINE new == [cache EXCEPT ![s.id] = NoShipment]
<1>1. /\ At(c, "evict")
      /\ \/ NoFault /\ cache' = new /\ Return(c, got[c]) /\ Settle(c, TRUE)
         \/ Fault("redis") /\ cache' \in {cache, new} /\ Fail(c, FALSE)
  BY DEF Evict
<1>2. /\ StoreTypes /\ CallInv(c) /\ s \in Shipment /\ s.id \in Ids /\ CacheIsFresh
      /\ call[c].wrote \subseteq Ids
  BY <1>1, AtStatement DEF StoreInv, StoreTypes, Call
<1>3. \A i \in Ids, p \in Parts : ~Owes(c, i, p)
  BY <1>1, <1>2, Positions DEF Owes
<1>4. faults' \in 0..MaxFaults /\ got[c] \in Shipment \cup {NoShipment}
  <2>1. NoFault \/ Fault("redis")
    BY <1>1
  <2>2. QED
    BY <1>2, <2>1, StoreAssumption DEF StoreTypes, NoFault, Fault
<1>5. /\ new \in [Ids -> Shipment \cup {NoShipment}] /\ new[s.id] = NoShipment
      /\ \A i \in Ids \ {s.id} : new[i] = cache[i]
  BY <1>2 DEF StoreTypes
<1> HIDE DEF new
<1>6. /\ cache' \in [Ids -> Shipment \cup {NoShipment}]
      /\ \A i \in Ids : cache'[i] \in {cache[i], NoShipment}
  BY <1>1, <1>2, <1>5 DEF StoreTypes
<1>7. CASE NoFault /\ cache' = new /\ Return(c, got[c]) /\ Settle(c, TRUE)
  <2>1. suspect' \in {(suspect \ {s.id}) \cup (call[c].wrote \ {s.id}),
                      suspect \cup call[c].wrote \cup {s.id}}
    BY <1>7 DEF Settle
  <2>2. db' = db /\ touched' = touched /\ \A d \in Clients \ {c} : call'[d] = call[d]
    BY <1>2, <1>7 DEF Return, StoreTypes
  <2>3. CacheIsFresh'
    BY <1>2, <1>5, <1>7, <2>1, <2>2 DEF CacheIsFresh
  <2>4. suspect' \in SUBSET Ids
    BY <1>2, <2>1 DEF StoreTypes
  <2>5. QED
    BY <1>3, <1>4, <1>6, <1>7, <2>3, <2>4, ReturnKeepsInv
<1>8. CASE Fault("redis") /\ cache' \in {cache, new} /\ Fail(c, FALSE)
  BY <1>1, <1>4, <1>6, <1>8, FailKeepsInv
<1>9. QED
  BY <1>1, <1>7, <1>8

(* A query returns the entry it finds, or goes on to the tables.           *)
LEMMA ReadCacheKeepsInv ==
  ASSUME StoreInv, NEW c \in Clients, ReadCache(c)
  PROVE  StoreInv'
<1> DEFINE s == Shp(c)
<1>1. /\ At(c, "readCache") /\ UNCHANGED <<cache, suspect>>
      /\ \/ cache[s.id] # NoShipment /\ NoFault /\ Return(c, cache[s.id])
         \/ /\ NoFault \/ Fault("redis")
            /\ call' = [call EXCEPT ![c] = Step(c)]
            /\ UNCHANGED <<db, tx, over, touched, got, calls, failed>>
  BY DEF ReadCache
<1>2. /\ StoreTypes /\ CallInv(c) /\ s \in Shipment /\ s.id \in Ids /\ CacheIsFresh
      /\ Todo(c) \in Nat
  BY <1>1, AtStatement DEF StoreInv
<1>3. call[c].op = "query" /\ Todo(c) = 6 /\ Tail(call[c].left) \in Seq(Steps)
      /\ call[c].wrote = {} /\ ~s.twice /\ call[c] \in Call
  BY <1>1, <1>2, Positions, NextStep DEF CallInv, StoreTypes
<1>4. NoFault \/ Fault("redis") => faults' \in 0..MaxFaults
  BY <1>2, StoreAssumption DEF StoreTypes, NoFault, Fault
<1>5. CASE cache[s.id] # NoShipment /\ NoFault /\ Return(c, cache[s.id])
  <2>1. \A i \in Ids, p \in Parts : ~Owes(c, i, p)
    BY <1>3 DEF Owes
  <2>2. db' = db /\ touched' = touched /\ \A d \in Clients \ {c} : call'[d] = call[d]
    BY <1>2, <1>5 DEF Return, StoreTypes
  <2>3. CacheIsFresh'
    BY <1>1, <1>2, <1>3, <2>2 DEF CacheIsFresh
  <2>4. /\ cache' \in [Ids -> Shipment \cup {NoShipment}] /\ suspect' \in SUBSET Ids
        /\ cache[s.id] \in Shipment \cup {NoShipment}
    BY <1>1, <1>2 DEF StoreTypes
  <2>5. QED
    BY <1>4, <1>5, <2>1, <2>3, <2>4, ReturnKeepsInv
<1>6. CASE /\ NoFault \/ Fault("redis")
           /\ call' = [call EXCEPT ![c] = Step(c)]
           /\ UNCHANGED <<db, tx, over, touched, got, calls, failed>>
  <2> DEFINE own == Step(c)
  <2>1. /\ own \in Call /\ own.op = "query" /\ own.left = Tail(call[c].left)
        /\ own.wrote = {} /\ own.shp = s /\ own.clean = call[c].clean
    BY <1>3 DEF Call, Step, Shp
  <2> HIDE DEF own
  <2>2. ReadSoFar(s, 5, View(c)[s.id])
    BY DEF ReadSoFar, Turn, Parts
  <2>3. own.clean => call[c].clean /\ ReadSoFar(own.shp, Todo(c) - 1, View(c)[Shp(c).id])
    BY <1>3, <2>1, <2>2
  <2>4. own.shp \in Shipment /\ own.shp.id = Shp(c).id /\ ~own.shp.twice /\ Todo(c) > 1
    BY <1>2, <1>3, <2>1
  <2>5. tx' \in {tx, [tx EXCEPT ![c] = "aborted"]} /\ (tx'[c] = "none" => tx[c] = "none")
    BY <1>6
  <2>6. call' = [call EXCEPT ![c] = own]
    BY <1>6 DEF own
  <2>7. QED
    BY <1>1, <1>3, <1>4, <1>6, <2>1, <2>3, <2>4, <2>5, <2>6, ReadOnKeepsInv
<1>7. QED
  BY <1>1, <1>5, <1>6

(* A step that changes no call, transaction or table.                      *)
LEMMA QuietKeepsInv ==
  ASSUME StoreInv, UNCHANGED <<db, tx, over, touched, call, failed>>, StoreTypes', CacheIsFresh'
  PROVE  StoreInv'
<1>1. \A c \in Clients : CallInv(c)' /\ FillInv(c)' /\ Cascade(over[c])'
  BY DEF StoreInv, CallInv, FillInv, Cascade, Todo, Shp, View
<1>2. Cascade(db)' /\ Accounted' /\ \A c \in Clients : AccountedIn(c)'
  <2>1. /\ Cascade(db) /\ Accounted /\ \A c \in Clients : AccountedIn(c)
        /\ db' = db /\ tx' = tx /\ over' = over /\ touched' = touched /\ failed' = failed
    BY DEF StoreInv
  <2>2. \A d \in Clients : \A i, p : Owes(d, i, p)' <=> Owes(d, i, p)
    BY DEF Owes, Todo, Shp
  <2>3. Cascade(db)'
    BY <2>1 DEF Cascade
  <2>4. Accounted'
    BY <2>1, <2>2 DEF Accounted, Missing
  <2>5. \A c \in Clients : AccountedIn(c)'
    BY <2>1, <2>2 DEF AccountedIn, Missing
  <2>6. QED
    BY <2>3, <2>4, <2>5
<1>3. QED
  BY <1>1, <1>2 DEF StoreInv

(* An entry that expires is not stale.                                     *)
LEMMA ExpireKeepsInv ==
  ASSUME StoreInv, NEW id \in Ids, Expire(id)
  PROVE  StoreInv'
<1>1. StoreTypes /\ CacheIsFresh
  BY DEF StoreInv
<1>2. /\ cache' = [cache EXCEPT ![id] = NoShipment] /\ suspect' = suspect \ {id}
      /\ UNCHANGED <<db, tx, over, touched, call, got, calls, failed>>
      /\ faults' \in 0..MaxFaults
  BY <1>1, StoreAssumption DEF Expire, Fault, StoreTypes
<1>3. StoreTypes'
  BY <1>1, <1>2 DEF StoreTypes
<1>4. CacheIsFresh'
  BY <1>1, <1>2 DEF CacheIsFresh, StoreTypes
<1>5. QED
  BY <1>2, <1>3, <1>4, QuietKeepsInv

-----------------------------------------------------------------------------
(* Transactions. *)

(* Outside a call nothing is written and nothing owed.                     *)
LEMMA IdleOwesNothing ==
  ASSUME NEW c \in Clients, call[c] = Idle
  PROVE  call[c].wrote = {} /\ \A i \in Ids, p \in Parts : ~Owes(c, i, p)
BY DEF Idle, Owes

(* A transaction that ends without a commit leaves the tables alone.       *)
LEMMA AbandonKeepsInv ==
  ASSUME StoreInv, NEW c \in Clients, EndTx(c), call' = [call EXCEPT ![c] = Idle],
         UNCHANGED <<db, cache, calls>>, got' \in [Clients -> Shipment \cup {NoShipment}],
         suspect \cup call[c].wrote \cup touched[c] \subseteq suspect', suspect' \subseteq Ids,
         failed \cup call[c].wrote \subseteq failed', failed' \subseteq Ids,
         faults' \in 0..MaxFaults
  PROVE  StoreInv'
<1>1. StoreTypes /\ CacheIsFresh
  BY DEF StoreInv
<1>2. Nothing \in [Ids -> Stored] /\ Idle \in Call
  BY AbsentParts DEF Nothing, Idle, Call
<1>3. /\ tx' = [tx EXCEPT ![c] = "none"] /\ over' = [over EXCEPT ![c] = Nothing]
      /\ touched' = [touched EXCEPT ![c] = {}]
  BY DEF EndTx
<1>4. StoreTypes'
  BY <1>1, <1>2, <1>3 DEF StoreTypes
<1>5. /\ call'[c] = Idle /\ over'[c] = Nothing /\ touched'[c] = {} /\ tx'[c] = "none"
      /\ \A d \in Clients \ {c} : /\ call'[d] = call[d] /\ tx'[d] = tx[d]
                                  /\ over'[d] = over[d] /\ touched'[d] = touched[d]
  BY <1>1, <1>3 DEF StoreTypes
<1>6. CallInv(c)' /\ FillInv(c)'
  BY <1>5, IdleInv
<1>7. \A i \in Ids, p \in Parts : Owes(c, i, p) => i \in failed'
  BY DEF Owes
<1>8. CacheIsFresh'
  BY <1>1, <1>5 DEF CacheIsFresh
<1>9. QED
  BY <1>4, <1>5, <1>6, <1>7, <1>8, RestKeepsInv

(* A commit shows what the transaction left, all at once.                  *)
LEMMA PublishKeepsInv ==
  ASSUME StoreInv, NEW c \in Clients, Publish(c, Idle), EndTx(c),
         UNCHANGED <<cache, got, calls>>, call[c].wrote \subseteq touched[c],
         \A i \in Ids, p \in Parts : ~Owes(c, i, p),
         suspect \cup touched[c] \subseteq suspect', suspect' \subseteq Ids,
         failed \subseteq failed', failed' \subseteq Ids, faults' \in 0..MaxFaults
  PROVE  StoreInv'
<1>1. /\ StoreTypes /\ Cascade(db) /\ Accounted /\ CacheIsFresh
      /\ \A d \in Clients : CallInv(d) /\ FillInv(d) /\ Cascade(over[d]) /\ AccountedIn(d)
  BY DEF StoreInv
<1>2. /\ View(c) \in [Ids -> Stored] /\ Cascade(View(c))
      /\ \A i \in Ids : View(c)[i] = IF i \in touched[c] THEN over[c][i] ELSE db[i]
  BY <1>1, Seen
<1>3. Nothing \in [Ids -> Stored] /\ Cascade(Nothing) /\ Idle \in Call
  BY AbsentParts DEF Nothing, Cascade, Idle, Call
<1>4. /\ tx' = [tx EXCEPT ![c] = "none"] /\ over' = [over EXCEPT ![c] = Nothing]
      /\ touched' = [touched EXCEPT ![c] = {}] /\ db' = View(c)
      /\ call' = CallsAfter(c, Idle, touched[c])
  BY DEF EndTx, Publish
<1>5. /\ call' \in [Clients -> Call] /\ call'[c] = Idle
      /\ \A d \in Clients \ {c} :
           /\ Undisturbed(d)
           /\ call[d].op # "none" /\ Shp(d).id \in touched[c] => ~call'[d].clean
  BY <1>1, <1>3, <1>4, OtherCalls
<1>6. StoreTypes'
  BY <1>1, <1>2, <1>3, <1>4, <1>5 DEF StoreTypes
<1>7. /\ over'[c] = Nothing /\ touched'[c] = {} /\ tx'[c] = "none"
      /\ \A d \in Clients \ {c} : /\ tx'[d] = tx[d] /\ over'[d] = over[d]
                                  /\ touched'[d] = touched[d]
  BY <1>1, <1>4 DEF StoreTypes
<1>8. CallInv(c)' /\ FillInv(c)' /\ Cascade(over[c])' /\ AccountedIn(c)' /\ Cascade(db)'
  <2>1. CallInv(c)' /\ FillInv(c)'
    BY <1>5, <1>7, IdleInv
  <2>2. Cascade(over[c])' /\ Cascade(db)'
    BY <1>2, <1>3, <1>4, <1>7 DEF Cascade
  <2>3. AccountedIn(c)'
    BY <1>7 DEF AccountedIn
  <2>4. QED
    BY <2>1, <2>2, <2>3
<1>9. \A d \in Clients \ {c} : /\ CallInv(d)' /\ FillInv(d)' /\ Cascade(over[d])'
                               /\ \A i \in Ids, p \in Parts : Owes(d, i, p)' <=> Owes(d, i, p)
  <2> SUFFICES ASSUME NEW d \in Clients \ {c}
               PROVE  /\ CallInv(d)' /\ FillInv(d)' /\ Cascade(over[d])'
                      /\ \A i \in Ids, p \in Parts : Owes(d, i, p)' <=> Owes(d, i, p)
    OBVIOUS
  <2>1. call'[d].clean /\ call[d].op # "none" => db'[Shp(d).id] = db[Shp(d).id]
    <3> SUFFICES ASSUME call'[d].clean, call[d].op # "none"
                 PROVE  db'[Shp(d).id] = db[Shp(d).id]
      OBVIOUS
    <3>1. Shp(d).id \in Ids
      BY <1>1, ShipmentParts DEF CallInv
    <3>2. QED
      BY <1>2, <1>4, <1>5, <3>1
  <2>2. db' \in [Ids -> Stored]
    BY <1>2, <1>4
  <2>3. QED
    BY <1>1, <1>5, <1>7, <2>1, <2>2, OthersKeepInv DEF Cascade
<1>10. Accounted'
  <2> SUFFICES ASSUME NEW i \in Ids, NEW p \in Parts, Missing(View(c), i, p), i \notin failed'
               PROVE  \E d \in Clients : tx'[d] = "none" /\ Owes(d, i, p)'
    BY <1>4 DEF Accounted, Missing
  <2>1. \E d \in Clients : (d = c \/ tx[d] = "none") /\ Owes(d, i, p)
    BY <1>1, <1>2 DEF Accounted, AccountedIn, Missing
  <2>2. QED
    BY <1>7, <1>9, <2>1
<1>11. \A d \in Clients \ {c} : AccountedIn(d)'
  <2> SUFFICES ASSUME NEW d \in Clients \ {c}, NEW i \in touched[d], NEW p \in Parts,
                      Missing(over[d], i, p), i \notin failed'
               PROVE  \E e \in Clients : (e = d \/ tx'[e] = "none") /\ Owes(e, i, p)'
    BY <1>7 DEF AccountedIn, Missing
  <2>1. i \in Ids
    BY <1>1 DEF StoreTypes
  <2>2. PICK e \in Clients : (e = d \/ tx[e] = "none") /\ Owes(e, i, p)
    BY <1>1 DEF AccountedIn
  <2>3. QED
    BY <1>7, <1>9, <2>1, <2>2
<1>12. CacheIsFresh'
  BY <1>1, <1>2, <1>4, <1>5, <1>7 DEF CacheIsFresh, Undisturbed
<1>13. QED
  BY <1>6, <1>8, <1>9, <1>10, <1>11, <1>12 DEF StoreInv

(* A client begins a transaction.                                          *)
LEMMA BeginKeepsInv ==
  ASSUME StoreInv, NEW c \in Clients, Begin(c)
  PROVE  StoreInv'
<1>1. /\ StoreTypes /\ CallInv(c) /\ FillInv(c) /\ CacheIsFresh /\ call[c] = Idle
      /\ tx' = [tx EXCEPT ![c] = "open"]
      /\ UNCHANGED <<db, over, touched, cache, call, got, calls, suspect, failed, faults>>
  BY DEF StoreInv, Begin
<1>2. /\ StoreTypes' /\ tx'[c] = "open" /\ \A d \in Clients \ {c} : tx'[d] = tx[d]
      /\ call'[c] = Idle
  BY <1>1 DEF StoreTypes
<1>3. CallInv(c)' /\ FillInv(c)'
  BY <1>2, IdleInv
<1>4. \A i \in Ids, p \in Parts : ~Owes(c, i, p)
  BY <1>1, IdleOwesNothing
<1>5. CacheIsFresh'
  BY <1>1 DEF CacheIsFresh
<1>6. QED
  BY <1>1, <1>2, <1>3, <1>4, <1>5, RestKeepsInv

(* A Commit is answered, or it happened, or it did not.                    *)
LEMMA CommitKeepsInv ==
  ASSUME StoreInv, NEW c \in Clients, Commit(c)
  PROVE  StoreInv'
<1>1. /\ StoreTypes /\ call[c] = Idle /\ EndTx(c) /\ suspect' = suspect \cup touched[c]
      /\ UNCHANGED <<cache, got, calls, failed>> /\ (NoFault \/ Fault("db"))
      /\ Publish(c, Idle) \/ UNCHANGED <<db, call>>
  BY DEF StoreInv, Commit
<1>2. call[c].wrote = {} /\ \A i \in Ids, p \in Parts : ~Owes(c, i, p)
  BY <1>1, IdleOwesNothing
<1>3. faults' \in 0..MaxFaults
  BY <1>1, StoreAssumption DEF StoreTypes, NoFault, Fault
<1>4. suspect' \subseteq Ids /\ failed' \subseteq Ids /\ got' \in [Clients -> Shipment \cup {NoShipment}]
  BY <1>1 DEF StoreTypes
<1>5. CASE Publish(c, Idle)
  BY <1>1, <1>2, <1>3, <1>4, <1>5, PublishKeepsInv
<1>6. CASE UNCHANGED <<db, call>>
  <2>1. call' = [call EXCEPT ![c] = Idle]
    BY <1>1, <1>6 DEF StoreTypes
  <2>2. QED
    BY <1>1, <1>2, <1>3, <1>4, <1>6, <2>1, AbandonKeepsInv
<1>7. QED
  BY <1>1, <1>5, <1>6

(* A Rollback forgets what the transaction wrote.                          *)
LEMMA RollbackKeepsInv ==
  ASSUME StoreInv, NEW c \in Clients, Rollback(c)
  PROVE  StoreInv'
<1>1. /\ StoreTypes /\ call[c] = Idle /\ EndTx(c) /\ suspect' = suspect \cup touched[c]
      /\ UNCHANGED <<db, cache, call, got, calls, failed, faults>>
  BY DEF StoreInv, Rollback
<1>2. call[c].wrote = {}
  BY <1>1, IdleOwesNothing
<1>3. /\ suspect' \subseteq Ids /\ failed' \subseteq Ids /\ faults' \in 0..MaxFaults
      /\ got' \in [Clients -> Shipment \cup {NoShipment}]
      /\ call' = [call EXCEPT ![c] = Idle]
  BY <1>1 DEF StoreTypes
<1>4. QED
  BY <1>1, <1>2, <1>3, AbandonKeepsInv

(* A crash is a rollback in the middle of a call.                          *)
LEMMA CrashKeepsInv ==
  ASSUME StoreInv, NEW c \in Clients, Crash(c)
  PROVE  StoreInv'
<1>1. /\ StoreTypes /\ EndTx(c) /\ Fault("crash") /\ call' = [call EXCEPT ![c] = Idle]
      /\ got' = [got EXCEPT ![c] = NoShipment]
      /\ suspect' = suspect \cup call[c].wrote \cup touched[c]
      /\ failed' = failed \cup call[c].wrote \cup touched[c]
      /\ UNCHANGED <<db, cache, calls>>
  BY DEF StoreInv, Crash, Blame
<1>2. call[c].wrote \subseteq Ids /\ touched[c] \subseteq Ids
  BY <1>1 DEF StoreTypes, Call
<1>3. faults' \in 0..MaxFaults
  BY <1>1, StoreAssumption DEF StoreTypes, Fault
<1>4. /\ suspect' \subseteq Ids /\ failed' \subseteq Ids
      /\ got' \in [Clients -> Shipment \cup {NoShipment}]
  BY <1>1, <1>2 DEF StoreTypes
<1>5. QED
  BY <1>1, <1>3, <1>4, AbandonKeepsInv

-----------------------------------------------------------------------------
(* Seed. *)

(* A step of Seed before its first statement.                              *)
LEMMA SeedOnKeepsInv ==
  ASSUME StoreInv, NEW c \in Clients, NEW step, At(c, step), call[c].op = "seed", Todo(c) \in 3..4,
         call' = [call EXCEPT ![c] = Step(c)],
         tx' = IF Todo(c) = 3 THEN [tx EXCEPT ![c] = "open"] ELSE tx,
         UNCHANGED <<db, over, touched, cache, got, calls, suspect, failed, faults>>
  PROVE  StoreInv'
<1>1. /\ StoreTypes /\ CallInv(c) /\ CacheIsFresh /\ call[c] \in Call
      /\ Tail(call[c].left) \in Seq(Steps) /\ Len(Tail(call[c].left)) = Todo(c) - 1
      /\ IsEndOf(Tail(call[c].left), Program[call[c].op])
  <2>1. StoreTypes /\ CallInv(c) /\ CacheIsFresh
    BY DEF StoreInv
  <2>2. Todo(c) > 1
    OBVIOUS
  <2>3. QED
    BY <2>1, <2>2, NextStep DEF StoreTypes
<1> DEFINE own == Step(c)
<1>2. /\ own \in Call /\ own.op = "seed" /\ own.left = Tail(call[c].left)
      /\ own.wrote = call[c].wrote /\ own.shp = Shp(c) /\ own.clean = call[c].clean
  BY <1>1 DEF Call, Step, Shp
<1>3. call' = [call EXCEPT ![c] = own]
  OBVIOUS
<1> HIDE DEF own
<1>4. /\ call'[c] = own /\ StoreTypes'
      /\ \A d \in Clients \ {c} : call'[d] = call[d] /\ tx'[d] = tx[d]
      /\ tx'[c] = IF Todo(c) = 3 THEN "open" ELSE tx[c]
  BY <1>1, <1>2, <1>3 DEF StoreTypes
<1>5. CallInv(c)'
  <2>1. /\ Shp(c) \in Shipment /\ Shp(c) = Seeded /\ call[c].wrote = touched[c]
        /\ tx[c] = "none" => touched[c] = {}
    BY <1>1 DEF CallInv
  <2>2. Todo(c)' = Todo(c) - 1 /\ Shp(c)' = Shp(c) /\ (Todo(c) = 4 => tx[c] = "none")
    <3>1. Todo(c)' = Todo(c) - 1 /\ Shp(c)' = Shp(c)
      BY <1>1, <1>2, <1>4 DEF Todo, Shp
    <3>2. Todo(c) >= 3 => tx[c] = "none"
      BY <1>1 DEF CallInv
    <3>3. QED
      BY <3>1, <3>2
  <2>3. call'[c].op = "seed" /\ call'[c].wrote = touched'[c] /\ call'[c].left = Tail(call[c].left)
    BY <1>2, <1>4, <2>1
  <2>4. /\ Todo(c)' <= 2 => tx'[c] = "open"
        /\ Todo(c)' >= 3 => tx'[c] = "none"
        /\ tx'[c] = "none" => touched'[c] = {}
    BY <1>4, <2>1, <2>2
  <2>5. QED
    BY <1>1, <2>1, <2>2, <2>3, <2>4 DEF CallInv
<1>6. FillInv(c)'
  BY <1>2, <1>4 DEF FillInv
<1>7. \A i \in Ids, p \in Parts : ~Owes(c, i, p)
  BY DEF Owes
<1>8. CacheIsFresh'
  BY <1>1, <1>2, <1>4 DEF CacheIsFresh
<1>9. QED
  BY <1>4, <1>5, <1>6, <1>7, <1>8, RestKeepsInv

(* Seed pings the database first.                                          *)
LEMMA PingKeepsInv ==
  ASSUME StoreInv, NEW c \in Clients, Ping(c)
  PROVE  StoreInv'
<1>1. /\ At(c, "ping") /\ UNCHANGED cache
      /\ \/ /\ NoFault /\ call' = [call EXCEPT ![c] = Step(c)]
            /\ UNCHANGED <<db, tx, over, touched, got, calls, suspect, failed>>
         \/ Fault("db") /\ Fail(c, FALSE)
  BY DEF Ping
<1>2. call[c].op = "seed" /\ Todo(c) = 4
  BY <1>1, AtStatement, Positions
<1>3. CASE /\ NoFault /\ call' = [call EXCEPT ![c] = Step(c)]
           /\ UNCHANGED <<db, tx, over, touched, got, calls, suspect, failed>>
  <2>1. Todo(c) \in 3..4 /\ tx' = IF Todo(c) = 3 THEN [tx EXCEPT ![c] = "open"] ELSE tx
    BY <1>2, <1>3
  <2>2. QED
    BY <1>1, <1>2, <1>3, <2>1, SeedOnKeepsInv DEF NoFault
<1>4. CASE Fault("db") /\ Fail(c, FALSE)
  BY <1>1, <1>4, RefusedKeepsInv DEF FaultKinds
<1>5. QED
  BY <1>1, <1>3, <1>4

(* Then it begins its transaction.                                         *)
LEMMA BeginSeedKeepsInv ==
  ASSUME StoreInv, NEW c \in Clients, BeginSeed(c)
  PROVE  StoreInv'
<1>1. /\ At(c, "begin") /\ UNCHANGED cache
      /\ \/ /\ NoFault /\ call' = [call EXCEPT ![c] = Step(c)] /\ tx' = [tx EXCEPT ![c] = "open"]
            /\ UNCHANGED <<db, over, touched, got, calls, suspect, failed>>
         \/ Fault("db") /\ Fail(c, FALSE)
  BY DEF BeginSeed
<1>2. call[c].op = "seed" /\ Todo(c) = 3
  BY <1>1, AtStatement, Positions
<1>3. CASE /\ NoFault /\ call' = [call EXCEPT ![c] = Step(c)] /\ tx' = [tx EXCEPT ![c] = "open"]
           /\ UNCHANGED <<db, over, touched, got, calls, suspect, failed>>
  <2>1. Todo(c) \in 3..4 /\ tx' = IF Todo(c) = 3 THEN [tx EXCEPT ![c] = "open"] ELSE tx
    BY <1>2, <1>3
  <2>2. QED
    BY <1>1, <1>2, <1>3, <2>1, SeedOnKeepsInv DEF NoFault
<1>4. CASE Fault("db") /\ Fail(c, FALSE)
  BY <1>1, <1>4, RefusedKeepsInv DEF FaultKinds
<1>5. QED
  BY <1>1, <1>3, <1>4

(* And commits it.                                                         *)
LEMMA CommitSeedKeepsInv ==
  ASSUME StoreInv, NEW c \in Clients, CommitSeed(c)
  PROVE  StoreInv'
<1>1. /\ At(c, "commit") /\ EndTx(c) /\ UNCHANGED <<cache, got, calls>>
      /\ NoFault \/ Fault("db")
      /\ Publish(c, Idle) \/ (call' = [call EXCEPT ![c] = Idle] /\ UNCHANGED db)
      /\ suspect' = suspect \cup touched[c]
      /\ \/ Publish(c, Idle) /\ failed' = failed
         \/ failed' = failed \cup touched[c]
  BY DEF CommitSeed, Blame
<1>2. StoreTypes /\ CallInv(c) /\ touched[c] \subseteq Ids
  BY DEF StoreInv, StoreTypes
<1>3. call[c].wrote = touched[c] /\ \A i \in Ids, p \in Parts : ~Owes(c, i, p)
  BY <1>1, <1>2, Positions DEF CallInv, Owes
<1>4. faults' \in 0..MaxFaults
  BY <1>1, <1>2, StoreAssumption DEF StoreTypes, NoFault, Fault
<1>5. /\ suspect' \subseteq Ids /\ failed' \subseteq Ids /\ failed \subseteq failed'
      /\ got' \in [Clients -> Shipment \cup {NoShipment}]
  BY <1>1, <1>2 DEF StoreTypes
<1>6. CASE Publish(c, Idle)
  BY <1>1, <1>3, <1>4, <1>5, <1>6, PublishKeepsInv
<1>7. CASE ~Publish(c, Idle)
  BY <1>1, <1>3, <1>4, <1>5, <1>7, AbandonKeepsInv
<1>8. QED
  BY <1>6, <1>7

-----------------------------------------------------------------------------
(* What calls start with. *)

(* At the start of its program a call knows nothing of the tables.         *)
LEMMA NothingYet ==
  ASSUME NEW s, NEW v
  PROVE  Inserted(s, 5, v) /\ ReadSoFar(s, 6, v)
<1>1. ~(5 <= 4) /\ ~(6 <= 4) /\ \A p \in Parts : ~(6 < Turn[p])
  BY DEF Turn, Parts
<1>2. QED
  BY <1>1, Zenon DEF Inserted, ReadSoFar

(* A call starts with its whole program, clean and with nothing written.   *)
LEMMA StartKeepsInv ==
  ASSUME StoreInv, NEW c \in Clients, NEW op \in Ops, NEW shp \in Shipment, Start(c, op, shp),
         op = "create" => shp.logs = {} \/ Whole(shp),
         op = "update" => shp.header # NoHeader,
         op = "query" => ~shp.twice,
         op = "seed" => shp = Seeded /\ tx[c] = "none"
  PROVE  StoreInv'
<1>1. /\ StoreTypes /\ CallInv(c) /\ CacheIsFresh /\ call[c] = Idle /\ calls[c] < MaxCalls
      /\ call' = [call EXCEPT ![c] = NewCall(op, shp)]
      /\ calls' = [calls EXCEPT ![c] = calls[c] + 1]
      /\ UNCHANGED <<db, tx, over, touched, cache, got, suspect, failed, faults>>
  BY DEF StoreInv, Start
<1> DEFINE own == NewCall(op, shp)
<1>2. /\ own \in Call /\ own.op = op /\ own.shp = shp /\ own.left = Program[op]
      /\ own.clean = TRUE /\ own.wrote = {}
  BY ProgramOf DEF NewCall, Call
<1>3. call' = [call EXCEPT ![c] = own]
  BY <1>1
<1> HIDE DEF own
<1>4. calls[c] + 1 \in 0..MaxCalls
  BY <1>1, StoreAssumption DEF StoreTypes
<1>5. StoreTypes' /\ call'[c] = own /\ \A d \in Clients \ {c} : call'[d] = call[d]
  BY <1>1, <1>2, <1>3, <1>4 DEF StoreTypes
<1>6. /\ Len(Program[op]) \in Nat /\ Len(Program[op]) >= 1
      /\ op = "create" => Len(Program[op]) = 5
      /\ op = "update" => Len(Program[op]) = 8
      /\ op = "query" => Len(Program[op]) = 6
      /\ op = "seed" => Len(Program[op]) = 4
  <2>1. op = "create" => Len(Program[op]) = 5
    <3>1. op = "create" => Program[op] = Program.create
      BY Zenon
    <3>2. QED
      BY <3>1, Programs
  <2>2. op = "update" => Len(Program[op]) = 8
    <3>1. op = "update" => Program[op] = Program.update
      BY Zenon
    <3>2. QED
      BY <3>1, Programs
  <2>3. op = "delete" => Len(Program[op]) = 2
    <3>1. op = "delete" => Program[op] = Program.delete
      BY Zenon
    <3>2. QED
      BY <3>1, Programs
  <2>4. op = "query" => Len(Program[op]) = 6
    <3>1. op = "query" => Program[op] = Program.query
      BY Zenon
    <3>2. QED
      BY <3>1, Programs
  <2>5. op = "seed" => Len(Program[op]) = 4
    <3>1. op = "seed" => Program[op] = Program.seed
      BY Zenon
    <3>2. QED
      BY <3>1, Programs
  <2>6. Len(Program[op]) \in {2, 4, 5, 6, 8}
    BY <2>1, <2>2, <2>3, <2>4, <2>5 DEF Ops
  <2> DEFINE n == Len(Program[op])
  <2>7. n \in {2, 4, 5, 6, 8}
    BY <2>6
  <2> HIDE DEF n
  <2>8. n \in Nat /\ n >= 1
    BY <2>7
  <2>9. QED
    BY <2>1, <2>2, <2>4, <2>5, <2>8, Zenon DEF n
<1>7. IsEndOf(Program[op], Program[op])
  BY <1>6 DEF IsEndOf
<1>8. Todo(c)' = Len(Program[op]) /\ Shp(c)' = shp /\ op # "none"
  BY <1>2, <1>5 DEF Todo, Shp, Ops
<1>9. CallInv(c)'
  <2>1. tx[c] = "none" => touched[c] = {}
    BY <1>1 DEF CallInv
  <2>2. /\ call'[c].op = op /\ call'[c].left = Program[op] /\ call'[c].wrote = {}
        /\ tx'[c] = tx[c] /\ touched'[c] = touched[c]
    BY <1>1, <1>2, <1>5
  <2>3. op = "create" => /\ ~(Todo(c)' <= 4) /\ Todo(c)' >= 3
                         /\ Shp(c)'.logs = {} \/ Whole(Shp(c)')
    <3>1. op = "create" => ~(Todo(c)' <= 4) /\ Todo(c)' >= 3
      <4>1. op = "create" => Todo(c)' = 5
        BY <1>6, <1>8
      <4>2. QED
        BY <4>1
    <3>2. op = "create" => Shp(c)'.logs = {} \/ Whole(Shp(c)')
      BY <1>8
    <3>3. QED
      BY <3>1, <3>2
  <2>4. op = "update" => Todo(c)' >= 2 /\ Shp(c)'.header # NoHeader
    <3>1. op = "update" => Todo(c)' >= 2
      <4>1. op = "update" => Todo(c)' = 8
        BY <1>6, <1>8
      <4>2. QED
        BY <4>1
    <3>2. op = "update" => Shp(c)'.header # NoHeader
      BY <1>8
    <3>3. QED
      BY <3>1, <3>2
  <2>5. op = "seed" => /\ Shp(c)' = Seeded /\ {} = touched[c]
                       /\ ~(Todo(c)' <= 2) /\ tx[c] = "none"
    BY <1>6, <1>8, <2>1
  <2>6. op = "query" => ~Shp(c)'.twice
    BY <1>8
  <2>7. Shp(c)' \in Shipment
    BY <1>8
  <2>8. QED
    BY <1>7, <1>8, <2>1, <2>2, <2>3, <2>4, <2>5, <2>6, <2>7, Zenon DEF CallInv, Whole
<1>10. FillInv(c)'
  <2>1. /\ op = "create" => Todo(c)' = 5
        /\ op = "query" => Todo(c)' = 6
    BY <1>6, <1>8
  <2>2. call'[c].op = op
    BY <1>2, <1>5
  <2>3. QED
    BY <2>1, <2>2, NothingYet DEF FillInv
<1>11. call[c].wrote = {} /\ \A i \in Ids, p \in Parts : ~Owes(c, i, p)
  BY <1>1, IdleOwesNothing
<1>12. CacheIsFresh'
  BY <1>1, <1>5, <1>11 DEF CacheIsFresh
<1>13. QED
  BY <1>1, <1>5, <1>9, <1>10, <1>11, <1>12, RestKeepsInv

(* Create, Store, Update, Delete, QueryByID and Seed start such calls.     *)
LEMMA CallsKeepInv ==
  ASSUME StoreInv, NEW c \in Clients,
         Create(c) \/ Store(c) \/ Update(c) \/ Delete(c) \/ QueryById(c) \/ Seed(c)
  PROVE  StoreInv'
<1>1. \A id \in Ids : /\ Blank(id) \in Shipment /\ Blank(id).logs = {} /\ Blank(id).twice = FALSE
                      /\ \A h \in Headers : \A rows \in SUBSET (Ids \X Keys) :
                           LET s == [Blank(id) EXCEPT !.header = h, !.items = rows]
                           IN  s \in Shipment /\ s.logs = {}
  BY DEF Blank, Shipment
<1>2. CASE Create(c)
  <2>1. PICK id \in Ids, n \in NewShipments :
           Start(c, "create", [Blank(id) EXCEPT !.header = n.header, !.items = n.items])
    BY <1>2 DEF Create
  <2> DEFINE s == [Blank(id) EXCEPT !.header = n.header, !.items = n.items]
  <2>2. n.header \in Headers /\ n.items \in SUBSET (Ids \X Keys)
    BY StoreAssumption DEF NewShipment
  <2>3. s \in Shipment /\ s.logs = {}
    BY <2>2 DEF Blank, Shipment
  <2>4. Start(c, "create", s)
    BY <2>1
  <2> HIDE DEF s
  <2>5. QED
    BY <2>3, <2>4, StartKeepsInv DEF Ops
<1>3. CASE Store(c)
  <2>1. PICK s \in Complete : Start(c, "create", s)
    BY <1>3 DEF Store
  <2>2. s \in Shipment /\ Whole(s)
    BY StoreAssumption DEF Whole
  <2>3. QED
    BY <2>1, <2>2, StartKeepsInv DEF Ops
<1>4. CASE Update(c)
  <2>1. PICK u \in Updates : Start(c, "update", Updated(got[c], u))
    BY <1>4 DEF Update
  <2>2. got[c] \in Shipment
    BY <1>4 DEF Update, StoreInv, StoreTypes
  <2>3. /\ u.header \in Headers /\ u.items \in SUBSET (Ids \X Keys)
        /\ u.logs \in SUBSET (Ids \X Keys) /\ u.history \in SUBSET (Ids \X Keys)
    BY StoreAssumption DEF UpdateShipment
  <2>4. Updated(got[c], u) \in Shipment /\ Updated(got[c], u).header = u.header
    <3> DEFINE s == got[c]
               x == [s EXCEPT !.header = u.header,
                              !.items = IF u.given THEN u.items ELSE @,
                              !.logs = @ \cup u.logs,
                              !.history = @ \cup u.history,
                              !.twice = s.logs \cap u.logs # {}]
    <3>1. /\ s.items \in SUBSET (Ids \X Keys) /\ s.logs \in SUBSET (Ids \X Keys)
          /\ s.history \in SUBSET (Ids \X Keys)
      BY <2>2 DEF Shipment
    <3>2. /\ (IF u.given THEN u.items ELSE s.items) \in SUBSET (Ids \X Keys)
          /\ s.logs \cup u.logs \in SUBSET (Ids \X Keys)
          /\ s.history \cup u.history \in SUBSET (Ids \X Keys)
      BY <2>3, <3>1
    <3>3. Updated(s, u) = x
      BY Zenon DEF Updated
    <3>4. x \in Shipment /\ x.header = u.header
      BY <2>2, <2>3, <3>2 DEF Shipment
    <3>5. QED
      BY <3>3, <3>4
  <2>5. QED
    BY <2>1, <2>3, <2>4, StartKeepsInv, StoreAssumption DEF Ops
<1>5. CASE Delete(c)
  BY <1>5, StartKeepsInv DEF Delete, Ops, StoreInv, StoreTypes
<1>6. CASE QueryById(c)
  BY <1>1, <1>6, StartKeepsInv DEF QueryById, Ops
<1>7. CASE Seed(c)
  BY <1>7, StartKeepsInv, StoreAssumption DEF Seed, Ops
<1>8. QED
  BY <1>2, <1>3, <1>4, <1>5, <1>6, <1>7

-----------------------------------------------------------------------------
(* The theorems. *)

(* Initially nothing is stored, or what seed.sql brings.                   *)
LEMMA InitStoreInv == Init => StoreInv
<1> SUFFICES ASSUME Init PROVE StoreInv
  OBVIOUS
<1> DEFINE row == [header |-> Seeded.header, items |-> Of(Seeded.items, Seeded.id),
                   logs |-> Of(Seeded.logs, Seeded.id),
                   history |-> Of(Seeded.history, Seeded.id)]
<1>1. row \in Stored /\ row.header # NoHeader /\ \A p \in Parts : row[p] # {}
  <2>1. \A p \in Parts : Of(Seeded[p], Seeded.id) \in SUBSET Keys /\ Of(Seeded[p], Seeded.id) # {}
    BY ShipmentParts, RowsOf, StoreAssumption
  <2>2. Seeded.header \in Headers /\ Seeded.header # NoHeader
    BY StoreAssumption
  <2>3. QED
    BY <2>1, <2>2 DEF Stored, Parts
<1>2. db = Nothing \/ db = [Nothing EXCEPT ![Seeded.id] = row]
  BY DEF Init
<1> HIDE DEF row
<1>3. Seeded.id \in Ids /\ Nothing \in [Ids -> Stored] /\ \A i \in Ids : Nothing[i] = Absent
  BY AbsentParts, ShipmentParts, StoreAssumption DEF Nothing
<1>4. db \in [Ids -> Stored] /\ \A i \in Ids : db[i] \in {Absent, row}
  BY <1>1, <1>2, <1>3
<1>5. /\ tx = [c \in Clients |-> "none"] /\ over = [c \in Clients |-> Nothing]
      /\ touched = [c \in Clients |-> {}] /\ cache = [i \in Ids |-> NoShipment]
      /\ call = [c \in Clients |-> Idle] /\ got = [c \in Clients |-> NoShipment]
      /\ calls = [c \in Clients |-> 0] /\ suspect = {} /\ failed = {} /\ faults = 0
  BY DEF Init
<1>6. Idle \in Call /\ Idle.wrote = {} /\ Idle.op = "none" /\ Idle.left = <<>>
  BY DEF Idle, Call
<1>7. StoreTypes
  BY <1>3, <1>4, <1>5, <1>6, StoreAssumption DEF StoreTypes
<1>8. Cascade(db) /\ Cascade(Nothing)
  BY <1>1, <1>3, <1>4 DEF Cascade
<1>9. Accounted
  BY <1>1, <1>4, AbsentParts DEF Accounted, Missing
<1>10. \A c \in Clients : CallInv(c) /\ FillInv(c) /\ Cascade(over[c]) /\ AccountedIn(c)
  BY <1>5, <1>6, <1>8 DEF CallInv, FillInv, AccountedIn
<1>11. CacheIsFresh
  BY <1>5 DEF CacheIsFresh
<1>12. QED
  BY <1>7, <1>8, <1>9, <1>10, <1>11 DEF StoreInv

(* Every step keeps the invariant.                                         *)
LEMMA NextStoreInv == StoreInv /\ [Next]_vars => StoreInv'
<1> SUFFICES ASSUME StoreInv, [Next]_vars PROVE StoreInv'
  OBVIOUS
<1>1. CASE UNCHANGED vars
  <2>1. StoreTypes' /\ CacheIsFresh'
    BY <1>1 DEF vars, StoreInv, StoreTypes, CacheIsFresh
  <2>2. UNCHANGED <<db, tx, over, touched, call, failed>>
    BY <1>1 DEF vars
  <2>3. QED
    BY <2>1, <2>2, QuietKeepsInv
<1>2. ASSUME NEW c \in Clients,
             Create(c) \/ Store(c) \/ Update(c) \/ Delete(c) \/ QueryById(c) \/ Seed(c)
      PROVE  StoreInv'
  BY <1>2, CallsKeepInv
<1>3. ASSUME NEW c \in Clients, InsertHeader(c) \/ UpdateHeader(c) \/ DeleteHeader(c)
      PROVE  StoreInv'
  BY <1>3, InsertHeaderKeepsInv, UpdateHeaderKeepsInv, DeleteHeaderKeepsInv
<1>4. ASSUME NEW c \in Clients, NEW step \in Inserts, InsertRows(c, step)
      PROVE  StoreInv'
  BY <1>4, InsertRowsKeepsInv
<1>5. ASSUME NEW c \in Clients, NEW step \in Deletes, DeleteRows(c, step)
      PROVE  StoreInv'
  BY <1>5, DeleteRowsKeepsInv
<1>6. ASSUME NEW c \in Clients, InsertNothing(c) \/ ReadHeader(c) PROVE StoreInv'
  BY <1>6, InsertNothingKeepsInv, ReadHeaderKeepsInv
<1>7. ASSUME NEW c \in Clients, NEW step \in Selects, ReadRows(c, step)
      PROVE  StoreInv'
  BY <1>7, ReadRowsKeepsInv
<1>8. ASSUME NEW c \in Clients, ReadCache(c) \/ Fill(c) \/ Evict(c) PROVE StoreInv'
  BY <1>8, ReadCacheKeepsInv, FillKeepsInv, EvictKeepsInv
<1>9. ASSUME NEW c \in Clients, Begin(c) \/ Commit(c) \/ Rollback(c) \/ Crash(c) PROVE StoreInv'
  BY <1>9, BeginKeepsInv, CommitKeepsInv, RollbackKeepsInv, CrashKeepsInv
<1>10. ASSUME NEW c \in Clients, Ping(c) \/ BeginSeed(c) \/ ExecSeed(c) \/ CommitSeed(c)
       PROVE  StoreInv'
  BY <1>10, PingKeepsInv, BeginSeedKeepsInv, ExecSeedKeepsInv, CommitSeedKeepsInv
<1>11. ASSUME NEW id \in Ids, Expire(id) PROVE StoreInv'
  BY <1>11, ExpireKeepsInv
<1>12. QED
  BY Zenon, <1>1, <1>2, <1>3, <1>4, <1>5, <1>6, <1>7, <1>8, <1>9, <1>10, <1>11 DEF Next

(* The inductive invariant holds throughout.                               *)
THEOREM StoreInvHolds == Spec => []StoreInv
<1>1. Init => StoreInv
  BY InitStoreInv
<1>2. StoreInv /\ [Next]_vars => StoreInv'
  BY NextStoreInv
<1>3. QED
  BY <1>1, <1>2, PTL DEF Spec

(* An entry that differs from the tables is of a shipment that is being    *)
(* written, or that a failure, an overlap or a transaction left in doubt.  *)
THEOREM EntriesAreFresh == Spec => []CacheIsFresh
<1>1. StoreInv => CacheIsFresh
  BY DEF StoreInv
<1>2. QED
  BY <1>1, StoreInvHolds, PTL

(* What a Create or a query nothing disturbed puts in the cache is stored. *)
THEOREM FillsAreStored == Spec => []FilledIsStored
<1>1. StoreInv => FilledIsStored
  BY FilledIsRead DEF FilledIsStored
<1>2. QED
  BY <1>1, StoreInvHolds, PTL

(* A stored shipment without items, logs or history is the work of a call  *)
(* that failed, or that is still at it.                                    *)
THEOREM PartialShipmentsAreReported == Spec => []PartialIsReported
<1>1. StoreInv => PartialIsReported
  <2> SUFFICES ASSUME StoreInv, NEW i \in Ids, db[i].header # NoHeader,
                      {} \in {db[i][p] : p \in Parts}
               PROVE  i \in failed \/ \E c \in Clients : i \in call[c].wrote
    BY DEF PartialIsReported
  <2>1. PICK p \in Parts : Missing(db, i, p)
    BY DEF Missing
  <2>2. QED
    BY <2>1 DEF StoreInv, Accounted, Owes
<1>2. QED
  BY <1>1, StoreInvHolds, PTL

(* The type invariant the runs check.                                      *)
THEOREM StoreTypesHold == Spec => []TypeOK
<1> DEFINE EntriesNamed == \A i \in Ids : cache[i] # NoShipment => cache[i].id = i
<1> DEFINE Inv == StoreInv /\ EntriesNamed
<1>1. Init => Inv
  BY InitStoreInv DEF Init
<1>2. Inv /\ [Next]_vars => Inv'
  <2> SUFFICES ASSUME StoreInv, EntriesNamed, [Next]_vars PROVE EntriesNamed'
    BY NextStoreInv
  <2>1. StoreTypes
    BY DEF StoreInv
  <2>2. ASSUME NEW i \in Ids, cache'[i] # NoShipment
        PROVE  \/ cache'[i] = cache[i]
               \/ \E c \in Clients : At(c, "fill") /\ i = Shp(c).id /\ cache'[i] = Shp(c)
    <3>1. \/ cache' = cache
          \/ \E id \in Ids : Expire(id)
          \/ \E c \in Clients : Fill(c) \/ Evict(c)
      <4>1. \A c, ids, accepted, new : Execute(c, ids, accepted, new) => cache' = cache
        BY Zenon DEF Execute
      <4>2. \A c : Create(c) \/ Store(c) \/ Update(c) \/ Delete(c) \/ QueryById(c) \/ Seed(c)
                     => cache' = cache
        BY DEF Create, Store, Update, Delete, QueryById, Seed, Start
      <4>3. \A c : InsertHeader(c) \/ UpdateHeader(c) \/ DeleteHeader(c) \/ ExecSeed(c)
                     => cache' = cache
        BY <4>1, Zenon DEF InsertHeader, UpdateHeader, DeleteHeader, ExecSeed
      <4>4. \A c, step : InsertRows(c, step) \/ DeleteRows(c, step) => cache' = cache
        BY <4>1, Zenon DEF InsertRows, DeleteRows
      <4>5. \A c : InsertNothing(c) \/ ReadHeader(c) \/ ReadCache(c) => cache' = cache
        BY Zenon DEF InsertNothing, ReadHeader, ReadCache
      <4>6. \A c, step : ReadRows(c, step) => cache' = cache
        BY Zenon DEF ReadRows
      <4>7. \A c : Begin(c) \/ Commit(c) \/ Rollback(c) \/ Crash(c) => cache' = cache
        BY DEF Begin, Commit, Rollback, Crash
      <4>8. \A c : Ping(c) \/ BeginSeed(c) \/ CommitSeed(c) => cache' = cache
        BY Zenon DEF Ping, BeginSeed, CommitSeed
      <4>9. UNCHANGED vars => cache' = cache
        BY DEF vars
      <4>10. QED
        BY Zenon, <4>2, <4>3, <4>4, <4>5, <4>6, <4>7, <4>8, <4>9 DEF Next
    <3>2. ASSUME NEW id \in Ids, Expire(id) PROVE cache'[i] = cache[i]
      BY <2>1, <2>2, <3>2 DEF Expire, StoreTypes
    <3>3. ASSUME NEW c \in Clients, Evict(c) PROVE cache'[i] = cache[i]
      <4>1. cache' \in {cache, [cache EXCEPT ![Shp(c).id] = NoShipment]}
        BY <3>3 DEF Evict
      <4>2. QED
        BY <2>1, <2>2, <4>1 DEF StoreTypes
    <3>4. ASSUME NEW c \in Clients, Fill(c)
          PROVE  \/ cache'[i] = cache[i]
                 \/ At(c, "fill") /\ i = Shp(c).id /\ cache'[i] = Shp(c)
      <4>1. At(c, "fill") /\ cache' \in {cache, [cache EXCEPT ![Shp(c).id] = Shp(c)]}
        BY <3>4 DEF Fill
      <4>2. QED
        BY <2>1, <4>1 DEF StoreTypes
    <3>5. QED
      BY <3>1, <3>2, <3>3, <3>4
  <2>3. QED
    BY <2>2
<1>3. Inv => TypeOK
  <2> SUFFICES ASSUME StoreInv, EntriesNamed PROVE TypeOK
    OBVIOUS
  <2>1. StoreTypes /\ \A c \in Clients : CallInv(c)
    BY DEF StoreInv
  <2>2. \A c \in Clients : /\ touched[c] \subseteq Ids
                           /\ tx[c] = "none" => touched[c] = {}
                           /\ call[c].op # "none" => Shp(c) \in Shipment
                           /\ calls[c] \in 0..MaxCalls
    BY <2>1 DEF StoreTypes, CallInv
  <2>3. \A c \in Clients : call[c].op \in DOMAIN Program \cup {"none"}
    <3>1. DOMAIN Program = Ops
      BY DEF Program, Ops
    <3>2. QED
      BY <2>1, <3>1 DEF StoreTypes, Call
  <2>4. QED
    BY <2>1, <2>2, <2>3 DEF TypeOK, StoreTypes
<1>4. QED
  BY <1>1, <1>2, <1>3, PTL DEF Spec

(* A statement outside a transaction is the only one whose effect is seen  *)
(* at once, and it moves its call on.                                      *)
LEMMA ExecuteCommits ==
  ASSUME StoreInv, NEW c \in Clients, NEW step, At(c, step), NEW ids, NEW accepted, NEW new,
         Execute(c, ids, accepted, new), db' # db
  PROVE  tx[c] = "none" /\ call'[c] # call[c]
<1>1. /\ StoreTypes /\ CallInv(c) /\ call[c].op \in Ops /\ Todo(c) \in Nat
      /\ Len(Tail(call[c].left)) = Todo(c) - 1 /\ call[c] \in Call
  <2>1. StoreTypes /\ CallInv(c) /\ Todo(c) \in Nat
    BY AtStatement
  <2>2. QED
    BY <2>1, NextStep DEF StoreTypes
<1> DEFINE own == [Step(c) EXCEPT !.wrote = @ \cup ids]
<1>2. /\ tx[c] # "aborted"
      /\ Write(c, new, ids, own) \/ Write(c, new, ids, Idle)
  BY DEF Execute, Fail
<1>3. own.left = Tail(call[c].left)
  BY <1>1 DEF Step, Call
<1> HIDE DEF own
<1>4. tx[c] = "none" /\ (call' = CallsAfter(c, own, ids) \/ call' = CallsAfter(c, Idle, ids))
  BY <1>1, <1>2 DEF Write, InTx, StoreTypes
<1>5. call'[c] = own \/ call'[c] = Idle
  BY <1>4 DEF CallsAfter
<1>6. own # call[c]
  <2>1. Todo(c) = Len(call[c].left) /\ Todo(c) \in Nat
    BY <1>1 DEF Todo
  <2>2. SUFFICES ASSUME own = call[c] PROVE FALSE
    OBVIOUS
  <2>3. Len(call[c].left) = Todo(c) - 1
    BY <1>1, <1>3, <2>2, Zenon
  <2>4. QED
    BY <2>1, <2>3
<1>7. Idle # call[c]
  BY <1>1 DEF Idle, Ops
<1>8. QED
  BY <1>4, <1>5, <1>6, <1>7

(* Nothing of a transaction is seen before its commit, and all of it then. *)
THEOREM TransactionsCommitWhole == Spec => CommitsWhole
<1> DEFINE Committed ==
             \E c \in Clients : \/ tx[c] = "none" /\ call'[c] # call[c]
                                \/ tx[c] = "open" /\ tx'[c] = "none" /\ db' = View(c)
<1>1. ASSUME StoreInv, [Next]_vars, db' # db PROVE Committed
  <2>1. ASSUME NEW c \in Clients, NEW step, At(c, step), NEW ids, NEW accepted, NEW new,
               Execute(c, ids, accepted, new)
        PROVE  Committed
    BY <1>1, <2>1, ExecuteCommits
  <2>2. ASSUME NEW c \in Clients,
               InsertHeader(c) \/ UpdateHeader(c) \/ DeleteHeader(c) \/ ExecSeed(c)
        PROVE  Committed
    BY <2>1, <2>2, Zenon DEF InsertHeader, UpdateHeader, DeleteHeader, ExecSeed
  <2>3. ASSUME NEW c \in Clients, NEW step, InsertRows(c, step) \/ DeleteRows(c, step)
        PROVE  Committed
    <3>1. CASE InsertRows(c, step)
      BY <1>1, <2>1, <3>1 DEF InsertRows, Fail
    <3>2. CASE DeleteRows(c, step)
      BY <2>1, <3>2, Zenon DEF DeleteRows
    <3>3. QED
      BY <2>3, <3>1, <3>2
  <2>4. ASSUME NEW c \in Clients, Commit(c) \/ CommitSeed(c) PROVE Committed
    <3>1. StoreTypes /\ CallInv(c)
      BY <1>1 DEF StoreInv
    <3>2. tx[c] = "open" /\ EndTx(c)
      <4>1. CASE Commit(c)
        BY <4>1 DEF Commit
      <4>2. CASE CommitSeed(c)
        BY <3>1, <4>2, Positions DEF CommitSeed, CallInv
      <4>3. QED
        BY <2>4, <4>1, <4>2
    <3>3. db' = View(c)
      BY <1>1, <2>4 DEF Commit, CommitSeed, Publish
    <3>4. tx'[c] = "none"
      BY <3>1, <3>2 DEF EndTx, StoreTypes
    <3>5. QED
      BY <3>2, <3>3, <3>4
  <2>5. ASSUME NEW c, Create(c) \/ Store(c) \/ Update(c) \/ Delete(c) \/ QueryById(c) \/ Seed(c)
        PROVE  FALSE
    BY <1>1, <2>5 DEF Create, Store, Update, Delete, QueryById, Seed, Start
  <2>6. ASSUME NEW c, InsertNothing(c) \/ ReadHeader(c) \/ ReadCache(c) \/ Fill(c) \/ Evict(c)
        PROVE  FALSE
    BY <1>1, <2>6, Zenon DEF InsertNothing, ReadHeader, ReadCache, Fill, Evict, Fail, Return
  <2>7. ASSUME NEW c, NEW step, ReadRows(c, step) PROVE FALSE
    BY <1>1, <2>7, Zenon DEF ReadRows, Fail
  <2>8. ASSUME NEW c, Begin(c) \/ Rollback(c) \/ Crash(c) \/ Ping(c) \/ BeginSeed(c)
        PROVE  FALSE
    BY <1>1, <2>8 DEF Begin, Rollback, Crash, Ping, BeginSeed, Fail
  <2>9. ASSUME NEW id, Expire(id) PROVE FALSE
    BY <1>1, <2>9 DEF Expire
  <2>10. ~UNCHANGED vars
    BY <1>1 DEF vars
  <2>11. QED
    BY Zenon, <1>1, <2>2, <2>3, <2>4, <2>5, <2>6, <2>7, <2>8, <2>9, <2>10 DEF Next
<1>2. StoreInv /\ [Next]_vars => [db' # db => Committed]_vars
  BY <1>1
<1>3. QED
  BY <1>2, StoreInvHolds, PTL DEF Spec, CommitsWhole
=============================================================================
