----------------------------- MODULE ArrayColumn -----------------------------
(***************************************************************************)
(* An array column of the database: a program stores an array in it with   *)
(* Value, or another client writes any text; the column is read with Scan  *)
(* into a destination that holds earlier elements.                         *)
(***************************************************************************)
EXTENDS ArrayParser, ArrayText

CONSTANTS Arrays,      \* what is stored: a Go type and an array of that type
          Literals,    \* what other clients write, and the Go type it is read as
          Targets,     \* the destinations of Generic
          Earlier,     \* the destination before the scan
          Limits,      \* the arguments EnableInfinityTS is called with
          Times        \* some times

ASSUME ColumnAssumption ==
  /\ <<",">> \in Delimiters
  /\ Earlier.nil => Earlier.items = <<>>
  /\ Limits \subseteq Int \X Int
  /\ Times \subseteq [year : Int, day : ToSet(Days), offset : Int]
  /\ \A t \in Times : t.day = "feb29" => Leap(t.year)

(* The elements of each Go type. *)
ElementsOf(goType) ==
  CASE goType = "[]bool"    -> BOOLEAN
    [] goType = "[]float64" -> Numbers
    [] goType = "[]float32" -> {x \in Numbers \cap DOMAIN Float32Of : Float32Of[x] = x}
    [] goType = "[]int64"   -> Int64s
    [] goType = "[]int32"   -> Int32s
    [] goType = "[]string"  -> Seq(STRING)
    [] goType = "[][]byte"  -> Seq(Bytes)
    [] OTHER                -> DOMAIN Nesting

ASSUME ArraysAssumption ==
  /\ \A a \in Arrays : /\ a.value.items \in Seq(ElementsOf(a.type))
                       /\ a.value \in {Nil, List(a.value.items)}
  /\ \A l \in Literals : l.column.type = "text" => l.column.text \in Seq(STRING)

VARIABLES infinity,    \* infinityTSEnabled, infinityTSNegative, infinityTSPositive
          origin,      \* history: the array stored, if one was
          column,
          kind, target, dest,
          result       \* of the program's last call

vars == <<parserVars, infinity, origin, column, kind, target, dest, result>>

(* Array: the Go types with an array type of their own; the others are     *)
(* left to reflection.                                                     *)
Array(goType) ==
  CASE goType = "[]bool"    -> "Bool"
    [] goType = "[]float64" -> "Float64"
    [] goType = "[]float32" -> "Float32"
    [] goType = "[]int64"   -> "Int64"
    [] goType = "[]int32"   -> "Int32"
    [] goType = "[]string"  -> "String"
    [] goType = "[][]byte"  -> "Bytea"
    [] OTHER                -> "Generic"

GoTypes == {"[]bool", "[]float64", "[]float32", "[]int64", "[]int32", "[]string", "[][]byte", "[]T"}

Value(k, a, delimiter) ==
  CASE k = "Bool"    -> BoolValue(a)
    [] k = "Bytea"   -> ByteaValue(a)
    [] k = "Float64" -> Float64Value(a)
    [] k = "Float32" -> Float32Value(a)
    [] k = "Int64"   -> Int64Value(a)
    [] k = "Int32"   -> Int32Value(a)
    [] k = "String"  -> StringValue(a)
    [] k = "Generic" -> GenericValue(infinity, a, delimiter)

Nothing == [type |-> "none", value |-> Nil]

(* A slice whose elements implement sql.Scanner; only Generic has others. *)
Slice == [shape |-> "slice", len |-> 0, scanner |-> TRUE]

Init ==
  /\ ParserInit
  /\ infinity = [enabled |-> FALSE, negative |-> 0, positive |-> 0]
  /\ origin = Nothing /\ column = SqlNull
  /\ kind = "none" /\ target = Slice /\ dest = Earlier
  /\ result = "none"

EnableInfinityTS(negative, positive) ==
  /\ result = "none"
  /\ IF infinity.enabled \/ negative >= positive
     THEN result' = "panic" /\ UNCHANGED infinity
     ELSE /\ infinity' = [enabled |-> TRUE, negative |-> negative, positive |-> positive]
          /\ UNCHANGED result
  /\ UNCHANGED <<parserVars, origin, column, kind, target, dest>>

(* The program reads into a destination of the type it stored, or of any. *)
Destination(goType) ==
  /\ kind' = Array(goType)
  /\ target' \in IF kind' = "Generic" THEN Targets ELSE {Slice}

Store(a) ==
  /\ result = "none"
  /\ origin' = a
  /\ Destination(a.type)
  /\ column' = Value(Array(a.type), a.value, del)
  /\ result' = IF column'.type = "error" THEN "error" ELSE "stored"
  /\ UNCHANGED <<parserVars, infinity, dest>>

(* The server prints the elements of the array in its own way: it quotes   *)
(* only what has to be, and a server may print bytes in the escape format. *)
Printed(t, delimiter) ==
  IF t \in {<<>>, <<"NULL">>} \/ \E k \in DOMAIN t : t[k] \in {"{", "}", Quote, Backslash} \cup ToSet(delimiter)
  THEN AppendArrayQuotedBytes(t) ELSE t

Reprint(serverVersion) ==
  /\ result = "stored" /\ pc = "idle" /\ ~origin.value.nil
  /\ kind \in {"String", "Bytea"}
  /\ LET items == origin.value.items
         text(k) == IF kind = "String" THEN items[k] ELSE EncodeBytea(serverVersion, items[k])
     IN  column' = Text(Braces([k \in DOMAIN items |-> Printed(text(k), <<",">>)], <<",">>))
  /\ UNCHANGED <<parserVars, infinity, origin, kind, target, dest, result>>

(* Bound: infinity is left alone when the text is another client's; Scan   *)
(* does not look at it.                                                    *)
Insert(l) ==
  /\ result = "none" /\ ~infinity.enabled
  /\ column' = l.column
  /\ Destination(l.type)
  /\ result' = "stored"
  /\ UNCHANGED <<parserVars, infinity, origin, dest>>

(* Scan up to the call of parseArray: NULL makes the destination nil, and  *)
(* what is not text is refused; Generic looks at its destination first.    *)
Separator == IF kind = "Generic" THEN del ELSE <<",">>

Scan ==
  /\ result = "stored" /\ pc = "idle"
  /\ \/ /\ kind = "Generic" /\ target.shape = "other"
        /\ result' = "error" /\ UNCHANGED <<parserVars, dest>>
     \/ /\ kind = "Generic" => target.shape # "other"
        /\ CASE column.type = "text" ->
                  Begin(column.text, Separator) /\ UNCHANGED <<dest, result>>
             [] column.type = "null" /\ ~(kind = "Generic" /\ target.shape = "array") ->
                  dest' = Nil /\ result' = "ok" /\ UNCHANGED parserVars
             [] OTHER -> result' = "error" /\ UNCHANGED <<parserVars, dest>>
  /\ UNCHANGED <<infinity, origin, column, kind, target>>

(* Scan from the return of parseArray on; scanLinearArray refuses more     *)
(* than one dimension.                                                     *)
Scanned ==
  IF pc = "failed" \/ (kind # "Generic" /\ Len(dims) > 1)
  THEN [ok |-> FALSE, value |-> dest]
  ELSE CASE kind = "Bool"    -> BoolScan(dest, elems)
         [] kind = "Bytea"   -> ByteaScan(dest, elems)
         [] kind = "Float64" -> Float64Scan(dest, elems)
         [] kind = "Float32" -> Float32Scan(dest, elems)
         [] kind = "Int64"   -> Int64Scan(dest, elems)
         [] kind = "Int32"   -> Int32Scan(dest, elems)
         [] kind = "String"  -> StringScan(dest, elems)
         [] kind = "Generic" -> GenericScan(target, dest, dims, elems)

Assign ==
  /\ result = "stored" /\ pc \in {"failed", "parsed"}
  /\ dest' = Scanned.value
  /\ result' = IF Scanned.ok THEN "ok" ELSE "error"
  /\ UNCHANGED <<parserVars, infinity, origin, column, kind, target>>

Done ==
  /\ result \in {"ok", "error", "panic"}
  /\ UNCHANGED vars

ParseStep == Parse /\ UNCHANGED <<infinity, origin, column, kind, target, dest, result>>

Next ==
  \/ \E l \in Limits : EnableInfinityTS(l[1], l[2])
  \/ \E a \in Arrays : Store(a)
  \/ \E v \in {80000, 90000} : Reprint(v)
  \/ \E l \in Literals : Insert(l)
  \/ Scan
  \/ ParseStep
  \/ Assign
  \/ Done

Spec == Init /\ [][Next]_vars

-----------------------------------------------------------------------------
ColumnIsText == column.type = "text" => column.text \in Seq(STRING)

(* A type invariant, of the shapes only. *)
TypeOK ==
  /\ ColumnIsText
  /\ pc \in {"idle", "open", "element", "quoted", "plain", "after", "close", "parsed", "failed"}
  /\ i \in 1..(Len(src) + 1) /\ depth \in 0..Len(src)
  /\ dims \in Seq(0..Len(src))
  /\ result \in {"none", "stored", "ok", "error", "panic"}
  /\ dest.nil => dest.items = <<>>

(* What a Generic destination holds for the element stored: its text. *)
AsItem(v) ==
  CASE "null" \in DOMAIN v -> Null
    [] "str"  \in DOMAIN v -> Item(v.str)
    [] OTHER                -> Item(Encode(infinity, v))

Flat(a) == \A k \in DOMAIN a.items : DOMAIN a.items[k] \cap {"list", "opaque"} = {}

(* An array that is stored and read back, from the text it was stored as   *)
(* or from the server's own rendering of it, comes back as it was: no      *)
(* character of a string, no byte and no NULL is lost or changed by the    *)
(* quoting, and the scan does not fail.                                    *)
RoundTrip ==
  origin # Nothing /\ result \in {"ok", "error"} =>
    IF kind # "Generic"
    THEN result = "ok" /\ dest = origin.value
    ELSE Flat(origin.value) /\ target = Slice =>
           /\ result = "ok"
           /\ dest = [origin.value EXCEPT !.items = [k \in DOMAIN @ |-> AsItem(@[k])]]

(* The lists of a nested array that have all the same, positive, length    *)
(* are parsed into that shape, although Scan then refuses it.              *)
ShapeOf(vs) == IF "list" \in DOMAIN vs[1] THEN <<Len(vs), Len(vs[1].list)>> ELSE <<Len(vs)>>

Rectangular(vs) ==
  /\ vs # <<>>
  /\ \A k \in DOMAIN vs : /\ "list" \in DOMAIN vs[k]
                           /\ vs[k].list # <<>> /\ Len(vs[k].list) = Len(vs[1].list)
                           /\ Flat(List(vs[k].list))

NestedShape ==
  kind = "Generic" /\ origin # Nothing /\ pc \in {"parsed", "failed"} =>
    (Rectangular(origin.value.items) =>
       pc = "parsed" /\ dims = ShapeOf(origin.value.items))

(* A scan that fails leaves the destination as it was, however many of the *)
(* elements it had converted.                                              *)
FailedScanKeepsDestination == result = "error" => dest = Earlier

(* What array literals mean, said without looking at the parser.  A text   *)
(* in braces is cut at delimiters into pieces.  The backend emits a piece  *)
(* between quotes, with a backslash before a quote or a backslash, or bare *)
(* when it holds no brace, quote, backslash or delimiter.                  *)
Fields ==
  IF Len(src) < 2 \/ src[1] # "{" \/ Last(src) # "}" THEN {}
  ELSE { LET at == SetToSortSeq({1, Len(src)} \cup C, <)
         IN  [k \in 1..(Len(at) - 1) |-> SubSeq(src, at[k] + 1, at[k + 1] - 1)] :
         C \in SUBSET {k \in 2..(Len(src) - 1) : src[k] = del[1]} }

Unescaped(q, escapable) ==
  { [k \in 1..(Len(q) - Cardinality(M)) |->
       q[CHOOSE p \in DOMAIN q \ M : Cardinality((DOMAIN q \ M) \cap 1..p) = k]] :
      M \in { S \in SUBSET DOMAIN q :
              /\ \A m \in S : q[m] = Backslash /\ m + 1 \in DOMAIN q \ S /\ q[m + 1] \in escapable
              /\ \A p \in DOMAIN q \ S : q[p] \in {Quote, Backslash} => p - 1 \in S } }

BetweenQuotes(p, escapable) ==
  IF Len(p) > 1 /\ p[1] = Quote /\ Last(p) = Quote
  THEN {Item(t) : t \in Unescaped(SubSeq(p, 2, Len(p) - 1), escapable)} ELSE {}

Bare(p, forbidden) ==
  IF p = <<>> \/ ToSet(p) \cap forbidden # {} THEN {}
  ELSE {IF p = <<"NULL">> THEN Null ELSE Item(p)}

Emitted(p) ==
  BetweenQuotes(p, {Quote, Backslash}) \cup Bare(p, {"{", "}", Quote, Backslash} \cup ToSet(del))

(* The least that can be asked of any other text: an element is what is    *)
(* between its quotes, or the piece as it stands.                          *)
AsItStands(p) ==
  BetweenQuotes(p, ToSet(p))
  \cup (IF p # <<>> /\ p[1] \in {"{", Quote} THEN {} ELSE Bare(p, {"}"} \cup ToSet(del)))

(* parseArray supports the representations the backend emits: it accepts   *)
(* every one of one dimension and returns the elements it denotes.  Any    *)
(* other text it may refuse; when it accepts one, no character is lost,    *)
(* none is invented and no element stands for two pieces.  (Backslashes,   *)
(* quotes and braces inside a bare piece, as in {a{}, are such texts:      *)
(* parseArray takes them as they stand.)                                   *)
ParsesLiterals ==
  pc \in {"parsed", "failed"} =>
    /\ \A ps \in Fields :
         ps = << <<>> >> \/ (\A k \in DOMAIN ps : Emitted(ps[k]) # {}) =>
           /\ pc = "parsed" /\ Len(dims) <= 1
           /\ IF ps = << <<>> >> THEN elems = <<>>
              ELSE Len(elems) = Len(ps) /\ \A k \in DOMAIN ps : elems[k] \in Emitted(ps[k])
    /\ pc = "parsed" /\ Len(dims) = 1 =>
         \E ps \in Fields : /\ Len(elems) = Len(ps)
                            /\ \A k \in DOMAIN ps : elems[k] \in AsItStands(ps[k])

(* What a server reads in the text of a time. *)
ReadTimestamp(f) ==
  [year   |-> IF f.bc THEN 1 - f.year ELSE f.year,
   day    |-> f.day,
   offset |-> (IF f.sign = "-" THEN -1 ELSE 1) * (60 * f.minutes + f.seconds)]

(* A time is written as the date and the offset it has, also before year 1 *)
(* and for offsets that are not whole minutes, or as the infinity it has   *)
(* reached.  Two cases are left out, where the code is wrong: a leap day   *)
(* before year 1, which becomes the day after it, and an offset of less    *)
(* than a minute to the west, which loses its sign.                        *)
TimestampsReadBack ==
  result = "none" =>
    \A t \in Times :
      LET s == Reached(infinity, t)
          low == infinity.enabled /\ Instant(t) <= infinity.negative
          high == infinity.enabled /\ Instant(t) >= infinity.positive
      IN  /\ (s = "-infinity" <=> low) /\ (s = "infinity" <=> high)
          /\ ~(t.year <= 0 /\ t.day = "feb29") /\ t.offset \notin -59..-1 =>
               ReadTimestamp(FormatTimestamp(t)) = t
=============================================================================
