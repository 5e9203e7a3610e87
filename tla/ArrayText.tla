------------------------------ MODULE ArrayText ------------------------------
(***************************************************************************)
(* Package dbarray without its scanner: how each kind of array is written  *)
(* as text, how its elements are read back, and the text form of bytes and *)
(* timestamps (dbarray.go, encode.go).                                     *)
(***************************************************************************)
EXTENDS ArrayItems, SequencesExt

CONSTANTS Code,            \* the byte each character of a text is
          Numerals,        \* the integer each numeral denotes
          Stamps,          \* the text of a formatted time
          Int32s, Int64s,  \* the integers of 32 and of 64 bits
          Float32Of,       \* the nearest float32, where there is one
          Nesting          \* the values that reflection meets, each with the
                           \* depth of the lists in it

ASSUME TextAssumption ==
  /\ \A c, d \in DOMAIN Code : Code[c] \in 0..255 /\ (Code[c] = Code[d] => c = d)
  /\ \A m, n \in DOMAIN Numerals : Numerals[m] \in Int /\ (Numerals[m] = Numerals[n] => m = n)
  /\ Int32s \subseteq Int64s /\ Int64s \subseteq {Numerals[n] : n \in DOMAIN Numerals}
  /\ \A x \in DOMAIN Float32Of : Float32Of[Float32Of[x]] = Float32Of[x]
  /\ DOMAIN Code \cup DOMAIN Numerals \subseteq STRING
  /\ DOMAIN Numerals \cap {LeftBrace, RightBrace, Quote, Backslash, ",", "NULL"} = {}
  /\ \A f, g \in DOMAIN Stamps : Stamps[f] \in STRING /\ (Stamps[f] = Stamps[g] => f = g)

Numbers == {Numerals[n] : n \in DOMAIN Numerals}

(* The result of a conversion that may fail. *)
Ok(v)  == [ok |-> TRUE,  value |-> v]
Failed == [ok |-> FALSE, value |-> <<>>]

-----------------------------------------------------------------------------
(* Bytes: a bytea value is a sequence of them. *)
Digits == <<"0", "1", "2", "3", "4", "5", "6", "7", "8", "9", "a", "b", "c", "d", "e", "f">>

(* Literals are strings: a prover has to be told. *)
ASSUME LiteralAssumption ==
  /\ \A k \in DOMAIN Digits : Digits[k] \in STRING
  /\ {LeftBrace, RightBrace, Quote, Backslash} \subseteq STRING
  /\ {",", "x", "t", "f", "NULL", "true", "false", "infinity", "-infinity"} \subseteq STRING

(* The digits of a byte, each at a place of the given weight.              *)
DigitsOf(b, base, places) == [k \in DOMAIN places |-> Digits[((b \div places[k]) % base) + 1]]

(* The digits are the lower case ones that are written; no text has others. *)
IsDigit(c, base) == \E d \in 1..base : Digits[d] = c

DigitValue(c) == (CHOOSE d \in DOMAIN Digits : Digits[d] = c) - 1

Bytes == {b \in 0..255 : b \in 32..126 => \E c \in DOMAIN Code : Code[c] = b}

CharOf(b) == CHOOSE c \in DOMAIN Code : Code[c] = b

Hex(v) == FlattenSeq([k \in DOMAIN v |-> DigitsOf(v[k], 16, <<16, 1>>)])

(* encodeBytea: hex for a server that knows it, else the escape format. *)
EncodeBytea(serverVersion, v) ==
  LET Escape(b) ==
        CASE b = Code[Backslash] -> <<Backslash, Backslash>>
          [] b # Code[Backslash] /\ b \notin 32..126 -> <<Backslash>> \o DigitsOf(b, 8, <<64, 8, 1>>)
          [] OTHER -> <<CharOf(b)>>
  IN  IF serverVersion >= 90000
      THEN <<Backslash, "x">> \o Hex(v)
      ELSE FlattenSeq([k \in DOMAIN v |-> Escape(v[k])])

ParseHex(s) ==
  IF (\A k \in DOMAIN s : IsDigit(s[k], 16)) /\ Len(s) % 2 = 0
  THEN Ok([k \in 1..(Len(s) \div 2) |-> 16 * DigitValue(s[2 * k - 1]) + DigitValue(s[2 * k])])
  ELSE Failed

(* A backslash stands before another one or before three octal digits. *)
ParseEscaped(s) ==
  LET Then(b, rest) == IF rest.ok THEN Ok(<<b>> \o rest.value) ELSE Failed
      Octal(k) == 64 * DigitValue(s[k + 1]) + 8 * DigitValue(s[k + 2]) + DigitValue(s[k + 3])
      from[k \in 1..(Len(s) + 1)] ==
        CASE k > Len(s) -> Ok(<<>>)
          [] k <= Len(s) /\ s[k] # Backslash -> Then(Code[s[k]], from[k + 1])
          [] k < Len(s) /\ s[k] = Backslash /\ s[k + 1] = Backslash ->
               Then(Code[Backslash], from[k + 2])
          [] OTHER ->
               IF k + 3 <= Len(s) /\ (\A m \in 1..3 : IsDigit(s[k + m], 8)) /\ Octal(k) < 256
               THEN Then(Octal(k), from[k + 4])
               ELSE Failed
  IN  from[1]

ParseBytea(s) ==
  IF IsPrefix(<<Backslash, "x">>, s)
  THEN ParseHex(SubSeq(s, 3, Len(s)))
  ELSE ParseEscaped(s)

-----------------------------------------------------------------------------
(* Timestamps: a year, a day of it and an offset from UTC in seconds; of   *)
(* the days only those around the leap day are told apart.                 *)
Days == <<"feb28", "feb29", "mar01">>

Leap(year) == year % 4 = 0 /\ (year % 100 # 0 \/ year % 400 = 0)

Instant(t) == 3 * t.year + CHOOSE d \in DOMAIN Days : Days[d] = t.day

Abs(n) == IF n < 0 THEN -n ELSE n

(* Variant of FlippedYear: there is no year zero. *)
FlippedYearNoZero(y) == y + (-y) * 2

FlippedYear(y) == y + ((-y) * 2 + 1)

(* formatTimestamp: AddDate flips a year before 1, and moves a day that    *)
(* the new year does not have to the next one; Format writes the whole     *)
(* minutes of the offset with their sign, and the rest is appended.        *)
FormatTimestamp(t) ==
  LET bc   == t.year <= 0
      year == IF bc THEN FlippedYear(t.year) ELSE t.year
      mins == Abs(t.offset) \div 60
  IN  [bc      |-> bc,
       year    |-> year,
       day     |-> IF t.day = "feb29" /\ ~Leap(year) THEN "mar01" ELSE t.day,
       sign    |-> IF mins > 0 /\ t.offset < 0 THEN "-" ELSE "+",
       minutes |-> mins,
       seconds |-> Abs(t.offset) % 60]

(* The infinity a time has reached, with what EnableInfinityTS has set. *)
Reached(infinity, t) ==
  CASE infinity.enabled /\ Instant(t) <= infinity.negative -> "-infinity"
    [] infinity.enabled /\ Instant(t) > infinity.negative
                        /\ Instant(t) >= infinity.positive -> "infinity"
    [] OTHER -> "none"

FormatTS(infinity, t) ==
  IF Reached(infinity, t) = "none" THEN Stamps[FormatTimestamp(t)] ELSE Reached(infinity, t)

-----------------------------------------------------------------------------
(* An array or slice, and its text: NULL for a nil one. *)
Nil     == [nil |-> TRUE,  items |-> <<>>]
List(s) == [nil |-> FALSE, items |-> s]

SqlNull == [type |-> "null", text |-> <<>>]
Text(t) == [type |-> "text", text |-> t]

NumeralOf(n) == CHOOSE c \in DOMAIN Numerals : Numerals[c] = n

(* Variant of AppendArrayQuotedBytes: a backslash is copied. *)
AppendArrayQuotesOnly(v) ==
  <<Quote>> \o FlattenSeq([k \in DOMAIN v |-> IF v[k] = Quote THEN <<Backslash, Quote>> ELSE <<v[k]>>])
  \o <<Quote>>

AppendArrayQuotedBytes(v) ==
  LET Escape(c) == IF c \in {Quote, Backslash} THEN <<Backslash, c>> ELSE <<c>>
  IN  <<Quote>> \o FlattenSeq([k \in DOMAIN v |-> Escape(v[k])]) \o <<Quote>>

Braces(pieces, del) ==
  <<LeftBrace>>
  \o FlattenSeq([k \in DOMAIN pieces |-> (IF k = 1 THEN <<>> ELSE del) \o pieces[k]])
  \o <<RightBrace>>

Written(a, Element(_)) ==
  IF a.nil THEN SqlNull
  ELSE Text(Braces([k \in DOMAIN a.items |-> Element(a.items[k])], <<",">>))

BoolValue(a)    == Written(a, LAMBDA b : <<IF b THEN "t" ELSE "f">>)
ByteaValue(a)   == Written(a, LAMBDA v : <<Quote, Backslash, Backslash, "x">> \o Hex(v) \o <<Quote>>)
Float64Value(a) == Written(a, LAMBDA x : <<NumeralOf(x)>>)
Float32Value(a) == Written(a, LAMBDA x : <<NumeralOf(x)>>)
Int64Value(a)   == Written(a, LAMBDA n : <<NumeralOf(n)>>)
Int32Value(a)   == Written(a, LAMBDA n : <<NumeralOf(n)>>)
StringValue(a)  == Written(a, AppendArrayQuotedBytes)

(* A value that reflection meets is a list of such values or one of the    *)
(* kinds encode knows; lists are nested finitely.                          *)
ASSUME NestingAssumption ==
  \A v \in DOMAIN Nesting :
    /\ Nesting[v] \in Nat
    /\ DOMAIN v \in {{"list"}, {"null"}, {"str"}, {"opaque"}, {"num"}, {"bool"}, {"time"}}
    /\ "str" \in DOMAIN v => v.str \in Seq(STRING)
    /\ "num" \in DOMAIN v => v.num \in Numbers
    /\ "time" \in DOMAIN v => FormatTimestamp(v.time) \in DOMAIN Stamps
    /\ "list" \in DOMAIN v =>
         /\ v.list \in Seq(DOMAIN Nesting)
         /\ \A k \in DOMAIN v.list : Nesting[v.list[k]] < Nesting[v]

(* encode, for what the default converter leaves to it. *)
Encode(infinity, v) ==
  CASE "num"  \in DOMAIN v -> <<NumeralOf(v.num)>>
    [] "bool" \in DOMAIN v -> <<IF v.bool THEN "true" ELSE "false">>
    [] "time" \in DOMAIN v -> <<FormatTS(infinity, v.time)>>

(* appendArray: the texts of the elements, each with the delimiter that    *)
(* follows it.                                                             *)
AppendArray(parts) ==
  [ok   |-> \A k \in DOMAIN parts : parts[k].ok,
   text |-> <<LeftBrace>> \o FlattenSeq([k \in DOMAIN parts |->
              (IF k = 1 THEN <<>> ELSE parts[k - 1].del) \o parts[k].text]) \o <<RightBrace>>,
   del  |-> parts[Len(parts)].del]

(* appendArrayElement, for a value and what was made of its own elements.  *)
(* An empty inner list has no text and no delimiter; a value the default   *)
(* converter refuses is an error.                                          *)
AppendArrayElement(infinity, v, del, parts) ==
  LET Leaf(text) == [ok |-> TRUE, text |-> text, del |-> del]
  IN  CASE "list" \in DOMAIN v /\ v.list # <<>> -> AppendArray(parts)
        [] "list" \in DOMAIN v /\ v.list = <<>> -> [ok |-> TRUE, text |-> <<>>, del |-> <<>>]
        [] "null" \in DOMAIN v -> Leaf(<<"NULL">>)
        [] "str"  \in DOMAIN v -> Leaf(AppendArrayQuotedBytes(v.str))
        [] "opaque" \in DOMAIN v -> [ok |-> FALSE, text |-> <<>>, del |-> del]
        [] OTHER -> Leaf(Encode(infinity, v))

(* The two call each other down the nested lists. *)
Appended(infinity, vs, del) ==
  LET element[v \in DOMAIN Nesting] ==
        AppendArrayElement(infinity, v, del,
          IF "list" \in DOMAIN v THEN [k \in DOMAIN v.list |-> element[v.list[k]]] ELSE <<>>)
  IN  AppendArray([k \in DOMAIN vs |-> element[vs[k]]])

GenericValue(infinity, a, del) ==
  IF a.nil THEN SqlNull
  ELSE IF a.items = <<>> THEN Text(<<LeftBrace, RightBrace>>)
  ELSE LET r == Appended(infinity, a.items, del)
       IN  IF r.ok THEN Text(r.text) ELSE [type |-> "error", text |-> r.text]

-----------------------------------------------------------------------------
(* Elements read back: strconv and the checks of each kind. *)
Numeral(t, Fits(_)) ==
  IF Len(t) = 1 /\ t[1] \in DOMAIN Numerals /\ Fits(Numerals[t[1]])
  THEN Ok(Numerals[t[1]]) ELSE Failed

BoolElement(e)    == IF e.text \in {<<"t">>, <<"f">>} THEN Ok(e.text = <<"t">>) ELSE Failed
ByteaElement(e)   == ParseBytea(e.text)
Float64Element(e) == Numeral(e.text, LAMBDA x : TRUE)
Int64Element(e)   == Numeral(e.text, LAMBDA n : n \in Int64s)
Int32Element(e)   == Numeral(e.text, LAMBDA n : n \in Int32s)
StringElement(e)  == IF e.null THEN Failed ELSE Ok(e.text)

Float32Element(e) ==
  LET x == Numeral(e.text, LAMBDA n : n \in DOMAIN Float32Of)
  IN  IF x.ok THEN Ok(Float32Of[x.value]) ELSE Failed

(* The elements go into a new array, and into the destination when all of  *)
(* them could be read; an empty result keeps the destination's storage.    *)
ScanElements(dest, elems, Element(_)) ==
  LET read == [k \in DOMAIN elems |-> Element(elems[k])]
  IN  IF \A k \in DOMAIN elems : read[k].ok
      THEN Ok(List([k \in DOMAIN elems |-> read[k].value]))
      ELSE [ok |-> FALSE, value |-> dest]

BoolScan(dest, elems)    == ScanElements(dest, elems, BoolElement)
ByteaScan(dest, elems)   == ScanElements(dest, elems, ByteaElement)
Float64Scan(dest, elems) == ScanElements(dest, elems, Float64Element)
Float32Scan(dest, elems) == ScanElements(dest, elems, Float32Element)
Int64Scan(dest, elems)   == ScanElements(dest, elems, Int64Element)
Int32Scan(dest, elems)   == ScanElements(dest, elems, Int32Element)

(* Variant of StringScan: the strings go straight into the destination. *)
StringScanInPlace(dest, elems) ==
  LET bad == SelectInSeq(elems, LAMBDA e : e.null)
  IN  IF bad = 0 THEN ScanElements(dest, elems, StringElement)
      ELSE [ok |-> FALSE, value |-> List([k \in 1..(bad - 1) |-> elems[k].text])]

StringScan(dest, elems) == ScanElements(dest, elems, StringElement)

(* Generic: only element types that implement sql.Scanner are assigned     *)
(* (here one that takes NULL and any text), and the destination is a slice *)
(* or an array of a fixed length.                                          *)
GenericElement(target, e) == IF target.scanner THEN Ok(e) ELSE Failed

GenericScan(target, dest, dims, elems) ==
  IF \/ Len(dims) > 1
     \/ target.shape = "array" /\ target.len # (IF dims = <<>> THEN 0 ELSE dims[1])
  THEN [ok |-> FALSE, value |-> dest]
  ELSE ScanElements(dest, elems, LAMBDA e : GenericElement(target, e))
=============================================================================
