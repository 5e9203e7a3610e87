------------------------- MODULE ArrayRoundTripProofs -------------------------
(***************************************************************************)
(* An array that is written, or printed by the server, and scanned comes   *)
(* back as it was.                                                         *)
(*                                                                         *)
(* The argument: where a text is laid out as the literal of a list of      *)
(* elements, the scanner at each of its labels stands at the place of the  *)
(* layout that belongs to the elements it has read.                        *)
(***************************************************************************)
EXTENDS ArrayParserProofs

Special == {Quote, Backslash}

(* Text x spells t between quotes, from position p to before e: the j-th   *)
(* character, or the backslash before it, stands at at[j].                 *)
QuotedAt(x, p, e, t, at) ==
  /\ t \in Seq(STRING) /\ at \in [1..(Len(t) + 1) -> (p + 1)..(e - 1)]
  /\ at[1] = p + 1 /\ at[Len(t) + 1] = e - 1
  /\ x[p] = Quote /\ x[e - 1] = Quote
  /\ \A j \in 1..Len(t) :
       IF t[j] \in Special
       THEN x[at[j]] = Backslash /\ x[at[j] + 1] = t[j] /\ at[j + 1] = at[j] + 2
       ELSE x[at[j]] = t[j] /\ at[j + 1] = at[j] + 1

(* It spells v without quotes.                                             *)
PlainAt(x, d, p, e, v) ==
  /\ p < e /\ x[p] # LeftBrace /\ x[p] # Quote
  /\ \A k \in p..(e - 1) : x[k] # RightBrace /\ x[k] # d
  /\ v = IF SubSeq(x, p, e - 1) = <<"NULL">> THEN Null ELSE Item(SubSeq(x, p, e - 1))

SpelledAt(x, d, p, e, v) ==
  PlainAt(x, d, p, e, v) \/ \E t, at : v = Item(t) /\ QuotedAt(x, p, e, t, at)

(* It is the literal of a list: the k-th element starts at start[k], and   *)
(* before start[k + 1] stands a delimiter or the closing bracket.          *)
LiteralOf(x, d, items, start) ==
  /\ x \in Seq(STRING) /\ items \in Seq(Items) /\ Len(items) \in Nat \ {0}
  /\ start \in [1..(Len(items) + 1) -> 2..(Len(x) + 1)]
  /\ x[1] = LeftBrace /\ start[1] = 2 /\ start[Len(items) + 1] = Len(x) + 1
  /\ d \notin {LeftBrace, RightBrace, Quote, Backslash}
  /\ \A k \in 1..Len(items) :
       /\ start[k] < start[k + 1] - 1
       /\ x[start[k + 1] - 1] = IF k = Len(items) THEN RightBrace ELSE d
       /\ SpelledAt(x, d, start[k], start[k + 1] - 1, items[k])

(* Where the scanner stands when it has read some of the elements.         *)
Next1 == Len(elems) + 1
NextStart(start) == start[Next1]
NextEnd(start)   == start[Next1 + 1] - 1

InQuotes(p, e, v) ==
  \E t, at :
    /\ v = Item(t) /\ QuotedAt(src, p, e, t, at)
    /\ Len(elem) <= Len(t) /\ \A j \in 1..Len(elem) : elem[j] = t[j]
    /\ IF escape
       THEN /\ Len(elem) < Len(t) /\ t[Len(elem) + 1] \in Special
            /\ i = at[Len(elem) + 1] + 1
       ELSE i = at[Len(elem) + 1]

InPlain(p, e, v) ==
  /\ PlainAt(src, del[1], p, e, v)
  /\ i \in p..e /\ elem = SubSeq(src, p, i - 1)

ReadSoFarAre(items) ==
  Len(elems) <= Len(items) /\ \A j \in 1..Len(elems) : elems[j] = items[j]

(* Before an element, the only dimension counts those read.                *)
Counting(items) ==
  Len(elems) < Len(items) /\ Len(dims) = 1 /\ dims[1] = Len(elems) /\ depth = 1

AtOpen == pc = "open" /\ escape = FALSE /\ i \in {1, 2}

AtElement(items, start) ==
  pc = "element" /\ escape = FALSE /\ Counting(items) /\ i = NextStart(start)

AtQuoted(items, start) ==
  /\ pc = "quoted" /\ escape \in BOOLEAN /\ Counting(items)
  /\ InQuotes(NextStart(start), NextEnd(start), items[Next1])

AtPlain(items, start) ==
  /\ pc = "plain" /\ escape = FALSE /\ Counting(items)
  /\ InPlain(NextStart(start), NextEnd(start), items[Next1])

AtAfter(items, start) ==
  /\ pc = "after" /\ escape = FALSE /\ Len(dims) = 1 /\ depth = 1
  /\ Len(elems) > 0 /\ dims[1] + 1 = Len(elems) /\ i = NextStart(start) - 1

AllRead(items) ==
  /\ pc \in {"after", "close", "parsed"} /\ escape = FALSE /\ Len(dims) = 1 /\ depth = 0 /\ AtEnd
  /\ Len(elems) = Len(items) /\ dims[1] = Len(elems)

Progress(items, start) ==
  /\ ReadSoFarAre(items)
  /\ \/ AtOpen \/ AtElement(items, start) \/ AtQuoted(items, start) \/ AtPlain(items, start)
     \/ AtAfter(items, start) \/ AllRead(items)

Scanning(items, start) ==
  ParserInv /\ Len(del) = 1 /\ LiteralOf(src, del[1], items, start) /\ Progress(items, start)

-----------------------------------------------------------------------------
(* The scanner on a literal, action by action. *)

LEMMA SpecialsDiffer ==
  /\ LeftBrace # RightBrace /\ LeftBrace # Quote /\ LeftBrace # Backslash
  /\ RightBrace # Quote /\ RightBrace # Backslash /\ Quote # Backslash
BY Zenon DEF LeftBrace, RightBrace, Quote, Backslash

(* A delimiter of one character is found where that character is.          *)
LEMMA OneDelimiter ==
  ASSUME ParserTypes, Len(del) = 1
  PROVE  AtDelimiter <=> ~AtEnd /\ src[i] = del[1]
<1>1. /\ del \in Seq(STRING) /\ src \in Seq(STRING) /\ Len(src) \in Nat /\ i \in Nat \ {0}
  BY DelimitersAssumption, LenProperties DEF ParserTypes
<1>2. AtDelimiter <=> i <= Len(src) /\ SubSeq(src, i, i) = del
  <2>1. i + Len(del) - 1 = i
    BY <1>1
  <2>2. QED
    BY <2>1, Zenon DEF AtDelimiter
<1>3. AtEnd <=> ~(i <= Len(src))
  BY <1>1 DEF AtEnd
<1>4. ASSUME i <= Len(src)
      PROVE  SubSeq(src, i, i) = del <=> src[i] = del[1]
  <2>1. \A k \in i..i : src[k] \in STRING
    BY <1>1, <1>4, ElementOfSeq
  <2>2. SubSeq(src, i, i) \in Seq(STRING) /\ Len(SubSeq(src, i, i)) = 1 /\ SubSeq(src, i, i)[1] = src[i]
    BY <1>1, <2>1, SubSeqProperties
  <2>3. src[i] = del[1] => SubSeq(src, i, i) = del
    <3> DEFINE one == SubSeq(src, i, i)
    <3> HIDE DEF one
    <3>1. ASSUME one[1] = del[1], one \in Seq(STRING), Len(one) = 1 PROVE one = del
      BY <1>1, <3>1, SeqEqual
    <3>2. QED
      BY <2>2, <3>1 DEF one
  <2>4. QED
    BY <2>2, <2>3
<1>5. QED
  BY <1>2, <1>3, <1>4

(* The element that comes next lies within the text, and starts with a     *)
(* quote or with a character that opens and closes nothing.                *)
LEMMA NextElement ==
  ASSUME NEW items, NEW start, ParserTypes, LiteralOf(src, del[1], items, start),
         Len(elems) < Len(items)
  PROVE  /\ Len(elems) \in Nat /\ Len(src) \in Nat /\ Next1 \in 1..Len(items)
         /\ NextStart(start) \in 2..Len(src) /\ NextEnd(start) \in 2..Len(src)
         /\ NextStart(start) < NextEnd(start)
         /\ src[NextEnd(start)] = IF Next1 = Len(items) THEN RightBrace ELSE del[1]
         /\ SpelledAt(src, del[1], NextStart(start), NextEnd(start), items[Next1])
<1>1. Len(elems) \in Nat /\ Len(src) \in Nat /\ Len(items) \in Nat /\ Next1 \in 1..Len(items)
  BY LenProperties DEF ParserTypes, LiteralOf, Next1
<1> DEFINE k == Next1
<1>2. k \in 1..Len(items) /\ k \in 1..(Len(items) + 1) /\ k + 1 \in 1..(Len(items) + 1)
  BY <1>1
<1> HIDE DEF k
<1>3. /\ start[k] \in 2..(Len(src) + 1) /\ start[k + 1] \in 2..(Len(src) + 1)
      /\ start[k] < start[k + 1] - 1
  BY <1>2 DEF LiteralOf
<1>4. /\ src[start[k + 1] - 1] = IF k = Len(items) THEN RightBrace ELSE del[1]
      /\ SpelledAt(src, del[1], start[k], start[k + 1] - 1, items[k])
  BY <1>2 DEF LiteralOf
<1>5. /\ start[k] \in 2..Len(src) /\ start[k + 1] - 1 \in 2..Len(src)
      /\ start[k] < start[k + 1] - 1
  BY <1>1, <1>3
<1>6. QED
  BY <1>1, <1>4, <1>5, Zenon DEF NextStart, NextEnd, k

LEMMA StartsWith ==
  ASSUME NEW x, NEW d, NEW p, NEW e, NEW v, SpelledAt(x, d, p, e, v), p \in Int, e \in Int, d # LeftBrace
  PROVE  /\ x[p] # LeftBrace /\ x[p] # RightBrace
         /\ x[p] # Quote => PlainAt(x, d, p, e, v)
         /\ x[p] = Quote => \E t, at : v = Item(t) /\ QuotedAt(x, p, e, t, at)
<1>1. CASE PlainAt(x, d, p, e, v)
  BY <1>1 DEF PlainAt
<1>2. CASE \E t, at : v = Item(t) /\ QuotedAt(x, p, e, t, at)
  <2>1. x[p] = Quote
    BY <1>2 DEF QuotedAt
  <2>2. QED
    BY <1>2, <2>1, SpecialsDiffer
<1>3. QED
  BY <1>1, <1>2 DEF SpelledAt

LEMMA OpenProgress ==
  ASSUME NEW items, NEW start, Scanning(items, start), Open
  PROVE  Progress(items, start)'
<1>1. /\ pc = "open" /\ dims = <<>> /\ elems = <<>> /\ depth = i - 1 /\ Len(<<>>) = 0
      /\ UNCHANGED <<src, elems, elem, escape>>
  BY EmptySeq DEF Scanning, ParserInv, DepthsCounted, Open
<1>2. i \in {1, 2} /\ escape = FALSE
  BY <1>1 DEF Scanning, Progress, AtOpen, AtElement, AtQuoted, AtPlain, AtAfter, AllRead
<1>3. /\ Len(items) \in Nat \ {0} /\ Len(src) \in Nat /\ src[1] = LeftBrace /\ start[1] = 2
      /\ Len(elems) = 0 /\ ParserTypes
  BY <1>1, LenProperties DEF Scanning, LiteralOf, ParserInv, ParserTypes
<1>4. 2 <= Len(src) /\ src[2] # LeftBrace /\ src[2] # RightBrace
  <2>1. /\ Next1 = 1 /\ NextStart(start) = 2 /\ 2 \in 2..Len(src) /\ NextEnd(start) \in Int
        /\ SpelledAt(src, del[1], 2, NextEnd(start), items[1])
    BY <1>3, NextElement DEF Scanning, Next1, NextStart
  <2>2. QED
    BY <2>1, StartsWith DEF Scanning, LiteralOf
<1>5. ReadSoFarAre(items)'
  BY <1>1, <1>3 DEF ReadSoFarAre
<1>6. CASE i = 1
  <2>1. At(LeftBrace) /\ ~At(RightBrace)
    BY <1>3, <1>4, <1>6, SpecialsDiffer DEF At, AtEnd
  <2>2. AtOpen'
    BY <1>1, <1>2, <1>6, <2>1 DEF Open, AtOpen
  <2>3. QED
    BY <1>5, <2>2 DEF Progress
<1>7. CASE i = 2
  <2>1. ~At(LeftBrace) /\ ~At(RightBrace)
    BY <1>4, <1>7 DEF At
  <2>2. /\ i' = 2 /\ pc' = "element" /\ dims' = [d \in 1..(i - 1) |-> 0] /\ depth' = 1
    BY <1>1, <1>7, <2>1 DEF Open, Label
  <2>3. Len(dims') = 1 /\ dims'[1] = 0
    BY <1>7, <2>2
  <2>4. NextStart(start)' = 2
    BY <1>1, <1>3 DEF NextStart, Next1
  <2>5. AtElement(items, start)'
    BY <1>1, <1>2, <1>3, <2>2, <2>3, <2>4 DEF AtElement, Counting
  <2>6. QED
    BY <1>5, <2>5 DEF Progress
<1>8. QED
  BY <1>2, <1>6, <1>7

(* At the start of an element there is no bracket.                         *)
LEMMA StartElementProgress ==
  ASSUME NEW items, NEW start, Scanning(items, start), Nest \/ StartElement
  PROVE  Progress(items, start)'
<1> DEFINE p == NextStart(start)
           e == NextEnd(start)
           v == items[Next1]
<1>1. /\ pc = "element" /\ AtElement(items, start) /\ ReadSoFarAre(items) /\ ParserTypes
      /\ Len(elems) < Len(items) /\ i = p
  BY DEF Scanning, ParserInv, Progress, AtOpen, AtElement, AtQuoted, AtPlain, AtAfter, AllRead,
         Counting, Nest, StartElement
<1>2. /\ p \in 2..Len(src) /\ e \in 2..Len(src) /\ p < e /\ Len(src) \in Nat
      /\ SpelledAt(src, del[1], p, e, v)
  BY <1>1, NextElement DEF Scanning
<1>3. /\ src[p] # LeftBrace
      /\ src[p] # Quote => PlainAt(src, del[1], p, e, v)
      /\ src[p] = Quote => \E t, at : v = Item(t) /\ QuotedAt(src, p, e, t, at)
  <2>1. del[1] # LeftBrace /\ p \in Int /\ e \in Int
    BY <1>2 DEF Scanning, LiteralOf
  <2> HIDE DEF p, e, v
  <2>2. QED
    BY <1>2, <2>1, StartsWith
<1>4. ~AtEnd /\ ~At(LeftBrace) /\ (At(Quote) <=> src[p] = Quote)
  BY <1>1, <1>2, <1>3 DEF At, AtEnd
<1>5. /\ elem' = <<>> /\ UNCHANGED <<src, del, depth, dims, elems, escape>>
      /\ \/ src[p] = Quote /\ pc' = "quoted" /\ i' = i + 1
         \/ src[p] # Quote /\ pc' = "plain" /\ i' = i
  BY <1>4 DEF Nest, StartElement, Label
<1>6. /\ ReadSoFarAre(items)' /\ Counting(items)' /\ escape' = FALSE /\ Len(elem') = 0
      /\ p' = p /\ e' = e /\ v' = v
  BY <1>1, <1>5, EmptySeq DEF ReadSoFarAre, AtElement, Counting, NextStart, NextEnd, Next1
<1>7. CASE src[p] = Quote
  <2>1. PICK t, at : v = Item(t) /\ QuotedAt(src, p, e, t, at)
    BY <1>3, <1>7
  <2>2. at[1] = i' /\ Len(t) \in Nat
    BY <1>1, <1>5, <1>7, <2>1, LenProperties DEF QuotedAt
  <2>3. InQuotes(p, e, v)'
    <3> HIDE DEF p, e, v
    <3>1. QED
      BY <1>5, <1>6, <2>1, <2>2 DEF InQuotes
  <2>4. AtQuoted(items, start)'
    BY <1>5, <1>6, <1>7, <2>3 DEF AtQuoted
  <2>5. QED
    BY <1>6, <2>4 DEF Progress
<1>8. CASE src[p] # Quote
  <2>1. SubSeq(src, p, p - 1) = <<>>
    BY <1>2, SubSeqEmpty
  <2>2. InPlain(p, e, v)'
    <3> HIDE DEF p, e, v
    <3>1. i' = p /\ p \in p..e /\ SubSeq(src', p', i' - 1) = <<>>
      BY <1>1, <1>2, <1>5, <1>6, <1>8, <2>1
    <3>2. PlainAt(src, del[1], p, e, v)'
      BY <1>3, <1>5, <1>6, <1>8
    <3>3. QED
      BY <1>5, <1>6, <3>1, <3>2 DEF InPlain
  <2>3. AtPlain(items, start)'
    BY <1>5, <1>6, <1>8, <2>2 DEF AtPlain
  <2>4. QED
    BY <1>6, <2>3 DEF Progress
<1>9. QED
  BY <1>7, <1>8

(* The element that was read is the next one of the list.                  *)
LEMMA ReadOne ==
  ASSUME NEW items, NEW start, ParserTypes, LiteralOf(src, del[1], items, start),
         ReadSoFarAre(items), Counting(items),
         items[Next1] \in Items, elems' = Append(elems, items[Next1]), pc' = "after", escape' = FALSE,
         i' = NextEnd(start), UNCHANGED <<dims, depth>>
  PROVE  Progress(items, start)'
<1>1. /\ Len(elems) \in Nat /\ Len(items) \in Nat /\ elems \in Seq(Items)
      /\ start \in [1..(Len(items) + 1) -> 2..(Len(src) + 1)]
  BY LenProperties DEF ParserTypes, LiteralOf
<1>2. /\ Len(elems') = Len(elems) + 1 /\ elems'[Len(elems) + 1] = items[Next1]
      /\ \A j \in 1..Len(elems) : elems'[j] = elems[j]
  BY <1>1, AppendProperties
<1>3. ReadSoFarAre(items)'
  BY <1>1, <1>2 DEF ReadSoFarAre, Counting, Next1
<1>4. i' = NextStart(start)' - 1
  BY <1>1, <1>2 DEF NextEnd, NextStart, Next1
<1>5. AtAfter(items, start)'
  BY <1>1, <1>2, <1>4 DEF AtAfter, Counting
<1>6. QED
  BY <1>3, <1>5 DEF Progress

(* Between the quotes the characters follow each other, a quote or a       *)
(* backslash after the backslash before it.                                *)
LEMMA QuotedProgress ==
  ASSUME NEW items, NEW start, Scanning(items, start), Quoted
  PROVE  Progress(items, start)'
<1> DEFINE p == NextStart(start)
           e == NextEnd(start)
           v == items[Next1]
           n == Len(elem)
<1>1. /\ pc = "quoted" /\ AtQuoted(items, start) /\ ReadSoFarAre(items) /\ ParserTypes
      /\ Counting(items) /\ Len(elems) < Len(items) /\ escape \in BOOLEAN
      /\ UNCHANGED <<src, del, depth, dims>>
  BY DEF Scanning, ParserInv, Progress, AtOpen, AtElement, AtQuoted, AtPlain, AtAfter, AllRead,
         Counting, Quoted
<1>2. /\ p \in 2..Len(src) /\ e \in 2..Len(src) /\ p < e /\ Len(src) \in Nat
      /\ Next1 \in 1..Len(items)
  BY <1>1, NextElement DEF Scanning
<1>3. PICK t, at :
        /\ v = Item(t) /\ QuotedAt(src, p, e, t, at)
        /\ Len(elem) <= Len(t) /\ \A j \in 1..Len(elem) : elem[j] = t[j]
        /\ IF escape
           THEN /\ Len(elem) < Len(t) /\ t[Len(elem) + 1] \in Special
                /\ i = at[Len(elem) + 1] + 1
           ELSE i = at[Len(elem) + 1]
  BY <1>1 DEF AtQuoted, InQuotes
<1>4. /\ n \in Nat /\ Len(t) \in Nat /\ elem \in Seq(STRING) /\ t \in Seq(STRING)
      /\ at \in [1..(Len(t) + 1) -> (p + 1)..(e - 1)] /\ at[Len(t) + 1] = e - 1 /\ src[e - 1] = Quote
  BY <1>1, <1>3, LenProperties DEF ParserTypes, QuotedAt
<1>5. ASSUME n < Len(t)
      PROVE  /\ n + 1 \in 1..Len(t) /\ at[n + 1] \in (p + 1)..(e - 1) /\ at[n + 2] \in (p + 1)..(e - 1)
             /\ IF t[n + 1] \in Special
                THEN src[at[n + 1]] = Backslash /\ src[at[n + 1] + 1] = t[n + 1] /\ at[n + 2] = at[n + 1] + 2
                ELSE src[at[n + 1]] = t[n + 1] /\ at[n + 2] = at[n + 1] + 1
  <2>1. n + 1 \in 1..Len(t) /\ n + 1 \in 1..(Len(t) + 1) /\ n + 2 \in 1..(Len(t) + 1) /\ n + 1 + 1 = n + 2
    BY <1>4, <1>5
  <2> HIDE DEF n, p, e
  <2>2. QED
    BY <1>3, <1>4, <2>1 DEF QuotedAt
<1>6. UNCHANGED elems => UNCHANGED <<p, e, v>> /\ ReadSoFarAre(items)' /\ Counting(items)'
  BY <1>1 DEF NextStart, NextEnd, Next1, ReadSoFarAre, Counting
<1>7. ASSUME n < Len(t), src[i] = t[n + 1], i' = at[n + 2], ~AtEnd, escape' = FALSE, Take, pc' = "quoted"
      PROVE  Progress(items, start)'
  <2>1. src[i] \in STRING
    BY <1>1, <1>7, CharIsString
  <2>2. /\ Len(elem') = n + 1 /\ elem'[n + 1] = t[n + 1] /\ \A j \in 1..n : elem'[j] = elem[j]
    BY <1>4, <1>7, <2>1, AppendProperties DEF Take
  <2>3. Len(elem') <= Len(t) /\ \A j \in 1..Len(elem') : elem'[j] = t[j]
    BY <1>3, <1>4, <1>7, <2>2
  <2>4. i' = at[Len(elem') + 1]
    BY <1>4, <1>7, <2>2
  <2>5. UNCHANGED elems
    BY <1>7 DEF Take
  <2>6. InQuotes(p, e, v)'
    <3> HIDE DEF p, e, v, n
    <3>1. QED
      BY <1>1, <1>3, <1>6, <1>7, <2>3, <2>4, <2>5 DEF InQuotes
  <2>7. AtQuoted(items, start)'
    BY <1>1, <1>6, <1>7, <2>5, <2>6 DEF AtQuoted
  <2>8. QED
    BY <1>6, <2>5, <2>7 DEF Progress
<1>8. CASE escape
  <2>1. n < Len(t) /\ t[n + 1] \in Special /\ i = at[n + 1] + 1
    BY <1>3, <1>8
  <2>2. src[i] = t[n + 1] /\ i + 1 = at[n + 2] /\ i < e /\ i \in Int
    <3>1. /\ src[at[n + 1] + 1] = t[n + 1] /\ at[n + 2] = at[n + 1] + 2
          /\ at[n + 1] \in (p + 1)..(e - 1) /\ at[n + 2] \in (p + 1)..(e - 1)
      BY <1>5, <2>1
    <3>2. p \in Int /\ e \in Int
      BY <1>2
    <3> HIDE DEF n, p, e
    <3>3. QED
      BY <2>1, <3>1, <3>2
  <2>3. ~AtEnd
    BY <1>2, <2>2 DEF AtEnd
  <2>4. Take /\ escape' = FALSE /\ i' = i + 1 /\ pc' = pc
    BY <1>8, <2>3 DEF Quoted
  <2>5. QED
    BY <1>1, <1>7, <2>1, <2>2, <2>3, <2>4
<1>9. CASE ~escape /\ n < Len(t) /\ t[n + 1] \in Special
  <2>1. i = at[n + 1] /\ src[i] = Backslash /\ i < e /\ i \in Int
    BY <1>2, <1>3, <1>4, <1>5, <1>9
  <2>2. ~AtEnd /\ At(Backslash) /\ ~At(Quote)
    BY <1>2, <2>1, SpecialsDiffer DEF At, AtEnd
  <2>3. escape' = TRUE /\ i' = i + 1 /\ UNCHANGED <<pc, elem, elems>>
    BY <1>1, <1>9, <2>2, Zenon DEF Quoted
  <2>4. InQuotes(p, e, v)'
    <3>1. i' = at[n + 1] + 1
      BY <2>1, <2>3
    <3> HIDE DEF p, e, v
    <3>2. QED
      BY <1>1, <1>3, <1>6, <1>9, <2>3, <3>1 DEF InQuotes
  <2>5. AtQuoted(items, start)'
    BY <1>1, <1>6, <2>3, <2>4 DEF AtQuoted
  <2>6. QED
    BY <1>6, <2>3, <2>5 DEF Progress
<1>10. CASE ~escape /\ n < Len(t) /\ t[n + 1] \notin Special
  <2>1. i = at[n + 1] /\ src[i] = t[n + 1] /\ i + 1 = at[n + 2] /\ i < e /\ i \in Int
    BY <1>2, <1>3, <1>4, <1>5, <1>10
  <2>2. ~AtEnd /\ ~At(Backslash) /\ ~At(Quote)
    BY <1>2, <1>10, <2>1 DEF At, AtEnd, Special
  <2>3. Take /\ i' = i + 1 /\ UNCHANGED <<pc, escape>>
    BY <1>1, <1>10, <2>2, Zenon DEF Quoted
  <2>4. escape' = FALSE
    BY <1>1, <1>10, <2>3
  <2>5. QED
    BY <1>1, <1>7, <1>10, <2>1, <2>2, <2>3, <2>4
<1>11. CASE ~escape /\ ~(n < Len(t))
  <2>1. n = Len(t) /\ i = e - 1 /\ src[i] = Quote
    BY <1>3, <1>4, <1>11
  <2>2. ~AtEnd /\ ~At(Backslash) /\ At(Quote)
    BY <1>2, <2>1, SpecialsDiffer DEF At, AtEnd
  <2>3. elems' = Append(elems, Item(elem)) /\ pc' = "after" /\ i' = i + 1 /\ UNCHANGED <<elem, escape>>
    BY <1>11, <2>2 DEF Quoted, Label
  <2>4. elem = t
    BY <1>3, <1>4, <2>1, SeqEqual
  <2>5. items[Next1] = Item(elem) /\ items[Next1] \in Items
    BY <1>3, <1>4, <2>4 DEF Items
  <2>6. i' = NextEnd(start) /\ escape' = FALSE
    BY <1>1, <1>2, <1>11, <2>1, <2>3
  <2>7. QED
    BY <1>1, <2>3, <2>5, <2>6, ReadOne DEF Scanning
<1>12. QED
  BY <1>8, <1>9, <1>10, <1>11

(* Without quotes the characters are taken up to the delimiter or bracket. *)
LEMMA PlainProgress ==
  ASSUME NEW items, NEW start, Scanning(items, start), Plain
  PROVE  Progress(items, start)'
<1> DEFINE p == NextStart(start)
           e == NextEnd(start)
           v == items[Next1]
           d == del[1]
<1>1. /\ pc = "plain" /\ AtPlain(items, start) /\ ReadSoFarAre(items) /\ ParserTypes
      /\ Counting(items) /\ Len(elems) < Len(items) /\ escape = FALSE
      /\ UNCHANGED <<src, del, depth, dims, escape>>
  BY DEF Scanning, ParserInv, Progress, AtOpen, AtElement, AtQuoted, AtPlain, AtAfter, AllRead,
         Counting, Plain
<1>2. /\ p \in 2..Len(src) /\ e \in 2..Len(src) /\ p < e /\ Len(src) \in Nat
      /\ Next1 \in 1..Len(items) /\ src \in Seq(STRING)
      /\ src[e] = IF Next1 = Len(items) THEN RightBrace ELSE d
  BY <1>1, NextElement DEF Scanning, ParserTypes
<1>3. PlainAt(src, d, p, e, v) /\ i \in p..e /\ elem = SubSeq(src, p, i - 1)
  BY <1>1 DEF AtPlain, InPlain
<1>4. AtDelimiter <=> ~AtEnd /\ src[i] = d
  BY <1>1, OneDelimiter DEF Scanning
<1>5. i \in Nat /\ ~AtEnd /\ i <= Len(src)
  BY <1>2, <1>3 DEF AtEnd
<1>6. CASE i < e
  <2>1. src[i] # RightBrace /\ src[i] # d
    BY <1>2, <1>3, <1>6 DEF PlainAt
  <2>2. ~AtDelimiter /\ ~At(RightBrace)
    BY <1>4, <2>1 DEF At
  <2>3. Take /\ i' = i + 1 /\ UNCHANGED pc
    BY <1>1, <1>5, <2>2, Zenon DEF Plain
  <2>4. UNCHANGED elems /\ UNCHANGED <<p, e, v, d>> /\ ReadSoFarAre(items)' /\ Counting(items)'
    BY <1>1, <2>3 DEF Take, NextStart, NextEnd, Next1, ReadSoFarAre, Counting
  <2>5. elem' = SubSeq(src, p, i)
    <3> HIDE DEF p, e
    <3>1. /\ p \in 1..Len(src) /\ i \in p..Len(src) /\ p \in Int /\ i \in Int /\ i - 1 \in Int
      BY <1>2, <1>3, <1>5
    <3>2. SubSeq(src, p, i) = SubSeq(src, p, i - 1) \o <<src[i]>>
      BY <1>2, <3>1, SubSeqRecursiveSecond
    <3>3. elem \in Seq(STRING) /\ src[i] \in STRING
      BY <1>1, <1>5, CharIsString DEF ParserTypes
    <3>4. elem' = elem \o <<src[i]>>
      BY <2>3, <3>3, AppendIsConcat DEF Take
    <3>5. QED
      BY <1>3, <3>2, <3>4
  <2>6. InPlain(p, e, v)'
    <3>1. i' \in p..e /\ i' - 1 = i
      BY <1>2, <1>3, <1>6, <2>3
    <3> HIDE DEF p, e, v, d
    <3>2. PlainAt(src, d, p, e, v)'
      BY <1>1, <1>3, <2>4
    <3>3. QED
      BY <1>1, <2>4, <2>5, <3>1, <3>2 DEF InPlain, d
  <2>7. AtPlain(items, start)'
    BY <1>1, <2>3, <2>4, <2>6 DEF AtPlain
  <2>8. QED
    BY <2>4, <2>7 DEF Progress
<1>7. CASE i = e
  <2>1. AtDelimiter \/ At(RightBrace)
    BY <1>2, <1>4, <1>5, <1>7 DEF At
  <2>2. elem # <<>> /\ SubSeq(src, p, e - 1) \in Seq(STRING)
    <3> HIDE DEF p, e
    <3>1. p \in Int /\ e - 1 \in Int /\ p <= e - 1 /\ \A k \in p..(e - 1) : k \in 1..Len(src)
      BY <1>2
    <3>2. \A k \in p..(e - 1) : src[k] \in STRING
      BY <1>2, <3>1, ElementOfSeq
    <3>3. SubSeq(src, p, e - 1) \in Seq(STRING) /\ Len(SubSeq(src, p, e - 1)) = (e - 1) - p + 1
      BY <3>1, <3>2, SubSeqProperties
    <3>4. Len(SubSeq(src, p, e - 1)) # 0
      BY <3>1, <3>3
    <3>5. QED
      BY <1>3, <1>7, <3>3, <3>4, EmptySeq
  <2>3. v = IF elem = <<"NULL">> THEN Null ELSE Item(elem)
    BY <1>3, <1>7 DEF PlainAt
  <2>4. v \in Items
    BY <1>3, <1>7, <2>2, <2>3 DEF Items
  <2>5. elems' = Append(elems, v) /\ pc' = "after" /\ i' = e
    BY <1>1, <1>5, <1>7, <2>1, <2>2, <2>3 DEF Plain, Label
  <2>6. QED
    BY <1>1, <2>4, <2>5, ReadOne DEF Scanning
<1>8. QED
  BY <1>2, <1>3, <1>6, <1>7

(* A delimiter leads to the next element, the bracket to the end.          *)
LEMMA AfterProgress ==
  ASSUME NEW items, NEW start, Scanning(items, start), After
  PROVE  Progress(items, start)'
<1>1. /\ pc = "after" /\ ReadSoFarAre(items) /\ ParserTypes /\ escape = FALSE
      /\ AtAfter(items, start) \/ AllRead(items)
      /\ Len(elems) \in Nat /\ Len(items) \in Nat /\ Len(src) \in Nat /\ i \in Nat /\ dims \in Seq(Nat)
      /\ UNCHANGED <<src, del, elems, elem, escape>>
  BY LenProperties
  DEF Scanning, ParserInv, ParserTypes, LiteralOf, Progress, AtOpen, AtElement, AtQuoted, AtPlain,
      AtAfter, AllRead, After
<1>2. ReadSoFarAre(items)'
  BY <1>1 DEF ReadSoFarAre
<1>3. AtDelimiter <=> ~AtEnd /\ src[i] = del[1]
  BY <1>1, OneDelimiter DEF Scanning
<1>4. CASE AllRead(items)
  <2>1. AtEnd /\ ~At(RightBrace) /\ ~AtDelimiter
    BY <1>3, <1>4 DEF AllRead, At
  <2>2. pc' = "close" /\ UNCHANGED <<i, depth, dims>>
    BY <2>1, Zenon DEF After, Label
  <2>3. AllRead(items)'
    BY <1>1, <1>4, <2>2 DEF AllRead, AtEnd
  <2>4. QED
    BY <1>2, <2>3 DEF Progress
<1>5. CASE AtAfter(items, start)
  <2> DEFINE k == Len(elems)
  <2>1. /\ k \in 1..Len(items) /\ k + 1 \in 1..(Len(items) + 1) /\ i = start[k + 1] - 1
        /\ Len(dims) = 1 /\ depth = 1 /\ dims[1] + 1 = k
    BY <1>1, <1>5 DEF AtAfter, ReadSoFarAre, NextStart, Next1
  <2>2. /\ src[i] = IF k = Len(items) THEN RightBrace ELSE del[1]
        /\ start[k + 1] \in 2..(Len(src) + 1) /\ start[Len(items) + 1] = Len(src) + 1
        /\ del[1] # RightBrace
    <3> HIDE DEF k
    <3>1. QED
      BY <2>1 DEF Scanning, LiteralOf
  <2>3. ~AtEnd
    BY <1>1, <2>1, <2>2 DEF AtEnd
  <2>4. Len(Counted(1)) = 1 /\ Counted(1)[1] = k
    <3>1. 1 \in 1..Len(dims)
      BY <2>1
    <3>2. Len(Counted(1)) = Len(dims) /\ Counted(1)[1] = dims[1] + 1
      BY <1>1, <3>1, CountOne
    <3>3. QED
      BY <2>1, <3>2
  <2>5. CASE k = Len(items)
    <3>1. ~AtDelimiter /\ At(RightBrace)
      BY <1>3, <2>2, <2>3, <2>5 DEF At
    <3>2. dims' = Counted(1) /\ i' = i + 1 /\ depth' = 0 /\ pc' = "after"
      BY <1>1, <2>1, <2>3, <3>1 DEF After, Label
    <3>3. AtEnd'
      BY <1>1, <2>1, <2>2, <2>5, <3>2 DEF AtEnd
    <3>4. AllRead(items)'
      BY <1>1, <2>4, <2>5, <3>2, <3>3 DEF AllRead
    <3>5. QED
      BY <1>2, <3>4 DEF Progress
  <2>6. CASE k # Len(items)
    <3>1. AtDelimiter /\ ~At(RightBrace)
      BY <1>3, <2>2, <2>3, <2>6 DEF At
    <3>2. dims' = Counted(1) /\ i' = i + 1 /\ depth' = 1 /\ pc' = "element"
      BY <1>1, <2>1, <2>3, <3>1 DEF After, Label, Scanning
    <3>3. i' = NextStart(start)'
      BY <1>1, <2>1, <2>2, <3>2 DEF NextStart, Next1
    <3>4. AtElement(items, start)'
      BY <1>1, <2>1, <2>4, <2>6, <3>2, <3>3 DEF AtElement, Counting
    <3>5. QED
      BY <1>2, <3>4 DEF Progress
  <2>7. QED
    BY <2>5, <2>6
<1>6. QED
  BY <1>1, <1>4, <1>5

LEMMA NoRemainder == \A n \in Nat \ {0} : n % n = 0
OBVIOUS

(* At the end the number of elements is a multiple of the dimension.       *)
LEMMA CloseProgress ==
  ASSUME NEW items, NEW start, Scanning(items, start), Close
  PROVE  Progress(items, start)'
<1>1. /\ pc = "close" /\ ReadSoFarAre(items) /\ AllRead(items)
      /\ Len(items) \in Nat \ {0} /\ dims \in Seq(Nat)
      /\ UNCHANGED <<src, del, dims, elems, elem, escape>>
  BY DEF Scanning, ParserInv, ParserTypes, LiteralOf, Progress, AtOpen, AtElement, AtQuoted, AtPlain,
         AtAfter, AllRead, Close
<1>2. AtEnd /\ ~At(RightBrace) /\ depth = 0 /\ Len(dims) = 1
  BY <1>1 DEF AllRead, At
<1>3. ~Mismatch
  <2>1. DOMAIN dims = {1} /\ dims[1] = Len(items) /\ Len(elems) = Len(items)
    <3>1. DOMAIN dims = 1..1
      BY <1>1, <1>2, LenProperties
    <3>2. QED
      BY <1>1, <3>1 DEF AllRead
  <2>2. QED
    BY <1>1, <2>1, NoRemainder DEF Mismatch
<1>4. pc' = "parsed" /\ UNCHANGED <<i, depth>>
  BY <1>2, <1>3 DEF Close, Label
<1>5. AllRead(items)' /\ ReadSoFarAre(items)'
  BY <1>1, <1>4 DEF AllRead, AtEnd, ReadSoFarAre
<1>6. QED
  BY <1>5 DEF Progress

LEMMA LiteralProgress ==
  ASSUME NEW items, NEW start, Scanning(items, start), Parse
  PROVE  Progress(items, start)'
BY OpenProgress, StartElementProgress, QuotedProgress, PlainProgress, AfterProgress, CloseProgress
DEF Parse

(* The literal of no elements has neither elements nor dimensions.         *)
Empty == <<LeftBrace, RightBrace>>

EmptyProgress ==
  /\ dims = <<>> /\ elems = <<>>
  /\ \/ pc = "open" /\ i \in {1, 2} /\ depth = i - 1
     \/ pc = "close" /\ i = 2 /\ depth = 1
     \/ pc = "close" /\ i = 3 /\ depth = 0
     \/ pc = "parsed"

LEMMA EmptyStep ==
  ASSUME src = Empty, EmptyProgress, Parse
  PROVE  EmptyProgress'
<1>1. Len(src) = 2 /\ src[1] = LeftBrace /\ src[2] = RightBrace
  BY DEF Empty
<1>2. CASE pc = "open" /\ i = 1
  <2>1. At(LeftBrace) /\ ~At(RightBrace)
    BY <1>1, <1>2, SpecialsDiffer DEF At, AtEnd
  <2>2. i' = 2 /\ depth' = 1 /\ UNCHANGED <<pc, dims, elems>>
    BY <1>2, <2>1 DEF EmptyProgress, Parse, Open, Nest, StartElement, Quoted, Plain, After, Close
  <2>3. QED
    BY <1>2, <2>2 DEF EmptyProgress
<1>3. CASE pc = "open" /\ i = 2
  <2>1. ~At(LeftBrace) /\ At(RightBrace)
    BY <1>1, <1>3, SpecialsDiffer DEF At, AtEnd
  <2>2. pc' = "close" /\ UNCHANGED <<i, depth, dims, elems>>
    BY <1>3, <2>1 DEF Parse, Open, Nest, StartElement, Quoted, Plain, After, Close, Label
  <2>3. QED
    BY <1>3, <2>2 DEF EmptyProgress
<1>4. CASE pc = "close" /\ i = 2 /\ depth = 1
  <2>1. At(RightBrace) /\ ~AtEnd
    BY <1>1, <1>4 DEF At, AtEnd
  <2>2. pc' = "close" /\ depth' = 0 /\ i' = 3 /\ UNCHANGED <<dims, elems>>
    BY <1>4, <2>1 DEF Parse, Open, Nest, StartElement, Quoted, Plain, After, Close
  <2>3. QED
    BY <1>4, <2>2 DEF EmptyProgress
<1>5. CASE pc = "close" /\ i = 3 /\ depth = 0
  <2>1. ~At(RightBrace) /\ AtEnd
    BY <1>1, <1>5 DEF At, AtEnd
  <2>2. DOMAIN dims = {}
    BY DEF EmptyProgress
  <2>3. pc' = "parsed" /\ UNCHANGED <<dims, elems>>
    BY <1>5, <2>1, <2>2 DEF Parse, Open, Nest, StartElement, Quoted, Plain, After, Close, Label, Mismatch
  <2>4. QED
    BY <1>5, <2>3 DEF EmptyProgress
<1>6. CASE pc = "parsed"
  BY <1>6 DEF Parse, Open, Nest, StartElement, Quoted, Plain, After, Close
<1>7. QED
  BY <1>2, <1>3, <1>4, <1>5, <1>6 DEF EmptyProgress

(* Whatever list a text is the literal of, the scanner makes progress.     *)
IsLiteral(x, d, items) ==
  (items = <<>> /\ x = Empty) \/ \E start : LiteralOf(x, d, items, start)

LiteralInv ==
  Len(del) = 1 /\ pc # "idle" =>
    /\ src = Empty => EmptyProgress
    /\ \A items, start : LiteralOf(src, del[1], items, start) => Progress(items, start)

LEMMA LiteralStep ==
  ASSUME ParserInv, LiteralInv, [BeginAny \/ Parse]_parserVars
  PROVE  LiteralInv'
<1>1. CASE BeginAny
  <2>1. /\ i' = 1 /\ depth' = 0 /\ dims' = <<>> /\ elems' = <<>> /\ escape' = FALSE
        /\ pc' = IF src' # <<>> /\ src'[1] = LeftBrace THEN "open" ELSE "failed"
    BY <1>1 DEF BeginAny, Begin, Label
  <2>2. src' = Empty => EmptyProgress'
    <3>1. Empty # <<>> /\ Empty[1] = LeftBrace
      BY DEF Empty
    <3>2. QED
      BY <2>1, <3>1 DEF EmptyProgress
  <2>3. ASSUME NEW items, NEW start, LiteralOf(src', del'[1], items, start)
        PROVE  Progress(items, start)'
    <3>1. /\ src' \in Seq(STRING) /\ src'[1] = LeftBrace /\ Len(items) \in Nat \ {0}
          /\ start[1] \in 2..(Len(src') + 1)
      BY <2>3 DEF LiteralOf
    <3>2. src' # <<>>
      BY <3>1, EmptySeq
    <3>3. pc' = "open"
      BY <2>1, <3>1, <3>2
    <3>4. ReadSoFarAre(items)' /\ AtOpen'
      BY <2>1, <3>1, <3>3, EmptySeq DEF ReadSoFarAre, AtOpen
    <3>5. QED
      BY <3>4 DEF Progress
  <2>4. QED
    BY <2>2, <2>3 DEF LiteralInv
<1>2. CASE Parse
  <2>1. UNCHANGED <<src, del>> /\ pc # "idle"
    BY <1>2 DEF Parse, Open, Nest, StartElement, Quoted, Plain, After, Close
  <2>2. ASSUME Len(del) = 1, src = Empty PROVE EmptyProgress'
    BY <1>2, <2>1, <2>2, EmptyStep DEF LiteralInv
  <2>3. ASSUME Len(del) = 1, NEW items, NEW start, LiteralOf(src, del[1], items, start)
        PROVE  Progress(items, start)'
    <3>1. Scanning(items, start)
      BY <2>1, <2>3 DEF LiteralInv, Scanning
    <3>2. QED
      BY <1>2, <3>1, LiteralProgress
  <2>4. QED
    BY <2>1, <2>2, <2>3 DEF LiteralInv
<1>3. CASE UNCHANGED parserVars
  <2>1. UNCHANGED <<src, del, pc, i, depth, dims, elems, elem, escape>>
    BY <1>3 DEF parserVars, locals
  <2>2. EmptyProgress' = EmptyProgress
    BY <2>1 DEF EmptyProgress
  <2>3. ASSUME NEW items, NEW start, Progress(items, start) PROVE Progress(items, start)'
    BY <2>1, <2>3
    DEF Progress, ReadSoFarAre, AtOpen, AtElement, AtQuoted, AtPlain, AtAfter, AllRead, Counting,
        InQuotes, InPlain, NextStart, NextEnd, Next1, AtEnd
  <2>4. QED
    BY <2>1, <2>2, <2>3 DEF LiteralInv
<1>4. QED
  BY <1>1, <1>2, <1>3

(* The scanner accepts every literal of one dimension with a delimiter of  *)
(* one character, and finds the elements the literal was made of: a        *)
(* character that separates or closes means nothing between quotes, and a  *)
(* backslash protects a quote and a backslash only from that.              *)
ReadsLiterals ==
  Len(del) = 1 /\ pc # "idle" =>
    \A items \in Seq(Items) :
      IsLiteral(src, del[1], items) =>
        pc # "failed" /\ (pc = "parsed" => elems = items /\ Len(dims) <= 1)

LEMMA LiteralIsRead ==
  ASSUME ParserInv, LiteralInv
  PROVE  ReadsLiterals
<1> SUFFICES ASSUME Len(del) = 1, pc # "idle", NEW items \in Seq(Items), IsLiteral(src, del[1], items)
             PROVE  pc # "failed" /\ (pc = "parsed" => elems = items /\ Len(dims) <= 1)
  BY DEF ReadsLiterals
<1>1. CASE items = <<>> /\ src = Empty
  BY <1>1, EmptySeq DEF LiteralInv, EmptyProgress
<1>2. CASE \E start : LiteralOf(src, del[1], items, start)
  <2>1. PICK start : Progress(items, start)
    BY <1>2 DEF LiteralInv
  <2>2. pc # "failed"
    BY <2>1 DEF Progress, AtOpen, AtElement, AtQuoted, AtPlain, AtAfter, AllRead
  <2>3. ASSUME pc = "parsed" PROVE elems = items /\ Len(dims) <= 1
    <3>1. Len(elems) = Len(items) /\ Len(dims) = 1 /\ \A j \in 1..Len(elems) : elems[j] = items[j]
      BY <2>1, <2>3 DEF Progress, AtOpen, AtElement, AtQuoted, AtPlain, AtAfter, AllRead, ReadSoFarAre
    <3>2. elems \in Seq(Items)
      BY DEF ParserInv, ParserTypes
    <3>3. QED
      BY <3>1, <3>2, SeqEqual
  <2>4. QED
    BY <2>2, <2>3
<1>3. QED
  BY <1>1, <1>2 DEF IsLiteral

THEOREM LiteralsAreRead == ParserSpec => []ReadsLiterals
<1>1. ParserInit => LiteralInv
  BY DEF ParserInit, LiteralInv
<1>2. ParserInv /\ LiteralInv /\ [BeginAny \/ Parse]_parserVars => LiteralInv'
  BY LiteralStep
<1>3. ParserInv /\ LiteralInv => ReadsLiterals
  BY LiteralIsRead
<1>4. QED
  BY <1>1, <1>2, <1>3, ParserInvHolds, PTL DEF ParserSpec

-----------------------------------------------------------------------------
(* What is written is laid out as a literal. *)

(* The sequences of s stand one after the other in x, the k-th at at[k].   *)
Placed(x, s, at) ==
  /\ at \in [1..(Len(s) + 1) -> 1..(Len(x) + 1)]
  /\ at[1] = 1 /\ at[Len(s) + 1] = Len(x) + 1
  /\ \A k \in 1..Len(s) : /\ at[k + 1] = at[k] + Len(s[k])
                           /\ \A m \in 1..Len(s[k]) : x[at[k] + m - 1] = s[k][m]

LEMMA JoinedPlaces ==
  ASSUME NEW A, NEW u \in Seq(A), NEW v \in Seq(A)
  PROVE  /\ u \o v \in Seq(A) /\ Len(u) \in Nat /\ Len(v) \in Nat
         /\ Len(u \o v) = Len(u) + Len(v)
         /\ \A m \in 1..Len(u) : (u \o v)[m] = u[m]
         /\ \A m \in 1..Len(v) : (u \o v)[Len(u) + m] = v[m]
<1>1. Len(u) \in Nat /\ Len(v) \in Nat
  BY LenProperties
<1> DEFINE w == u \o v
<1>2. /\ w \in Seq(A) /\ Len(w) = Len(u) + Len(v)
      /\ \A m \in 1..(Len(u) + Len(v)) : w[m] = IF m <= Len(u) THEN u[m] ELSE v[m - Len(u)]
  BY ConcatProperties
<1> HIDE DEF w
<1>3. \A m \in 1..Len(u) : w[m] = u[m]
  BY <1>1, <1>2
<1>4. ASSUME NEW m \in 1..Len(v) PROVE w[Len(u) + m] = v[m]
  <2>1. Len(u) + m \in 1..(Len(u) + Len(v)) /\ ~(Len(u) + m <= Len(u)) /\ (Len(u) + m) - Len(u) = m
    BY <1>1
  <2>2. w[Len(u) + m] = v[(Len(u) + m) - Len(u)]
    BY <1>2, <2>1
  <2>3. QED
    BY <2>1, <2>2
<1>5. QED
  BY <1>1, <1>2, <1>3, <1>4 DEF w

LEMMA WithinPlaces ==
  ASSUME NEW a \in Nat \ {0}, NEW l \in Nat, NEW b \in Nat \ {0}, a + l <= b,
         NEW m \in Nat \ {0}, m <= l
  PROVE  a + m - 1 \in 1..(b - 1)
OBVIOUS

(* Sequences added one by one at the end: each stays where it was put.     *)
Stacked(A, n, s, flat, at) ==
  /\ \A k \in 1..n : s[k] \in Seq(A) /\ flat[k] \in Seq(A)
  /\ flat[1] = s[1] /\ at[1] = 1
  /\ \A k \in 1..n : k # 1 => flat[k] = flat[k - 1] \o s[k]
  /\ \A k \in 1..n : at[k + 1] = Len(flat[k]) + 1

Stays(n, s, x, at) ==
  \A k \in 1..n : /\ at[k] \in Nat \ {0} /\ at[k + 1] = at[k] + Len(s[k])
                  /\ Len(s[k]) \in Nat /\ at[k + 1] <= at[n + 1]
                  /\ \A m \in 1..Len(s[k]) : x[at[k] + m - 1] = s[k][m]

LEMMA StackedPieces ==
  ASSUME NEW A, NEW n \in Nat \ {0}, NEW s, NEW flat, NEW at, Stacked(A, n, s, flat, at)
  PROVE  Stays(n, s, flat[n], at)
<1> USE DEF Stacked, Stays
<1>1. ASSUME NEW k \in 1..n, k # 1
      PROVE  /\ k \in Int /\ k - 1 \in 1..n /\ (k - 1) + 1 = k
             /\ at[k] = Len(flat[k - 1]) + 1
  <2>1. k \in Int /\ k - 1 \in 1..n /\ (k - 1) + 1 = k
    BY <1>1
  <2>2. at[(k - 1) + 1] = Len(flat[k - 1]) + 1
    BY <2>1
  <2>3. QED
    BY <2>1, <2>2
<1>2. ASSUME NEW k \in 1..n
      PROVE  /\ at[k] \in Nat \ {0} /\ at[k + 1] = at[k] + Len(s[k]) /\ Len(s[k]) \in Nat
             /\ \A m \in 1..Len(s[k]) : flat[k][at[k] + m - 1] = s[k][m]
             /\ k # 1 => \A m \in 1..(at[k] - 1) : flat[k][m] = flat[k - 1][m]
  <2>0. at[k + 1] = Len(flat[k]) + 1 /\ s[k] \in Seq(A)
    OBVIOUS
  <2>1. CASE k = 1
    <3>1. flat[k] = s[k] /\ Len(s[k]) \in Nat /\ at[k] = 1
      BY <2>0, <2>1, LenProperties
    <3>2. QED
      BY <2>0, <2>1, <3>1
  <2>2. CASE k # 1
    <3>1. k - 1 \in 1..n /\ at[k] = Len(flat[k - 1]) + 1 /\ flat[k] = flat[k - 1] \o s[k]
      BY <1>1, <2>2
    <3>2. flat[k - 1] \in Seq(A)
      BY <3>1
    <3>3. PICK u \in Seq(A), v \in Seq(A), w \in {flat[k]}, a \in {at[k]} :
            u = flat[k - 1] /\ v = s[k] /\ w = flat[k] /\ a = at[k]
      BY <2>0, <3>2
    <3>4. /\ Len(u) \in Nat /\ Len(v) \in Nat /\ Len(w) = Len(u) + Len(v)
          /\ \A m \in 1..Len(u) : w[m] = u[m]
          /\ \A m \in 1..Len(v) : w[Len(u) + m] = v[m]
      <4>1. w = u \o v
        BY <3>1, <3>3
      <4>2. QED
        BY <4>1, JoinedPlaces
    <3>5. a = Len(u) + 1
      BY <3>1, <3>3
    <3>6. ASSUME NEW m \in 1..Len(v) PROVE w[a + m - 1] = v[m]
      <4>1. a + m - 1 = Len(u) + m
        BY <3>4, <3>5
      <4>2. QED
        BY <3>4, <4>1
    <3>7. a \in Nat \ {0} /\ Len(w) + 1 = a + Len(v) /\ a - 1 = Len(u)
      BY <3>4, <3>5
    <3>8. \A m \in 1..(a - 1) : w[m] = u[m]
      BY <3>4, <3>7
    <3>9. at[k + 1] = a + Len(v)
      BY <2>0, <3>3, <3>7
    <3>10. QED
      BY <3>3, <3>4, <3>6, <3>7, <3>8, <3>9, Zenon
  <2>3. QED
    BY <2>1, <2>2
<1> DEFINE Kept(j) == \A k \in 1..j : /\ at[k + 1] <= at[j + 1]
                                      /\ \A m \in 1..Len(s[k]) : flat[j][at[k] + m - 1] = s[k][m]
           Broken == {j \in 1..n : ~Kept(j)}
<1>3. ASSUME NEW j \in 1..n, \A b \in Broken : j <= b
      PROVE  Kept(j)
  <2>1. SUFFICES ASSUME NEW k \in 1..j
                 PROVE  /\ at[k + 1] <= at[j + 1]
                        /\ \A m \in 1..Len(s[k]) : flat[j][at[k] + m - 1] = s[k][m]
    OBVIOUS
  <2>2. k \in 1..n /\ k \in Int /\ j \in Int
    OBVIOUS
  <2>3. CASE k = j
    <3>1. at[j + 1] \in Nat
      BY <1>2
    <3>2. QED
      BY <1>2, <2>3, <3>1
  <2>4. CASE k # j
    <3>1. j # 1 /\ k \in 1..(j - 1) /\ j - 1 \in 1..n /\ ~(j <= j - 1) /\ (j - 1) + 1 = j
      BY <2>2, <2>4
    <3>2. Kept(j - 1)
      <4> HIDE DEF Kept, Stacked, Stays
      <4>1. j - 1 \notin Broken
        BY <1>3, <3>1
      <4>2. QED
        BY <3>1, <4>1
    <3>3. /\ at[k + 1] <= at[(j - 1) + 1]
          /\ \A m \in 1..Len(s[k]) : flat[j - 1][at[k] + m - 1] = s[k][m]
      BY <3>1, <3>2
    <3>4. at[k + 1] <= at[j]
      BY <3>1, <3>3
    <3> HIDE DEF Kept, Broken, Stacked, Stays
    <3>5. /\ at[j] \in Nat \ {0} /\ at[j + 1] = at[j] + Len(s[j]) /\ Len(s[j]) \in Nat
          /\ \A m \in 1..(at[j] - 1) : flat[j][m] = flat[j - 1][m]
      BY <1>2, <3>1
    <3>6. at[k] \in Nat \ {0} /\ at[k + 1] = at[k] + Len(s[k]) /\ Len(s[k]) \in Nat
      BY <1>2, <2>2
    <3>7. ASSUME NEW m \in 1..Len(s[k]) PROVE flat[j][at[k] + m - 1] = s[k][m]
      <4>1. at[k] + m - 1 \in 1..(at[j] - 1)
        <5>1. m \in Nat \ {0} /\ m <= Len(s[k])
          BY <3>6
        <5>2. at[k] + Len(s[k]) <= at[j]
          BY <3>4, <3>6
        <5>3. QED
          BY <3>5, <3>6, <5>1, <5>2, WithinPlaces
      <4>2. flat[j][at[k] + m - 1] = flat[j - 1][at[k] + m - 1]
        BY <3>5, <4>1
      <4>3. QED
        BY <3>3, <4>2
    <3>8. at[k + 1] <= at[j + 1]
      <4>1. \A a, b, c \in Nat, l \in Nat : a <= b /\ c = b + l => a <= c
        OBVIOUS
      <4>2. at[k + 1] \in Nat /\ at[j + 1] \in Nat
        <5>1. \A a \in Nat \ {0}, l \in Nat : a + l \in Nat
          OBVIOUS
        <5>2. QED
          BY <3>5, <3>6, <5>1, Zenon
      <4>3. QED
        BY <3>4, <3>5, <4>1, <4>2
    <3>9. QED
      BY <3>7, <3>8
  <2>5. QED
    BY <2>3, <2>4
<1>4. Broken = {}
  <2>1. SUFFICES ASSUME Broken # {} PROVE FALSE
    OBVIOUS
  <2>2. Broken \subseteq Nat /\ \A j \in Broken : j \in 1..n /\ ~Kept(j)
    OBVIOUS
  <2>3. PICK j \in Broken : \A k \in Broken : j <= k
    <3> HIDE DEF Broken
    <3>1. QED
      BY <2>1, <2>2, SmallestOf
  <2>4. j \in 1..n /\ ~Kept(j)
    BY <2>2
  <2> HIDE DEF Kept, Broken
  <2>5. QED
    BY <1>3, <2>3, <2>4
<1>5. n \in 1..n
  OBVIOUS
<1>6. Kept(n)
  <2> HIDE DEF Kept, Stacked, Stays
  <2>1. n \notin Broken
    BY <1>4
  <2>2. QED
    BY <1>5, <2>1
<1>7. QED
  BY <1>2, <1>6

LEMMA FlattenPlaces ==
  ASSUME NEW A, NEW s \in Seq(Seq(A))
  PROVE  FlattenSeq(s) \in Seq(A) /\ \E at : Placed(FlattenSeq(s), s, at)
<1>1. Len(s) \in Nat /\ \A k \in 1..Len(s) : s[k] \in Seq(A) /\ Len(s[k]) \in Nat
  <2>1. Len(s) \in Nat /\ \A k \in 1..Len(s) : s[k] \in Seq(A)
    BY LenProperties, ElementOfSeq
  <2>2. QED
    BY <2>1, LenProperties
<1>2. FlattenSeq(s) \in Seq(A)
  BY FlattenIsSeq
<1>3. CASE Len(s) = 0
  <2>1. FlattenSeq(s) = <<>> /\ Len(<<>>) = 0
    <3>1. s = <<>> /\ Len(<<>>) = 0
      BY <1>3, EmptySeq
    <3>2. QED
      BY <1>3, <3>1 DEF FlattenSeq
  <2>2. Placed(FlattenSeq(s), s, [k \in 1..1 |-> 1])
    BY <1>3, <2>1 DEF Placed
  <2>3. QED
    BY <1>2, <2>2
<1>4. ASSUME NEW n, n = Len(s), n # 0 PROVE \E at : Placed(FlattenSeq(s), s, at)
  <2>1. PICK flat \in [1..n -> Seq(A)] :
          /\ FlattenSeq(s) = flat[n]
          /\ \A k \in 1..n : flat[k] = IF k = 1 THEN s[k] ELSE flat[k - 1] \o s[k]
    BY <1>4, FlattenSteps
  <2>2. n \in Nat \ {0} /\ \A k \in 1..n : s[k] \in Seq(A) /\ Len(s[k]) \in Nat
    BY <1>1, <1>4
  <2>3. \A k \in 1..n : flat[k] \in Seq(A) /\ Len(flat[k]) \in Nat
    BY <2>1, LenProperties
  <2>4. flat[1] = s[1] /\ \A k \in 1..n : k # 1 => flat[k] = flat[k - 1] \o s[k]
    <3>1. 1 \in 1..n
      BY <2>2
    <3>2. flat[1] = s[1]
      BY <2>1, <3>1
    <3>3. ASSUME NEW k \in 1..n, k # 1 PROVE flat[k] = flat[k - 1] \o s[k]
      BY <2>1, <3>3
    <3>4. QED
      BY <3>2, <3>3
  <2>5. PICK at \in [1..(n + 1) -> Nat \ {0}] :
          at[1] = 1 /\ \A k \in 1..n : at[k + 1] = Len(flat[k]) + 1
    <3>1. \A k \in 1..(n + 1) : k # 1 => k - 1 \in 1..n
      BY <2>2
    <3>2. \A k \in 1..(n + 1) : (IF k = 1 THEN 1 ELSE Len(flat[k - 1]) + 1) \in Nat \ {0}
      BY <2>3, <3>1
    <3>3. /\ 1 \in 1..(n + 1)
          /\ \A k \in 1..n : k + 1 \in 1..(n + 1) /\ k + 1 # 1 /\ (k + 1) - 1 = k
      BY <2>2
    <3>4. [k \in 1..(n + 1) |-> IF k = 1 THEN 1 ELSE Len(flat[k - 1]) + 1]
          \in [1..(n + 1) -> Nat \ {0}]
      BY <3>2
    <3>5. QED
      BY <3>3, <3>4
  <2>6. \A k \in 1..n : /\ at[k] \in Nat \ {0} /\ at[k + 1] = at[k] + Len(s[k])
                        /\ Len(s[k]) \in Nat /\ at[k + 1] <= at[n + 1]
                        /\ \A m \in 1..Len(s[k]) : flat[n][at[k] + m - 1] = s[k][m]
    <3>1. Stacked(A, n, s, flat, at)
      BY <2>2, <2>3, <2>4, <2>5 DEF Stacked
    <3>2. n \in Nat \ {0}
      BY <2>2
    <3>3. Stays(n, s, flat[n], at)
      BY <3>1, <3>2, StackedPieces
    <3>4. QED
      BY <3>3 DEF Stays
  <2>7. n \in 1..n /\ at[n + 1] = Len(flat[n]) + 1 /\ Len(flat[n]) \in Nat
    BY <2>2, <2>3, <2>5
  <2>8. \A k \in 1..(n + 1) : at[k] \in 1..(Len(flat[n]) + 1)
    <3>1. ASSUME NEW k \in 1..n PROVE at[k] \in 1..(Len(flat[n]) + 1)
      <4>1. at[k] \in Nat \ {0} /\ Len(s[k]) \in Nat /\ at[k] + Len(s[k]) <= Len(flat[n]) + 1
        BY <2>6, <2>7
      <4>2. QED
        BY <2>7, <4>1
    <3>2. \A k \in 1..(n + 1) : k = n + 1 \/ k \in 1..n
      BY <2>2
    <3>3. QED
      BY <2>7, <3>1, <3>2
  <2>9. at \in [1..(n + 1) -> 1..(Len(flat[n]) + 1)]
    BY <2>8
  <2>10. Placed(flat[n], s, at)
    BY <1>4, <2>5, <2>6, <2>7, <2>9 DEF Placed
  <2>11. QED
    BY <2>1, <2>10
<1>5. QED
  BY <1>1, <1>2, <1>3, <1>4

-----------------------------------------------------------------------------
(* What is written spells what it is written for. *)

(* The text f stands in q between a and b.                                 *)
Encloses(A, q, a, f, b) ==
  /\ q \in Seq(A) /\ Len(f) \in Nat /\ Len(q) = Len(f) + 2
  /\ q[1] = a /\ q[Len(f) + 2] = b
  /\ \A m \in 1..Len(f) : q[m + 1] = f[m]

LEMMA EnclosedPlaces ==
  ASSUME NEW A, NEW a \in A, NEW f \in Seq(A), NEW b \in A
  PROVE  Encloses(A, <<a>> \o f \o <<b>>, a, f, b)
<1>1. /\ <<a>> \in Seq(A) /\ Len(<<a>>) = 1 /\ <<a>>[1] = a
      /\ <<b>> \in Seq(A) /\ Len(<<b>>) = 1 /\ <<b>>[1] = b
  OBVIOUS
<1> DEFINE u == <<a>> \o f
           w == u \o <<b>>
<1>2. /\ u \in Seq(A) /\ Len(f) \in Nat /\ Len(u) = 1 + Len(f)
      /\ \A m \in 1..1 : u[m] = <<a>>[m]
      /\ \A m \in 1..Len(f) : u[1 + m] = f[m]
  BY <1>1, JoinedPlaces
<1> HIDE DEF u
<1>3. /\ w \in Seq(A) /\ Len(u) \in Nat /\ Len(w) = Len(u) + 1
      /\ \A m \in 1..Len(u) : w[m] = u[m]
      /\ \A m \in 1..1 : w[Len(u) + m] = <<b>>[m]
  BY <1>1, <1>2, JoinedPlaces
<1> HIDE DEF w
<1>4. w[1] = a
  <2>1. 1 \in 1..Len(u) /\ 1 \in 1..1
    BY <1>2
  <2>2. QED
    BY <1>1, <1>2, <1>3, <2>1
<1>5. w[Len(f) + 2] = b
  <2>1. Len(u) + 1 = Len(f) + 2 /\ 1 \in 1..1
    BY <1>2
  <2>2. w[Len(u) + 1] = b
    BY <1>1, <1>3, <2>1
  <2>3. QED
    BY <2>1, <2>2
<1>6. ASSUME NEW m \in 1..Len(f) PROVE w[m + 1] = f[m]
  <2>1. m + 1 \in 1..Len(u) /\ m + 1 = 1 + m
    BY <1>2
  <2>2. w[m + 1] = u[m + 1] /\ u[1 + m] = f[m]
    BY <1>2, <1>3, <2>1
  <2>3. QED
    BY <2>1, <2>2
<1>7. Len(w) = Len(f) + 2
  BY <1>2, <1>3
<1>8. QED
  BY <1>2, <1>3, <1>4, <1>5, <1>6, <1>7 DEF w, u, Encloses

(* A sequence with the elements of another is the other.                   *)
LEMMA SameElements ==
  ASSUME NEW A, NEW u \in Seq(A), NEW v \in Seq(A), Len(u) = Len(v),
         \A m \in 1..Len(v) : u[m] = v[m]
  PROVE  u = v
BY SeqEqual

(* The text q by itself spells v, with or without quotes.                  *)
QuotedText(q, t) == \E at : QuotedAt(q, 1, Len(q) + 1, t, at)

PlainText(q, d, v) ==
  /\ Len(q) > 0 /\ q[1] # LeftBrace /\ q[1] # Quote
  /\ \A k \in 1..Len(q) : q[k] # RightBrace /\ q[k] # d
  /\ v = IF q = <<"NULL">> THEN Null ELSE Item(q)

Spells(q, d, v) == PlainText(q, d, v) \/ \E t : v = Item(t) /\ QuotedText(q, t)

(* Quoting a text spells it.                                               *)
LEMMA QuotingSpells ==
  ASSUME NEW t \in Seq(STRING)
  PROVE  AppendArrayQuotedBytes(t) \in Seq(STRING) /\ QuotedText(AppendArrayQuotedBytes(t), t)
<1> DEFINE Escape(c) == IF c \in {Quote, Backslash} THEN <<Backslash, c>> ELSE <<c>>
           escaped == [k \in DOMAIN t |-> Escape(t[k])]
           f == FlattenSeq(escaped)
           q == <<Quote>> \o f \o <<Quote>>
<1>1. DOMAIN t = 1..Len(t) /\ Len(t) \in Nat /\ \A k \in 1..Len(t) : t[k] \in STRING
  BY LenProperties, ElementOfSeq
<1>2. ASSUME NEW c \in STRING
      PROVE  /\ Escape(c) \in Seq(STRING)
             /\ IF c \in Special
                THEN Len(Escape(c)) = 2 /\ Escape(c)[1] = Backslash /\ Escape(c)[2] = c
                ELSE Len(Escape(c)) = 1 /\ Escape(c)[1] = c
  <2>1. <<Backslash, c>> \in Seq(STRING) /\ <<c>> \in Seq(STRING)
    BY SpecialsAreStrings, OneIsSeq, TwoAreSeq, Zenon
  <2>2. CASE c \in Special
    <3>1. Escape(c) = <<Backslash, c>>
      BY <2>2, Zenon DEF Special
    <3>2. ASSUME NEW e, e = <<Backslash, c>> PROVE Len(e) = 2 /\ e[1] = Backslash /\ e[2] = c
      BY <3>2
    <3> HIDE DEF Escape
    <3>3. QED
      BY <2>1, <2>2, <3>1, <3>2
  <2>3. CASE c \notin Special
    <3>1. Escape(c) = <<c>>
      BY <2>3, Zenon DEF Special
    <3>2. ASSUME NEW e, e = <<c>> PROVE Len(e) = 1 /\ e[1] = c
      BY <3>2
    <3> HIDE DEF Escape
    <3>3. QED
      BY <2>1, <2>3, <3>1, <3>2
  <2>4. QED
    BY <2>2, <2>3
<1>3. \A k \in 1..Len(t) : escaped[k] = Escape(t[k])
  BY <1>1, Zenon
<1>4. escaped \in Seq(Seq(STRING)) /\ Len(escaped) = Len(t)
  <2> HIDE DEF Escape
  <2>1. escaped \in [1..Len(t) -> Seq(STRING)]
    BY <1>1, <1>2
  <2> HIDE DEF escaped
  <2>2. QED
    BY <1>1, <2>1, ListIsSeq
<1>5. AppendArrayQuotedBytes(t) = q
  BY Zenon DEF AppendArrayQuotedBytes
<1> HIDE DEF escaped, Escape
<1>6. f \in Seq(STRING) /\ \E at : Placed(f, escaped, at)
  BY <1>4, FlattenPlaces
<1>7. PICK at : Placed(f, escaped, at)
  BY <1>6
<1> HIDE DEF f
<1>8. /\ q \in Seq(STRING) /\ Len(f) \in Nat /\ Len(q) = Len(f) + 2
      /\ q[1] = Quote /\ q[Len(f) + 2] = Quote
      /\ \A m \in 1..Len(f) : q[m + 1] = f[m]
  <2>1. Quote \in STRING /\ f \in Seq(STRING)
    BY <1>6, SpecialsAreStrings
  <2>2. Encloses(STRING, q, Quote, f, Quote)
    BY <2>1, EnclosedPlaces, Zenon
  <2>3. QED
    BY <2>2, Zenon DEF Encloses
<1> HIDE DEF q
<1>9. /\ at \in [1..(Len(t) + 1) -> 1..(Len(f) + 1)] /\ at[1] = 1 /\ at[Len(t) + 1] = Len(f) + 1
      /\ \A k \in 1..Len(t) :
           /\ at[k + 1] = at[k] + Len(escaped[k])
           /\ \A m \in 1..Len(escaped[k]) : f[at[k] + m - 1] = escaped[k][m]
  BY <1>4, <1>7 DEF Placed
<1> DEFINE place == [j \in 1..(Len(t) + 1) |-> at[j] + 1]
<1>10. place \in [1..(Len(t) + 1) -> 2..Len(q)] /\ \A j \in 1..(Len(t) + 1) : place[j] = at[j] + 1
  <2>1. ASSUME NEW j \in 1..(Len(t) + 1) PROVE at[j] + 1 \in 2..Len(q)
    <3>1. at[j] \in 1..(Len(f) + 1)
      BY <1>9
    <3>2. QED
      BY <1>8, <3>1
  <2>2. QED
    BY <2>1
<1> HIDE DEF place
<1>11. ASSUME NEW j \in 1..Len(t)
       PROVE  IF t[j] \in Special
              THEN /\ q[place[j]] = Backslash /\ q[place[j] + 1] = t[j]
                   /\ place[j + 1] = place[j] + 2
              ELSE q[place[j]] = t[j] /\ place[j + 1] = place[j] + 1
  <2>1. j \in 1..(Len(t) + 1) /\ j + 1 \in 1..(Len(t) + 1)
    BY <1>1
  <2>2. PICK a \in Nat \ {0} : a = at[j] /\ a <= Len(f) + 1
    BY <1>8, <1>9, <2>1
  <2>3. /\ place[j] = a + 1 /\ place[j + 1] = at[j + 1] + 1
        /\ at[j + 1] \in Nat /\ at[j + 1] <= Len(f) + 1
    BY <1>8, <1>9, <1>10, <2>1, <2>2
  <2>4. /\ at[j + 1] = a + Len(escaped[j])
        /\ \A m \in 1..Len(escaped[j]) : f[a + m - 1] = escaped[j][m]
    BY <1>9, <2>2
  <2>5. CASE t[j] \in Special
    <3>1. Len(escaped[j]) = 2 /\ escaped[j][1] = Backslash /\ escaped[j][2] = t[j]
      BY <1>1, <1>2, <1>3, <2>5
    <3>2. /\ a \in 1..Len(f) /\ a + 1 \in 1..Len(f) /\ a + 1 - 1 = a /\ a + 2 - 1 = a + 1
          /\ 1 \in 1..2 /\ 2 \in 1..2
      <4>1. at[j + 1] = a + 2
        BY <2>4, <3>1
      <4>2. a + 2 <= Len(f) + 1
        BY <2>3, <4>1
      <4>3. QED
        BY <1>8, <4>2
    <3>3. f[a] = Backslash /\ f[a + 1] = t[j]
      BY <2>4, <3>1, <3>2
    <3>4. q[a + 1] = Backslash /\ q[(a + 1) + 1] = t[j]
      BY <1>8, <3>2, <3>3
    <3>5. place[j + 1] = place[j] + 2 /\ place[j] + 1 = (a + 1) + 1
      BY <2>2, <2>3, <2>4, <3>1
    <3>6. QED
      BY <2>3, <2>5, <3>4, <3>5
  <2>6. CASE t[j] \notin Special
    <3>1. Len(escaped[j]) = 1 /\ escaped[j][1] = t[j]
      <4>1. escaped[j] = Escape(t[j]) /\ t[j] \in STRING
        BY <1>1, <1>3
      <4>2. QED
        BY <1>2, <2>6, <4>1
    <3>2. a \in 1..Len(f) /\ a + 1 - 1 = a /\ 1 \in 1..1
      BY <1>8, <2>2, <2>3, <2>4, <3>1
    <3>3. f[a] = t[j]
      BY <2>4, <3>1, <3>2
    <3>4. q[a + 1] = t[j]
      BY <1>8, <3>2, <3>3
    <3>5. place[j + 1] = place[j] + 1
      BY <2>2, <2>3, <2>4, <3>1
    <3>6. QED
      BY <2>3, <2>6, <3>4, <3>5
  <2>7. QED
    BY <2>5, <2>6
<1>12. QuotedAt(q, 1, Len(q) + 1, t, place)
  <2>1. 1 + 1 = 2 /\ (Len(q) + 1) - 1 = Len(q) /\ Len(q) = Len(f) + 2
    BY <1>8
  <2>2. 1 \in 1..(Len(t) + 1) /\ Len(t) + 1 \in 1..(Len(t) + 1)
    BY <1>1
  <2>3. place[1] = 2 /\ place[Len(t) + 1] = Len(q)
    <3>1. place[1] = at[1] + 1 /\ place[Len(t) + 1] = at[Len(t) + 1] + 1
      BY <1>10, <2>2
    <3>2. \A l \in Nat : (l + 1) + 1 = l + 2
      OBVIOUS
    <3>3. QED
      BY <1>8, <1>9, <3>1, <3>2
  <2>4. q[1] = Quote /\ q[Len(q)] = Quote
    BY <1>8, <2>1
  <2>5. place \in [1..(Len(t) + 1) -> (1 + 1)..((Len(q) + 1) - 1)]
    BY <1>10, <2>1
  <2>6. QED
    BY <1>11, <2>1, <2>3, <2>4, <2>5, Zenon DEF QuotedAt
<1>13. QED
  BY <1>5, <1>8, <1>12, Zenon DEF QuotedText

(* The text q stands in x from position p on.                              *)
StandsAt(x, p, q) == \A m \in 1..Len(q) : x[p + m - 1] = q[m]

LEMMA SliceIs ==
  ASSUME NEW A, NEW q \in Seq(A), NEW x, NEW p \in Nat \ {0}, StandsAt(x, p, q)
  PROVE  SubSeq(x, p, p + Len(q) - 1) = q
<1>1. Len(q) \in Nat /\ \A m \in 1..Len(q) : q[m] \in A
  BY LenProperties, ElementOfSeq
<1> DEFINE e == p + Len(q) - 1
<1>2. e \in Int /\ e - p + 1 = Len(q) /\ (IF p <= e THEN e - p + 1 ELSE 0) = Len(q)
  BY <1>1
<1>3. ASSUME NEW k \in p..e PROVE x[k] \in A
  <2>1. k - p + 1 \in 1..Len(q) /\ p + (k - p + 1) - 1 = k
    BY <1>1
  <2>2. x[k] = q[k - p + 1]
    BY <2>1 DEF StandsAt
  <2>3. QED
    BY <1>1, <2>1, <2>2
<1> HIDE DEF e
<1>4. /\ SubSeq(x, p, e) \in Seq(A) /\ Len(SubSeq(x, p, e)) = Len(q)
      /\ \A m \in 1..Len(q) : SubSeq(x, p, e)[m] = x[p + m - 1]
  <2>1. /\ SubSeq(x, p, e) \in Seq(A)
        /\ Len(SubSeq(x, p, e)) = IF p <= e THEN e - p + 1 ELSE 0
        /\ \A m \in 1..(e - p + 1) : SubSeq(x, p, e)[m] = x[p + m - 1]
    BY <1>2, <1>3, SubSeqProperties
  <2>2. QED
    BY <1>2, <2>1
<1> DEFINE slice == SubSeq(x, p, e)
<1>5. slice \in Seq(A) /\ Len(slice) = Len(q) /\ \A m \in 1..Len(slice) : slice[m] = q[m]
  BY <1>4 DEF StandsAt
<1> HIDE DEF slice
<1>6. slice = q
  BY <1>5, SeqEqual
<1>7. QED
  BY <1>6 DEF slice, e

(* A text that spells an element spells it wherever it stands.             *)
LEMMA SpelledThere ==
  ASSUME NEW q \in Seq(STRING), NEW x, NEW p \in Nat \ {0}, NEW d, NEW v,
         StandsAt(x, p, q), Spells(q, d, v)
  PROVE  Len(q) > 0 /\ SpelledAt(x, d, p, p + Len(q), v)
<1>1. Len(q) \in Nat
  BY LenProperties
<1>2. CASE PlainText(q, d, v)
  <2>1. /\ Len(q) > 0 /\ q[1] # LeftBrace /\ q[1] # Quote
        /\ \A k \in 1..Len(q) : q[k] # RightBrace /\ q[k] # d
        /\ v = IF q = <<"NULL">> THEN Null ELSE Item(q)
    BY <1>2, Zenon DEF PlainText
  <2>2. x[p] = q[1]
    <3>1. 1 \in 1..Len(q) /\ p + 1 - 1 = p
      BY <1>1, <2>1
    <3>2. QED
      BY <3>1 DEF StandsAt
  <2>3. ASSUME NEW k \in p..((p + Len(q)) - 1) PROVE x[k] # RightBrace /\ x[k] # d
    <3>1. k - p + 1 \in 1..Len(q) /\ p + (k - p + 1) - 1 = k
      BY <1>1
    <3>2. x[k] = q[k - p + 1]
      BY <3>1 DEF StandsAt
    <3>3. QED
      BY <2>1, <3>1, <3>2
  <2>4. SubSeq(x, p, (p + Len(q)) - 1) = q
    BY SliceIs
  <2>5. p < p + Len(q)
    BY <1>1, <2>1
  <2>6. PlainAt(x, d, p, p + Len(q), v)
    BY <2>1, <2>2, <2>3, <2>4, <2>5, Zenon DEF PlainAt
  <2>7. QED
    BY <2>1, <2>6, Zenon DEF SpelledAt
<1>3. ASSUME NEW t, v = Item(t), NEW at, QuotedAt(q, 1, Len(q) + 1, t, at)
      PROVE  Len(q) > 0 /\ SpelledAt(x, d, p, p + Len(q), v)
  <2>1. /\ t \in Seq(STRING) /\ at \in [1..(Len(t) + 1) -> (1 + 1)..((Len(q) + 1) - 1)]
        /\ at[1] = 1 + 1 /\ at[Len(t) + 1] = (Len(q) + 1) - 1
        /\ q[1] = Quote /\ q[(Len(q) + 1) - 1] = Quote
        /\ \A j \in 1..Len(t) :
             IF t[j] \in Special
             THEN q[at[j]] = Backslash /\ q[at[j] + 1] = t[j] /\ at[j + 1] = at[j] + 2
             ELSE q[at[j]] = t[j] /\ at[j + 1] = at[j] + 1
    BY <1>3, Zenon DEF QuotedAt
  <2>2. Len(t) \in Nat
    BY <2>1, LenProperties
  <2>3. /\ \A j \in 1..(Len(t) + 1) : at[j] \in 2..Len(q)
        /\ at[1] = 2 /\ at[Len(t) + 1] = Len(q) /\ q[Len(q)] = Quote
    BY <1>1, <2>1
  <2>4. 2 <= Len(q)
    <3>1. 1 \in 1..(Len(t) + 1)
      BY <2>2
    <3>2. QED
      BY <1>1, <2>3, <3>1
  <2> DEFINE place == [j \in 1..(Len(t) + 1) |-> p + at[j] - 1]
  <2>5. /\ place \in [1..(Len(t) + 1) -> (p + 1)..((p + Len(q)) - 1)]
        /\ \A j \in 1..(Len(t) + 1) : place[j] = p + at[j] - 1
    <3>1. \A j \in 1..(Len(t) + 1) : p + at[j] - 1 \in (p + 1)..((p + Len(q)) - 1)
      BY <1>1, <2>3
    <3>2. QED
      BY <3>1
  <2> HIDE DEF place
  <2>6. place[1] = p + 1 /\ place[Len(t) + 1] = (p + Len(q)) - 1
    <3>1. 1 \in 1..(Len(t) + 1) /\ Len(t) + 1 \in 1..(Len(t) + 1)
      BY <2>2
    <3>2. place[1] = p + 2 - 1 /\ place[Len(t) + 1] = p + Len(q) - 1
      BY <2>3, <2>5, <3>1
    <3>3. QED
      BY <1>1, <3>2
  <2>7. x[p] = Quote /\ x[(p + Len(q)) - 1] = Quote
    <3>1. 1 \in 1..Len(q) /\ p + 1 - 1 = p /\ Len(q) \in 1..Len(q)
      BY <1>1, <2>4
    <3>2. x[p + 1 - 1] = q[1] /\ x[p + Len(q) - 1] = q[Len(q)]
      BY <3>1 DEF StandsAt
    <3>3. QED
      BY <2>1, <2>3, <3>1, <3>2
  <2>8. ASSUME NEW j \in 1..Len(t)
        PROVE  IF t[j] \in Special
               THEN x[place[j]] = Backslash /\ x[place[j] + 1] = t[j] /\ place[j + 1] = place[j] + 2
               ELSE x[place[j]] = t[j] /\ place[j + 1] = place[j] + 1
    <3>1. j \in 1..(Len(t) + 1) /\ j + 1 \in 1..(Len(t) + 1)
      BY <2>2
    <3>2. PICK a \in 2..Len(q), b \in 2..Len(q) : a = at[j] /\ b = at[j + 1]
      BY <2>3, <3>1
    <3>3. place[j] = p + a - 1 /\ place[j + 1] = p + b - 1
      BY <2>5, <3>1, <3>2
    <3>4. x[place[j]] = q[a]
      <4>1. a \in 1..Len(q)
        BY <1>1
      <4>2. QED
        BY <3>3, <4>1 DEF StandsAt
    <3>5. CASE t[j] \in Special
      <4>1. q[a] = Backslash /\ q[a + 1] = t[j] /\ b = a + 2
        BY <2>1, <3>2, <3>5
      <4>2. a + 1 \in 1..Len(q) /\ p + (a + 1) - 1 = (p + a - 1) + 1 /\ p + (a + 2) - 1 = (p + a - 1) + 2
        BY <1>1, <4>1
      <4>3. x[p + (a + 1) - 1] = q[a + 1]
        BY <4>2 DEF StandsAt
      <4>4. x[place[j] + 1] = t[j] /\ place[j + 1] = place[j] + 2
        BY <3>3, <4>1, <4>2, <4>3
      <4>5. QED
        BY <3>4, <3>5, <4>1, <4>4
    <3>6. CASE t[j] \notin Special
      <4>1. q[a] = t[j] /\ b = a + 1
        BY <2>1, <3>2, <3>6
      <4>2. p + (a + 1) - 1 = (p + a - 1) + 1
        BY <1>1
      <4>3. place[j + 1] = place[j] + 1
        BY <3>3, <4>1, <4>2
      <4>4. QED
        BY <3>4, <3>6, <4>1, <4>3
    <3>7. QED
      BY <3>5, <3>6
  <2>9. QuotedAt(x, p, p + Len(q), t, place)
    BY <2>1, <2>5, <2>6, <2>7, <2>8, Zenon DEF QuotedAt
  <2>10. Len(q) > 0
    BY <1>1, <2>4
  <2>11. QED
    BY <1>3, <2>9, <2>10, Zenon DEF SpelledAt
<1>4. QED
  BY <1>2, <1>3, Zenon DEF Spells, QuotedText

(* Pieces that spell elements, between braces, are the literal of those.   *)
LEMMA BracesAreLiteral ==
  ASSUME NEW pieces \in Seq(Seq(STRING)), NEW items \in Seq(Items), NEW d \in STRING,
         Len(items) = Len(pieces), Len(pieces) # 0,
         d \notin {LeftBrace, RightBrace, Quote, Backslash},
         \A k \in 1..Len(pieces) : Spells(pieces[k], d, items[k])
  PROVE  \E start : LiteralOf(Braces(pieces, <<d>>), d, items, start)
<1> DEFINE joined == [k \in DOMAIN pieces |-> (IF k = 1 THEN <<>> ELSE <<d>>) \o pieces[k]]
           f == FlattenSeq(joined)
           x == <<LeftBrace>> \o f \o <<RightBrace>>
<1>1. PICK n \in Nat \ {0} :
        /\ n = Len(pieces) /\ n = Len(items) /\ DOMAIN pieces = 1..n
        /\ \A k \in 1..n : pieces[k] \in Seq(STRING)
  BY LenProperties, ElementOfSeq
<1>2. ASSUME NEW k \in 1..n
      PROVE  /\ joined[k] \in Seq(STRING) /\ Len(pieces[k]) \in Nat
             /\ k = 1 => joined[k] = pieces[k]
             /\ k # 1 => /\ Len(joined[k]) = 1 + Len(pieces[k])
                         /\ joined[k][1] = d
                         /\ \A m \in 1..Len(pieces[k]) : joined[k][1 + m] = pieces[k][m]
  <2>1. joined[k] = (IF k = 1 THEN <<>> ELSE <<d>>) \o pieces[k]
    BY <1>1, Zenon
  <2> HIDE DEF joined
  <2>2. pieces[k] \in Seq(STRING) /\ Len(pieces[k]) \in Nat
    BY <1>1, LenProperties
  <2>3. CASE k = 1
    <3>1. joined[k] = <<>> \o pieces[k]
      BY <2>1, <2>3
    <3>2. joined[k] = pieces[k]
      BY <2>2, <3>1, ConcatEmptySeq
    <3>3. QED
      BY <2>2, <2>3, <3>2
  <2>4. CASE k # 1
    <3>1. joined[k] = <<d>> \o pieces[k]
      BY <2>1, <2>4
    <3>2. PICK u \in Seq(STRING), v \in Seq(STRING), w \in {joined[k]} :
            u = <<d>> /\ v = pieces[k] /\ w = joined[k] /\ Len(u) = 1 /\ u[1] = d
      <4>1. <<d>> \in Seq(STRING) /\ Len(<<d>>) = 1 /\ <<d>>[1] = d
        BY OneIsSeq
      <4>2. QED
        BY <2>2, <4>1
    <3>3. w = u \o v
      BY <3>1, <3>2
    <3>4. /\ w \in Seq(STRING) /\ Len(w) = Len(u) + Len(v)
          /\ \A m \in 1..Len(u) : w[m] = u[m]
          /\ \A m \in 1..Len(v) : w[Len(u) + m] = v[m]
      BY <3>3, JoinedPlaces
    <3>5. 1 \in 1..Len(u)
      BY <3>2
    <3>6. w[1] = d
      BY <3>2, <3>4, <3>5
    <3>7. /\ Len(w) = 1 + Len(v) /\ \A m \in 1..Len(v) : w[1 + m] = v[m]
      BY <3>2, <3>4
    <3>8. QED
      BY <2>2, <2>4, <3>2, <3>4, <3>6, <3>7
  <2>5. QED
    BY <2>3, <2>4
<1>3. joined \in Seq(Seq(STRING)) /\ Len(joined) = n
  <2>1. joined \in [1..n -> Seq(STRING)]
    <3>1. joined = [k \in 1..n |-> joined[k]]
      BY <1>1
    <3> HIDE DEF joined
    <3>2. QED
      BY <1>2, <3>1
  <2> HIDE DEF joined
  <2>2. QED
    BY <2>1, ListIsSeq
<1>4. Braces(pieces, <<d>>) = x
  BY Zenon DEF Braces
<1> HIDE DEF joined
<1>5. f \in Seq(STRING) /\ \E at : Placed(f, joined, at)
  BY <1>3, FlattenPlaces
<1>6. PICK at : Placed(f, joined, at)
  BY <1>5
<1> HIDE DEF f
<1>7. Encloses(STRING, x, LeftBrace, f, RightBrace)
  BY <1>5, SpecialsAreStrings, EnclosedPlaces, Zenon
<1>8. /\ x \in Seq(STRING) /\ Len(f) \in Nat /\ Len(x) = Len(f) + 2
      /\ x[1] = LeftBrace /\ x[Len(f) + 2] = RightBrace
      /\ \A m \in 1..Len(f) : x[m + 1] = f[m]
  BY <1>7, Zenon DEF Encloses
<1> HIDE DEF x
<1>9. /\ at \in [1..(n + 1) -> 1..(Len(f) + 1)] /\ at[1] = 1 /\ at[n + 1] = Len(f) + 1
      /\ \A k \in 1..n : /\ at[k + 1] = at[k] + Len(joined[k])
                         /\ \A m \in 1..Len(joined[k]) : f[at[k] + m - 1] = joined[k][m]
  BY <1>3, <1>6 DEF Placed
<1> DEFINE start == [k \in 1..(n + 1) |-> IF k = 1 THEN 2 ELSE at[k] + 2]
<1>10. /\ start \in [1..(n + 1) -> 2..(Len(x) + 1)] /\ start[1] = 2
       /\ \A k \in 1..(n + 1) : k # 1 => start[k] = at[k] + 2
  <2>1. \A k \in 1..(n + 1) : (IF k = 1 THEN 2 ELSE at[k] + 2) \in 2..(Len(x) + 1)
    BY <1>8, <1>9
  <2>2. 1 \in 1..(n + 1)
    OBVIOUS
  <2>3. QED
    BY <2>1, <2>2
<1> HIDE DEF start
<1>11. start[n + 1] = Len(x) + 1
  <2>1. n + 1 \in 1..(n + 1) /\ n + 1 # 1
    OBVIOUS
  <2>2. start[n + 1] = (Len(f) + 1) + 2
    BY <1>9, <1>10, <2>1
  <2>3. QED
    BY <1>8, <2>2
<1>12. ASSUME NEW k \in 1..n
       PROVE  /\ start[k + 1] - 1 = start[k] + Len(pieces[k]) /\ start[k] \in Nat \ {0}
              /\ StandsAt(x, start[k], pieces[k])
              /\ x[start[k + 1] - 1] = IF k = n THEN RightBrace ELSE d
  <2>1. k \in 1..(n + 1) /\ k + 1 \in 1..(n + 1) /\ k + 1 # 1 /\ k \in Int
    OBVIOUS
  <2>2. PICK a \in Nat \ {0}, b \in Nat \ {0} :
          a = at[k] /\ b = at[k + 1] /\ a <= Len(f) + 1 /\ b <= Len(f) + 1
    <3>1. at[k] \in 1..(Len(f) + 1) /\ at[k + 1] \in 1..(Len(f) + 1)
      BY <1>9, <2>1
    <3>2. \A a \in 1..(Len(f) + 1) : a \in Nat \ {0} /\ a <= Len(f) + 1
      BY <1>8
    <3>3. QED
      BY <3>1, <3>2
  <2>3. /\ b = a + Len(joined[k])
        /\ \A m \in 1..Len(joined[k]) : f[a + m - 1] = joined[k][m]
    BY <1>9, <2>2
  <2>4. start[k + 1] = b + 2 /\ Len(pieces[k]) \in Nat
    BY <1>2, <1>10, <2>1, <2>2
  <2>5. /\ start[k + 1] - 1 = start[k] + Len(pieces[k]) /\ start[k] \in Nat \ {0}
        /\ StandsAt(x, start[k], pieces[k])
    <3>1. CASE k = 1
      <4>1. a = 1 /\ start[k] = 2 /\ joined[k] = pieces[k]
        BY <1>2, <1>9, <1>10, <2>2, <3>1
      <4>2. b = 1 + Len(pieces[k]) /\ Len(pieces[k]) <= Len(f)
        BY <1>8, <2>2, <2>3, <2>4, <4>1
      <4>3. ASSUME NEW m \in 1..Len(pieces[k]) PROVE x[2 + m - 1] = pieces[k][m]
        <5>1. m \in 1..Len(f) /\ 2 + m - 1 = m + 1 /\ 1 + m - 1 = m
          BY <1>8, <2>4, <4>2
        <5>2. f[1 + m - 1] = pieces[k][m]
          BY <2>3, <4>1
        <5>3. QED
          BY <1>8, <5>1, <5>2
      <4>4. start[k + 1] - 1 = start[k] + Len(pieces[k])
        BY <2>4, <4>1, <4>2
      <4>5. QED
        BY <4>1, <4>3, <4>4 DEF StandsAt
    <3>2. CASE k # 1
      <4>1. /\ start[k] = a + 2 /\ Len(joined[k]) = 1 + Len(pieces[k])
            /\ \A m \in 1..Len(pieces[k]) : joined[k][1 + m] = pieces[k][m]
        BY <1>2, <1>10, <2>1, <2>2, <3>2
      <4>2. b = a + 1 + Len(pieces[k]) /\ a + Len(pieces[k]) <= Len(f)
        <5>1. b = a + (1 + Len(pieces[k])) /\ b <= Len(f) + 1
          BY <2>2, <2>3, <4>1
        <5>2. \A l \in Nat, g \in Nat : b = a + (1 + l) /\ b <= g + 1 => b = a + 1 + l /\ a + l <= g
          OBVIOUS
        <5>3. QED
          BY <1>8, <2>4, <5>1, <5>2
      <4>3. ASSUME NEW m \in 1..Len(pieces[k]) PROVE x[(a + 2) + m - 1] = pieces[k][m]
        <5>1. /\ 1 + m \in 1..Len(joined[k]) /\ a + (1 + m) - 1 = a + m
              /\ a + m \in 1..Len(f) /\ (a + m) + 1 = (a + 2) + m - 1
          BY <1>8, <2>4, <4>1, <4>2
        <5>2. f[a + (1 + m) - 1] = joined[k][1 + m]
          BY <2>3, <5>1
        <5>3. f[a + m] = pieces[k][m]
          BY <4>1, <5>1, <5>2
        <5>4. x[(a + m) + 1] = f[a + m]
          BY <1>8, <5>1
        <5>5. QED
          BY <5>1, <5>3, <5>4
      <4>4. start[k + 1] - 1 = start[k] + Len(pieces[k])
        <5>1. start[k + 1] = (a + 1 + Len(pieces[k])) + 2 /\ start[k] = a + 2
          BY <2>4, <4>1, <4>2
        <5>2. \A l \in Nat : ((a + 1 + l) + 2) - 1 = (a + 2) + l
          OBVIOUS
        <5>3. QED
          BY <2>4, <5>1, <5>2
      <4>5. start[k] \in Nat \ {0}
        BY <4>1
      <4>6. StandsAt(x, start[k], pieces[k])
        BY <4>1, <4>3 DEF StandsAt
      <4>7. QED
        BY <4>4, <4>5, <4>6
    <3>3. QED
      BY <3>1, <3>2
  <2>6. x[start[k + 1] - 1] = IF k = n THEN RightBrace ELSE d
    <3>1. start[k + 1] - 1 = b + 1
      BY <2>4
    <3>2. CASE k = n
      <4>1. b = Len(f) + 1
        BY <1>9, <2>2, <3>2
      <4>2. b + 1 = Len(f) + 2
        BY <1>8, <4>1
      <4>3. QED
        BY <1>8, <3>1, <3>2, <4>2
    <3>3. CASE k # n
      <4>1. k + 1 \in 1..n
        BY <2>1, <3>3
      <4>2. /\ at[(k + 1) + 1] = b + Len(joined[k + 1]) /\ Len(joined[k + 1]) = 1 + Len(pieces[k + 1])
            /\ joined[k + 1][1] = d /\ Len(pieces[k + 1]) \in Nat
            /\ \A m \in 1..Len(joined[k + 1]) : f[b + m - 1] = joined[k + 1][m]
        <5>1. k + 1 \in 1..n /\ k + 1 # 1
          BY <4>1
        <5>2. /\ at[(k + 1) + 1] = at[k + 1] + Len(joined[k + 1])
              /\ \A m \in 1..Len(joined[k + 1]) : f[at[k + 1] + m - 1] = joined[k + 1][m]
          BY <1>9, <5>1, Zenon
        <5>3. /\ Len(joined[k + 1]) = 1 + Len(pieces[k + 1])
              /\ joined[k + 1][1] = d /\ Len(pieces[k + 1]) \in Nat
          BY <1>2, <5>1
        <5>4. QED
          BY <2>2, <5>2, <5>3, Zenon
      <4>3. at[(k + 1) + 1] <= Len(f) + 1
        <5>1. (k + 1) + 1 \in 1..(n + 1)
          BY <4>1
        <5>2. QED
          <6>1. at[(k + 1) + 1] \in 1..(Len(f) + 1)
            BY <1>9, <5>1
          <6>2. QED
            BY <1>8, <6>1
      <4>4. b \in 1..Len(f) /\ 1 \in 1..Len(joined[k + 1]) /\ b + 1 - 1 = b
        BY <1>8, <4>2, <4>3
      <4>5. f[b + 1 - 1] = d
        BY <4>2, <4>4
      <4>6. x[b + 1] = f[b]
        BY <1>8, <4>4
      <4>7. QED
        BY <3>1, <3>3, <4>4, <4>5, <4>6
    <3>4. QED
      BY <3>2, <3>3
  <2>7. QED
    BY <2>5, <2>6
<1>13. ASSUME NEW k \in 1..n
       PROVE  /\ start[k] < start[k + 1] - 1
              /\ x[start[k + 1] - 1] = IF k = n THEN RightBrace ELSE d
              /\ SpelledAt(x, d, start[k], start[k + 1] - 1, items[k])
  <2>1. Spells(pieces[k], d, items[k]) /\ pieces[k] \in Seq(STRING) /\ Len(pieces[k]) \in Nat
    BY <1>1, <1>2
  <2>2. /\ start[k + 1] - 1 = start[k] + Len(pieces[k]) /\ start[k] \in Nat \ {0}
        /\ StandsAt(x, start[k], pieces[k])
    BY <1>12
  <2>3. Len(pieces[k]) > 0 /\ SpelledAt(x, d, start[k], start[k] + Len(pieces[k]), items[k])
    BY <2>1, <2>2, SpelledThere
  <2>4. start[k] < start[k] + Len(pieces[k])
    BY <2>1, <2>2, <2>3
  <2>5. QED
    BY <1>12, <2>2, <2>3, <2>4
<1>14. LiteralOf(x, d, items, start)
  BY <1>1, <1>8, <1>10, <1>11, <1>13 DEF LiteralOf
<1>15. QED
  BY <1>4, <1>14

-----------------------------------------------------------------------------
(* Each kind reads back what it writes. *)

OwnKinds == Kinds \ {"Generic"}

(* The element of a kind that a text of the scanner is converted to.       *)
Converted(k, e) ==
  CASE k = "Bool"    -> BoolElement(e)
    [] k = "Bytea"   -> ByteaElement(e)
    [] k = "Float64" -> Float64Element(e)
    [] k = "Float32" -> Float32Element(e)
    [] k = "Int64"   -> Int64Element(e)
    [] k = "Int32"   -> Int32Element(e)
    [] k = "String"  -> StringElement(e)

(* A piece of a literal that is converted to v.                            *)
ReadsBack(piece, k, v) ==
  piece \in Seq(STRING) /\ \E e \in Items : Spells(piece, ",", e) /\ Converted(k, e) = Ok(v)

(* A text that is converted to the values, one by one.                     *)
HoldsList(text, k, values) ==
  \E items \in Seq(Items) :
    /\ IsLiteral(text, ",", items) /\ Len(items) = Len(values)
    /\ \A j \in 1..Len(values) : Converted(k, items[j]) = Ok(values[j])

LEMMA CommaIsPlain ==
  /\ "," # LeftBrace /\ "," # RightBrace /\ "," # Quote /\ "," # Backslash
BY Zenon DEF LeftBrace, RightBrace, Quote, Backslash

LEMMA NoPieces ==
  ASSUME NEW pieces \in Seq(Seq(STRING)), NEW delimiter, Len(pieces) = 0
  PROVE  Braces(pieces, delimiter) = Empty
<1>1. pieces = <<>>
  BY EmptySeq
<1> DEFINE joined == [k \in DOMAIN pieces |-> (IF k = 1 THEN <<>> ELSE delimiter) \o pieces[k]]
<1>2. joined = <<>>
  <2>1. DOMAIN pieces = {}
    BY <1>1
  <2>2. QED
    BY <2>1
<1>3. FlattenSeq(joined) = <<>>
  <2>1. Len(<<>>) = 0
    BY EmptySeq
  <2>2. QED
    BY <1>2, <2>1 DEF FlattenSeq
<1>4. Braces(pieces, delimiter) = <<LeftBrace>> \o FlattenSeq(joined) \o <<RightBrace>>
  BY Zenon DEF Braces
<1> HIDE DEF joined
<1>5. Braces(pieces, delimiter) = <<LeftBrace>> \o <<>> \o <<RightBrace>>
  BY <1>3, <1>4, Zenon
<1>6. ASSUME NEW a, NEW b PROVE <<a>> \o <<>> \o <<b>> = <<a, b>>
  <2> DEFINE A == {a, b}
             w == <<a>> \o <<>> \o <<b>>
  <2>1. a \in A /\ b \in A /\ <<>> \in Seq(A) /\ Len(<<>>) = 0
    BY EmptySeq
  <2>2. <<a, b>> \in Seq(A) /\ Len(<<a, b>>) = 2 /\ <<a, b>>[1] = a /\ <<a, b>>[2] = b
    OBVIOUS
  <2> HIDE DEF A
  <2>3. Encloses(A, w, a, <<>>, b)
    BY <2>1, EnclosedPlaces
  <2> HIDE DEF w
  <2>4. w \in Seq(A) /\ Len(w) = 2 /\ w[1] = a /\ w[2] = b
    BY <2>1, <2>3 DEF Encloses
  <2>5. \A m \in 1..Len(w) : w[m] = <<a, b>>[m]
    <3>1. \A m \in 1..2 : m = 1 \/ m = 2
      OBVIOUS
    <3>2. QED
      BY <2>2, <2>4, <3>1
  <2>6. w = <<a, b>>
    BY <2>2, <2>4, <2>5, SeqEqual
  <2>7. QED
    BY <2>6 DEF w
<1>7. QED
  BY <1>5, <1>6, Zenon DEF Empty

LEMMA ListReadsBack ==
  ASSUME NEW k, NEW pieces \in Seq(Seq(STRING)), NEW values, Len(values) = Len(pieces),
         \A j \in 1..Len(values) : ReadsBack(pieces[j], k, values[j])
  PROVE  HoldsList(Braces(pieces, <<",">>), k, values)
<1>1. PICK n \in Nat : n = Len(pieces) /\ n = Len(values)
  BY LenProperties
<1> DEFINE Chosen(j) == CHOOSE e \in Items : Spells(pieces[j], ",", e) /\ Converted(k, e) = Ok(values[j])
           items == [j \in 1..n |-> Chosen(j)]
<1>2. ASSUME NEW j \in 1..n
      PROVE  Chosen(j) \in Items /\ Spells(pieces[j], ",", Chosen(j)) /\ Converted(k, Chosen(j)) = Ok(values[j])
  <2>1. \E e \in Items : Spells(pieces[j], ",", e) /\ Converted(k, e) = Ok(values[j])
    BY <1>1 DEF ReadsBack
  <2>2. QED
    BY <2>1, Zenon
<1>3. items \in [1..n -> Items]
  <2> HIDE DEF Chosen
  <2>1. QED
    BY <1>2
<1>4. \A j \in 1..n : Spells(pieces[j], ",", items[j]) /\ Converted(k, items[j]) = Ok(values[j])
  <2> HIDE DEF Chosen
  <2>1. QED
    BY <1>2
<1> HIDE DEF items
<1>5. items \in Seq(Items) /\ Len(items) = n
  BY <1>3, ListIsSeq
<1>6. IsLiteral(Braces(pieces, <<",">>), ",", items)
  <2>1. CASE n = 0
    <3>1. items = <<>>
      BY <1>5, <2>1, EmptySeq
    <3>2. Braces(pieces, <<",">>) = Empty
      BY <1>1, <2>1, NoPieces
    <3>3. QED
      BY <3>1, <3>2, Zenon DEF IsLiteral
  <2>2. CASE n # 0
    <3>1. "," \in STRING
      BY LiteralAssumption
    <3>2. "," \notin {LeftBrace, RightBrace, Quote, Backslash}
      BY CommaIsPlain
    <3>3. \E start : LiteralOf(Braces(pieces, <<",">>), ",", items, start)
      BY <1>1, <1>4, <1>5, <2>2, <3>1, <3>2, BracesAreLiteral
    <3>4. QED
      BY <3>3, Zenon DEF IsLiteral
  <2>3. QED
    BY <2>1, <2>2
<1>7. QED
  BY <1>1, <1>4, <1>5, <1>6 DEF HoldsList

LEMMA OneCharacter ==
  \A c : Len(<<c>>) > 0 /\ <<c>>[1] = c /\ \A j \in 1..Len(<<c>>) : <<c>>[j] = c
<1> TAKE c
<1>1. Len(<<c>>) = 1 /\ <<c>>[1] = c
  OBVIOUS
<1>2. \A j \in 1..1 : j = 1
  OBVIOUS
<1>3. QED
  BY <1>1, <1>2

(* A text of one character that means nothing to the scanner spells itself. *)
LEMMA PlainCharacter ==
  ASSUME NEW c \in STRING, NEW d, c \notin {LeftBrace, RightBrace, Quote, Backslash, d, "NULL"}
  PROVE  <<c>> \in Seq(STRING) /\ Item(<<c>>) \in Items /\ Spells(<<c>>, d, Item(<<c>>))
<1>1. <<c>> \in Seq(STRING)
  BY OneIsSeq
<1>2. <<c>> # <<"NULL">>
  <2>1. ASSUME <<c>> = <<"NULL">> PROVE c = "NULL"
    BY <2>1
  <2>2. QED
    BY <2>1
<1>3. Len(<<c>>) > 0 /\ <<c>>[1] = c /\ \A j \in 1..Len(<<c>>) : <<c>>[j] = c
  BY OneCharacter, Zenon
<1>4. PlainText(<<c>>, d, Item(<<c>>))
  BY <1>2, <1>3, Zenon DEF PlainText
<1>5. QED
  BY <1>1, <1>4 DEF Items, Spells

LEMMA ItemText == \A t : Item(t).text = t /\ Item(t).null = FALSE
BY DEF Item

LEMMA BoolReadsBack ==
  ASSUME NEW b \in BOOLEAN
  PROVE  ReadsBack(<<IF b THEN "t" ELSE "f">>, "Bool", b)
<1> DEFINE c == IF b THEN "t" ELSE "f"
<1>1. c \in STRING
  BY LiteralAssumption, Zenon
<1>2. c \notin {LeftBrace, RightBrace, Quote, Backslash, ",", "NULL"}
  <2>1. "t" \notin {LeftBrace, RightBrace, Quote, Backslash, ",", "NULL"}
    BY Zenon DEF LeftBrace, RightBrace, Quote, Backslash
  <2>2. "f" \notin {LeftBrace, RightBrace, Quote, Backslash, ",", "NULL"}
    BY Zenon DEF LeftBrace, RightBrace, Quote, Backslash
  <2>3. QED
    BY <2>1, <2>2, Zenon
<1>3. <<c>> \in {<<"t">>, <<"f">>} /\ ((<<c>> = <<"t">>) <=> b)
  <2>1. CASE b
    BY <2>1
  <2>2. CASE ~b
    BY <2>2
  <2>3. QED
    BY <2>1, <2>2
<1> HIDE DEF c
<1>4. <<c>> \in Seq(STRING) /\ Item(<<c>>) \in Items /\ Spells(<<c>>, ",", Item(<<c>>))
  BY <1>1, <1>2, PlainCharacter
<1>5. (<<c>> = <<"t">>) = b
  BY <1>3
<1>6. BoolElement(Item(<<c>>)) = Ok(b)
  BY <1>3, <1>5, ItemText DEF BoolElement
<1>7. Converted("Bool", Item(<<c>>)) = Ok(b)
  BY <1>6, Zenon DEF Converted
<1>8. ReadsBack(<<c>>, "Bool", b)
  BY <1>4, <1>7, Zenon DEF ReadsBack
<1>9. QED
  BY <1>8 DEF c

(* A number is read back where its kind has it. *)
LEMMA NumberReadsBack ==
  ASSUME NEW x \in Numbers
  PROVE  /\ ReadsBack(<<NumeralOf(x)>>, "Float64", x)
         /\ x \in Int64s => ReadsBack(<<NumeralOf(x)>>, "Int64", x)
         /\ x \in Int32s => ReadsBack(<<NumeralOf(x)>>, "Int32", x)
         /\ x \in DOMAIN Float32Of /\ Float32Of[x] = x => ReadsBack(<<NumeralOf(x)>>, "Float32", x)
<1> DEFINE c == NumeralOf(x)
<1>1. c \in DOMAIN Numerals /\ Numerals[c] = x
  <2>1. \E d \in DOMAIN Numerals : Numerals[d] = x
    BY DEF Numbers
  <2>2. QED
    BY <2>1, Zenon DEF NumeralOf
<1> HIDE DEF c
<1>2. c \in STRING /\ c \notin {LeftBrace, RightBrace, Quote, Backslash, ",", "NULL"}
  BY <1>1, TextAssumption, Zenon
<1>3. <<c>> \in Seq(STRING) /\ Item(<<c>>) \in Items /\ Spells(<<c>>, ",", Item(<<c>>))
  BY <1>2, PlainCharacter
<1>4. Len(<<c>>) = 1 /\ <<c>>[1] = c
  OBVIOUS
<1>5. Item(<<c>>).text = <<c>>
  BY ItemText
<1>6. Float64Element(Item(<<c>>)) = Ok(x)
  BY <1>1, <1>4, <1>5 DEF Float64Element, Numeral
<1>7. x \in Int64s => Int64Element(Item(<<c>>)) = Ok(x)
  BY <1>1, <1>4, <1>5 DEF Int64Element, Numeral
<1>8. x \in Int32s => Int32Element(Item(<<c>>)) = Ok(x)
  BY <1>1, <1>4, <1>5 DEF Int32Element, Numeral
<1>9. x \in DOMAIN Float32Of /\ Float32Of[x] = x => Float32Element(Item(<<c>>)) = Ok(x)
  BY <1>1, <1>4, <1>5 DEF Float32Element, Numeral, Ok
<1>10. /\ Converted("Float64", Item(<<c>>)) = Float64Element(Item(<<c>>))
       /\ Converted("Int64", Item(<<c>>)) = Int64Element(Item(<<c>>))
       /\ Converted("Int32", Item(<<c>>)) = Int32Element(Item(<<c>>))
       /\ Converted("Float32", Item(<<c>>)) = Float32Element(Item(<<c>>))
  BY DEF Converted
<1>11. QED
  BY <1>3, <1>6, <1>7, <1>8, <1>9, <1>10, Zenon DEF ReadsBack, c

(* What the server prints of a text spells it, too.                        *)
LEMMA PrintedSpells ==
  ASSUME NEW t \in Seq(STRING)
  PROVE  /\ Printed(t, <<",">>) \in Seq(STRING) /\ Item(t) \in Items
         /\ Spells(Printed(t, <<",">>), ",", Item(t))
<1>1. Item(t) \in Items
  BY DEF Items
<1>2. AppendArrayQuotedBytes(t) \in Seq(STRING) /\ Spells(AppendArrayQuotedBytes(t), ",", Item(t))
  BY QuotingSpells, Zenon DEF Spells
<1> DEFINE awkward == \/ t \in {<<>>, <<"NULL">>}
                      \/ \E k \in DOMAIN t : t[k] \in {"{", "}", Quote, Backslash} \cup ToSet(<<",">>)
<1>3. Printed(t, <<",">>) = IF awkward THEN AppendArrayQuotedBytes(t) ELSE t
  BY Zenon DEF Printed
<1>4. CASE awkward
  <2>1. Printed(t, <<",">>) = AppendArrayQuotedBytes(t)
    BY <1>3, <1>4, Zenon
  <2>2. QED
    BY <1>1, <1>2, <2>1, Zenon
<1>5. CASE ~awkward
  <2>1. Printed(t, <<",">>) = t
    BY <1>3, <1>5, Zenon
  <2>2. \A c : c \in ToSet(<<c>>)
    BY DEF ToSet
  <2>3. /\ t # <<>> /\ t # <<"NULL">>
        /\ \A k \in DOMAIN t : t[k] # LeftBrace /\ t[k] # RightBrace /\ t[k] # Quote /\ t[k] # ","
    BY <1>5, <2>2, Zenon DEF LeftBrace, RightBrace
  <2> HIDE DEF awkward
  <2>4. DOMAIN t = 1..Len(t) /\ Len(t) \in Nat /\ Len(t) > 0 /\ 1 \in 1..Len(t)
    <3>1. t # <<>>
      BY <2>3
    <3>2. DOMAIN t = 1..Len(t) /\ Len(t) \in Nat /\ Len(t) # 0
      BY <3>1, LenProperties, EmptySeq
    <3>3. QED
      BY <3>2
  <2>5. PlainText(t, ",", Item(t))
    BY <2>3, <2>4, Zenon DEF PlainText
  <2>6. QED
    BY <1>1, <2>1, <2>5, Zenon DEF Spells
<1>6. QED
  BY <1>4, <1>5

LEMMA StringConverted ==
  ASSUME NEW t
  PROVE  Converted("String", Item(t)) = Ok(t)
BY ItemText DEF Converted, StringElement

LEMMA StringReadsBack ==
  ASSUME NEW t \in Seq(STRING)
  PROVE  /\ ReadsBack(AppendArrayQuotedBytes(t), "String", t)
         /\ ReadsBack(Printed(t, <<",">>), "String", t)
<1>1. Item(t) \in Items
  BY DEF Items
<1>2. AppendArrayQuotedBytes(t) \in Seq(STRING) /\ Spells(AppendArrayQuotedBytes(t), ",", Item(t))
  BY QuotingSpells, Zenon DEF Spells
<1>3. QED
  BY <1>1, <1>2, PrintedSpells, StringConverted, Zenon DEF ReadsBack

-----------------------------------------------------------------------------
(* Bytes. *)

(* No digit means anything to the scanner. *)
LEMMA DigitsDiffer ==
  /\ \A d \in 1..16 : Digits[d] \in STRING /\ Digits[d] \notin {Quote, Backslash, "x"}
  /\ \A d, e \in 1..16 : Digits[d] = Digits[e] => d = e
<1>1. DOMAIN Digits = 1..16
  BY DEF Digits
<1>2. ToSet(Digits) = {"0", "1", "2", "3", "4", "5", "6", "7", "8", "9", "a", "b", "c", "d", "e", "f"}
  BY DEF Digits, ToSet
<1>3. \A c \in {"0", "1", "2", "3", "4", "5", "6", "7", "8", "9", "a", "b", "c", "d", "e", "f"} :
        c \notin {Quote, Backslash, "x"}
  BY Zenon DEF Quote, Backslash
<1>4. \A d \in 1..16 : Digits[d] \in ToSet(Digits) /\ Digits[d] \in STRING
  BY <1>1, LiteralAssumption, Zenon DEF ToSet
<1>5. \A d, e \in 1..16 : Digits[d] = Digits[e] => d = e
  BY DEF Digits
<1>6. QED
  BY <1>2, <1>3, <1>4, <1>5, Zenon

LEMMA HexDigits ==
  ASSUME NEW b \in 0..255
  PROVE  \E c, d \in 1..16 : /\ DigitsOf(b, 16, <<16, 1>>) = <<Digits[c], Digits[d]>>
                             /\ 16 * (c - 1) + (d - 1) = b
<1> DEFINE c == ((b \div 16) % 16) + 1
           d == (b % 16) + 1
           r == DigitsOf(b, 16, <<16, 1>>)
<1>1. c \in 1..16 /\ d \in 1..16 /\ 16 * (c - 1) + (d - 1) = b /\ b \div 1 = b
  OBVIOUS
<1>2. /\ r = [k \in DOMAIN <<16, 1>> |-> Digits[((b \div <<16, 1>>[k]) % 16) + 1]]
  BY Zenon DEF DigitsOf
<1>3. DOMAIN <<16, 1>> = 1..2 /\ <<16, 1>>[1] = 16 /\ <<16, 1>>[2] = 1
  OBVIOUS
<1>4. r = [k \in 1..2 |-> Digits[((b \div <<16, 1>>[k]) % 16) + 1]] /\ 1 \in 1..2 /\ 2 \in 1..2
  BY <1>2, <1>3
<1>5. r[1] = Digits[c] /\ r[2] = Digits[d]
  <2>1. r[1] = Digits[((b \div <<16, 1>>[1]) % 16) + 1]
    BY <1>4
  <2>2. r[2] = Digits[((b \div <<16, 1>>[2]) % 16) + 1]
    BY <1>4
  <2>3. QED
    BY <1>1, <1>3, <2>1, <2>2
<1>6. r = [k \in 1..2 |-> r[k]]
  BY <1>4
<1> HIDE DEF r, c, d
<1>7. r = <<Digits[c], Digits[d]>>
  BY <1>5, <1>6
<1>8. QED
  BY <1>1, <1>7 DEF r

(* The two digits of each byte, one byte after the other.                  *)
HexOf(h, v) ==
  /\ h \in Seq(STRING) /\ Len(v) \in Nat /\ Len(h) = 2 * Len(v)
  /\ \A k \in 1..Len(v) :
       \E c, d \in 1..16 : /\ h[2 * k - 1] = Digits[c] /\ h[2 * k] = Digits[d]
                           /\ 16 * (c - 1) + (d - 1) = v[k]

LEMMA HexPlaces ==
  ASSUME NEW v \in Seq(0..255)
  PROVE  HexOf(Hex(v), v)
<1> DEFINE digits == [k \in DOMAIN v |-> DigitsOf(v[k], 16, <<16, 1>>)]
           h == FlattenSeq(digits)
<1>1. DOMAIN v = 1..Len(v) /\ Len(v) \in Nat /\ \A k \in 1..Len(v) : v[k] \in 0..255
  <2>1. DOMAIN v = 1..Len(v) /\ Len(v) \in Nat
    BY LenProperties
  <2>2. QED
    BY <2>1, ElementOfSeq, Zenon
<1>2. Hex(v) = h
  BY Zenon DEF Hex
<1>3. ASSUME NEW k \in 1..Len(v)
      PROVE  digits[k] \in Seq(STRING) /\ \E c, d \in 1..16 : digits[k] = <<Digits[c], Digits[d]>> /\ 16 * (c - 1) + (d - 1) = v[k]
  <2>1. digits[k] = DigitsOf(v[k], 16, <<16, 1>>) /\ v[k] \in 0..255
    BY <1>1, Zenon
  <2> HIDE DEF digits
  <2>2. PICK c \in 1..16, d \in 1..16 :
          DigitsOf(v[k], 16, <<16, 1>>) = <<Digits[c], Digits[d]>> /\ 16 * (c - 1) + (d - 1) = v[k]
    BY <2>1, HexDigits
  <2>3. <<Digits[c], Digits[d]>> \in Seq(STRING)
    BY DigitsDiffer, TwoAreSeq
  <2>4. QED
    BY <2>1, <2>2, <2>3
<1>4. digits \in Seq(Seq(STRING)) /\ Len(digits) = Len(v)
  <2>1. digits = [k \in 1..Len(v) |-> digits[k]]
    BY <1>1
  <2> HIDE DEF digits
  <2>2. digits \in [1..Len(v) -> Seq(STRING)]
    BY <1>3, <2>1
  <2>3. QED
    BY <1>1, <2>2, ListIsSeq
<1> HIDE DEF digits
<1>5. h \in Seq(STRING) /\ \E at : Placed(h, digits, at)
  BY <1>4, FlattenPlaces
<1>6. PICK at : Placed(h, digits, at)
  BY <1>5
<1> HIDE DEF h
<1>7. Len(h) \in Nat
  BY <1>5, LenProperties
<1>8. ASSUME NEW k \in 1..Len(v) PROVE Len(digits[k]) = 2
  <2>1. ASSUME NEW c, NEW d PROVE Len(<<c, d>>) = 2
    OBVIOUS
  <2>2. QED
    BY <1>3, <2>1
<1>9. /\ at \in [1..(Len(v) + 1) -> 1..(Len(h) + 1)] /\ at[1] = 1 /\ at[Len(v) + 1] = Len(h) + 1
      /\ \A k \in 1..Len(v) : /\ at[k + 1] = at[k] + 2
                              /\ \A m \in 1..2 : h[at[k] + m - 1] = digits[k][m]
  BY <1>4, <1>6, <1>8 DEF Placed
<1> DEFINE Odd == {k \in 1..(Len(v) + 1) : at[k] # 2 * k - 1}
<1>10. Odd = {}
  <2> SUFFICES ASSUME Odd # {} PROVE FALSE
    OBVIOUS
  <2>1. Odd \subseteq Nat
    BY <1>1
  <2>2. PICK k \in Odd : \A j \in Odd : k <= j
    <3> HIDE DEF Odd
    <3>1. QED
      BY <2>1, SmallestOf
  <2>3. k \in 1..(Len(v) + 1) /\ at[k] # 2 * k - 1 /\ k # 1
    BY <1>9, <2>2
  <2>4. k - 1 \in 1..Len(v) /\ k - 1 \in 1..(Len(v) + 1) /\ ~(k <= k - 1) /\ (k - 1) + 1 = k
    BY <1>1, <2>3
  <2>5. at[k - 1] = 2 * (k - 1) - 1
    BY <2>2, <2>4
  <2>6. at[k] = at[k - 1] + 2
    BY <1>9, <2>4
  <2>7. (2 * (k - 1) - 1) + 2 = 2 * k - 1
    BY <1>1, <2>3
  <2>8. QED
    BY <2>3, <2>5, <2>6, <2>7
<1>11. \A k \in 1..(Len(v) + 1) : at[k] = 2 * k - 1
  BY <1>10
<1>12. Len(h) = 2 * Len(v)
  <2>1. Len(v) + 1 \in 1..(Len(v) + 1)
    BY <1>1
  <2>2. Len(h) + 1 = 2 * (Len(v) + 1) - 1
    BY <1>9, <1>11, <2>1
  <2>3. QED
    BY <1>1, <1>7, <2>2
<1>13. ASSUME NEW k \in 1..Len(v)
       PROVE  \E c, d \in 1..16 : /\ h[2 * k - 1] = Digits[c] /\ h[2 * k] = Digits[d]
                                  /\ 16 * (c - 1) + (d - 1) = v[k]
  <2>1. PICK c \in 1..16, d \in 1..16 :
          digits[k] = <<Digits[c], Digits[d]>> /\ 16 * (c - 1) + (d - 1) = v[k]
    BY <1>3
  <2>2. digits[k][1] = Digits[c] /\ digits[k][2] = Digits[d]
    BY <2>1
  <2>3. k \in 1..(Len(v) + 1) /\ 1 \in 1..2 /\ 2 \in 1..2
    BY <1>1
  <2>4. (2 * k - 1) + 1 - 1 = 2 * k - 1 /\ (2 * k - 1) + 2 - 1 = 2 * k
    BY <1>1
  <2>5. h[2 * k - 1] = digits[k][1] /\ h[2 * k] = digits[k][2]
    BY <1>9, <1>11, <2>3, <2>4
  <2>6. QED
    BY <2>1, <2>2, <2>5
<1>14. QED
  BY <1>1, <1>2, <1>5, <1>12, <1>13 DEF HexOf

LEMMA HexIsDigits ==
  ASSUME NEW h, NEW v, HexOf(h, v)
  PROVE  \A m \in 1..Len(h) : \E d \in 1..16 : h[m] = Digits[d]
<1> TAKE m \in 1..Len(h)
<1>1. Len(v) \in Nat /\ Len(h) = 2 * Len(v)
  BY DEF HexOf
<1>2. PICK k \in 1..Len(v) : m = 2 * k - 1 \/ m = 2 * k
  <2>1. CASE m % 2 = 0
    <3>1. m \div 2 \in 1..Len(v) /\ m = 2 * (m \div 2)
      BY <1>1, <2>1
    <3>2. QED
      BY <3>1
  <2>2. CASE m % 2 = 1
    <3>1. (m + 1) \div 2 \in 1..Len(v) /\ m = 2 * ((m + 1) \div 2) - 1
      BY <1>1, <2>2
    <3>2. QED
      BY <3>1
  <2>3. m % 2 = 0 \/ m % 2 = 1
    BY <1>1
  <2>4. QED
    BY <2>1, <2>2, <2>3
<1>3. \E c, d \in 1..16 : h[2 * k - 1] = Digits[c] /\ h[2 * k] = Digits[d]
  BY DEF HexOf
<1>4. QED
  BY <1>2, <1>3

LEMMA TwoPlaces ==
  \A A : \A b, x \in A :
    <<b, x>> \in Seq(A) /\ Len(<<b, x>>) = 2 /\ <<b, x>>[1] = b /\ <<b, x>>[2] = x
OBVIOUS

LEMMA FourPlaces ==
  \A A : \A w, x, y, z \in A :
    /\ <<w, x, y, z>> \in Seq(A) /\ Len(<<w, x, y, z>>) = 4
    /\ <<w, x, y, z>>[1] = w /\ <<w, x, y, z>>[2] = x
    /\ <<w, x, y, z>>[3] = y /\ <<w, x, y, z>>[4] = z
OBVIOUS

(* Value doubles the backslash, as the quoting of an element wants it.     *)
LEMMA HexSpells ==
  ASSUME NEW v \in Seq(0..255)
  PROVE  /\ <<Backslash, "x">> \o Hex(v) \in Seq(STRING)
         /\ <<Quote, Backslash, Backslash, "x">> \o Hex(v) \o <<Quote>> \in Seq(STRING)
         /\ QuotedText(<<Quote, Backslash, Backslash, "x">> \o Hex(v) \o <<Quote>>,
                       <<Backslash, "x">> \o Hex(v))
<1> DEFINE h == Hex(v)
           l == Len(h)
           t == <<Backslash, "x">> \o h
           u == <<Quote, Backslash, Backslash, "x">> \o h
           q == u \o <<Quote>>
<1>1. /\ h \in Seq(STRING) /\ l \in Nat
      /\ \A m \in 1..l : h[m] # Quote /\ h[m] # Backslash
  <2>1. HexOf(h, v)
    BY HexPlaces
  <2> HIDE DEF h
  <2>2. h \in Seq(STRING)
    BY <2>1 DEF HexOf
  <2>3. \A m \in 1..Len(h) : \E d \in 1..16 : h[m] = Digits[d]
    BY <2>1, HexIsDigits, Zenon
  <2>4. \A m \in 1..l : h[m] # Quote /\ h[m] # Backslash
    BY <2>3, DigitsDiffer, Zenon
  <2>5. QED
    BY <2>2, <2>4, LenProperties
<1> HIDE DEF h
<1>2. "x" \in STRING /\ "x" \notin {Quote, Backslash}
  <2>1. "x" \notin {Quote, Backslash}
    BY Zenon DEF Quote, Backslash
  <2>2. QED
    BY <2>1, LiteralAssumption
<1>5. /\ t \in Seq(STRING) /\ Len(t) = l + 2 /\ t[1] = Backslash /\ t[2] = "x"
      /\ \A m \in 1..l : t[m + 2] = h[m]
  <2>1. PICK p \in Seq(STRING) : /\ p = <<Backslash, "x">> /\ Len(p) = 2
                                 /\ p[1] = Backslash /\ p[2] = "x"
    <3>1. "x" \in STRING /\ Backslash \in STRING
      BY <1>2, SpecialsAreStrings, Zenon
    <3>2. /\ <<Backslash, "x">> \in Seq(STRING) /\ Len(<<Backslash, "x">>) = 2
          /\ <<Backslash, "x">>[1] = Backslash /\ <<Backslash, "x">>[2] = "x"
      BY <3>1, TwoPlaces, Zenon
    <3>3. QED
      BY <3>2, Zenon
  <2>2. t = p \o h
    BY <2>1
  <2> HIDE DEF t
  <2>3. /\ t \in Seq(STRING) /\ Len(t) = Len(p) + l
        /\ \A m \in 1..Len(p) : t[m] = p[m]
        /\ \A m \in 1..l : t[Len(p) + m] = h[m]
    BY <1>1, <2>2, JoinedPlaces
  <2>4. 1 \in 1..2 /\ 2 \in 1..2 /\ 2 + l = l + 2 /\ \A m \in 1..l : 2 + m = m + 2
    BY <1>1
  <2>5. QED
    BY <2>1, <2>3, <2>4
<1>6. /\ u \in Seq(STRING) /\ Len(u) = l + 4
      /\ u[1] = Quote /\ u[2] = Backslash /\ u[3] = Backslash /\ u[4] = "x"
      /\ \A m \in 1..l : u[m + 4] = h[m]
  <2>1. PICK p \in Seq(STRING) : /\ p = <<Quote, Backslash, Backslash, "x">> /\ Len(p) = 4
                                 /\ p[1] = Quote /\ p[2] = Backslash /\ p[3] = Backslash /\ p[4] = "x"
    <3>1. "x" \in STRING /\ Quote \in STRING /\ Backslash \in STRING
      BY <1>2, SpecialsAreStrings, Zenon
    <3>2. \A w, x, y, z \in STRING :
            /\ <<w, x, y, z>> \in Seq(STRING) /\ Len(<<w, x, y, z>>) = 4
            /\ <<w, x, y, z>>[1] = w /\ <<w, x, y, z>>[2] = x
            /\ <<w, x, y, z>>[3] = y /\ <<w, x, y, z>>[4] = z
      BY FourPlaces, Zenon
    <3>3. /\ <<Quote, Backslash, Backslash, "x">> \in Seq(STRING)
          /\ Len(<<Quote, Backslash, Backslash, "x">>) = 4
          /\ <<Quote, Backslash, Backslash, "x">>[1] = Quote
          /\ <<Quote, Backslash, Backslash, "x">>[2] = Backslash
          /\ <<Quote, Backslash, Backslash, "x">>[3] = Backslash
          /\ <<Quote, Backslash, Backslash, "x">>[4] = "x"
      BY <3>1, <3>2, Zenon
    <3>4. QED
      BY <3>3, Zenon
  <2>2. u = p \o h
    BY <2>1
  <2> HIDE DEF u
  <2>3. /\ u \in Seq(STRING) /\ Len(u) = Len(p) + l
        /\ \A m \in 1..Len(p) : u[m] = p[m]
        /\ \A m \in 1..l : u[Len(p) + m] = h[m]
    BY <1>1, <2>2, JoinedPlaces
  <2>4. 1 \in 1..4 /\ 2 \in 1..4 /\ 3 \in 1..4 /\ 4 \in 1..4 /\ 4 + l = l + 4 /\ \A m \in 1..l : 4 + m = m + 4
    BY <1>1
  <2>5. QED
    BY <2>1, <2>3, <2>4
<1> HIDE DEF t, u
<1>7. /\ q \in Seq(STRING) /\ Len(q) = l + 5 /\ q[l + 5] = Quote
      /\ \A m \in 1..(l + 4) : q[m] = u[m]
  <2>1. PICK p \in Seq(STRING) : p = <<Quote>> /\ Len(p) = 1 /\ p[1] = Quote
    <3>1. \A c : Len(<<c>>) = 1 /\ <<c>>[1] = c
      OBVIOUS
    <3>2. QED
      BY <3>1, SpecialsAreStrings, OneIsSeq, Zenon
  <2>2. q = u \o p
    BY <2>1
  <2> HIDE DEF q
  <2>3. /\ q \in Seq(STRING) /\ Len(q) = Len(u) + Len(p)
        /\ \A m \in 1..Len(u) : q[m] = u[m]
        /\ \A m \in 1..Len(p) : q[Len(u) + m] = p[m]
    <3>1. u \in Seq(STRING) /\ p \in Seq(STRING)
      BY <1>6, <2>1
    <3>2. QED
      BY <2>2, <3>1, JoinedPlaces
  <2>4. 1 \in 1..1 /\ (l + 4) + 1 = l + 5
    BY <1>1
  <2>5. QED
    BY <1>6, <2>1, <2>3, <2>4
<1> HIDE DEF q
<1> DEFINE at == [j \in 1..(Len(t) + 1) |-> IF j = 1 THEN 2 ELSE j + 2]
<1>8. /\ at \in [1..(Len(t) + 1) -> 2..(l + 5)]
      /\ \A j \in 1..(Len(t) + 1) : at[j] = IF j = 1 THEN 2 ELSE j + 2
  <2>1. \A j \in 1..(l + 3) : (IF j = 1 THEN 2 ELSE j + 2) \in 2..(l + 5)
    BY <1>1
  <2>2. Len(t) + 1 = l + 3
    BY <1>1, <1>5
  <2>3. QED
    BY <2>1, <2>2
<1> HIDE DEF at
<1>9. at[1] = 2 /\ at[Len(t) + 1] = l + 5
  <2>1. 1 \in 1..(Len(t) + 1) /\ Len(t) + 1 \in 1..(Len(t) + 1) /\ Len(t) + 1 # 1 /\ (Len(t) + 1) + 2 = l + 5
    BY <1>1, <1>5
  <2>2. QED
    BY <1>8, <2>1
<1>10. ASSUME NEW j \in 1..Len(t)
       PROVE  IF t[j] \in Special
              THEN q[at[j]] = Backslash /\ q[at[j] + 1] = t[j] /\ at[j + 1] = at[j] + 2
              ELSE q[at[j]] = t[j] /\ at[j + 1] = at[j] + 1
  <2>1. j \in 1..(l + 2) /\ j \in 1..(Len(t) + 1) /\ j + 1 \in 1..(Len(t) + 1) /\ j + 1 # 1
    BY <1>1, <1>5
  <2>2. at[j + 1] = (j + 1) + 2
    BY <1>8, <2>1
  <2>3. CASE j = 1
    <3>1. at[j] = 2 /\ at[j + 1] = 4 /\ t[j] = Backslash
      BY <1>5, <1>9, <2>2, <2>3
    <3>2. q[2] = Backslash /\ q[3] = Backslash
      <4>1. 2 \in 1..(l + 4) /\ 3 \in 1..(l + 4)
        BY <1>1
      <4>2. QED
        BY <1>6, <1>7, <4>1
    <3>3. Backslash \in Special /\ 2 + 1 = 3 /\ 2 + 2 = 4
      BY DEF Special
    <3>4. QED
      BY <3>1, <3>2, <3>3
  <2>4. CASE j = 2
    <3>1. at[j] = 4 /\ at[j + 1] = 5 /\ t[j] = "x"
      <4>1. 2 # 1 /\ 2 + 2 = 4 /\ (2 + 1) + 2 = 5
        OBVIOUS
      <4>2. QED
        BY <1>5, <1>8, <2>1, <2>2, <2>4, <4>1
    <3>2. q[4] = "x"
      <4>1. 4 \in 1..(l + 4)
        BY <1>1
      <4>2. QED
        BY <1>6, <1>7, <4>1
    <3>3. "x" \notin Special /\ 4 + 1 = 5
      BY <1>2 DEF Special
    <3>4. QED
      BY <3>1, <3>2, <3>3
  <2>5. CASE j # 1 /\ j # 2
    <3>1. j - 2 \in 1..l /\ (j - 2) + 2 = j /\ (j - 2) + 4 = j + 2 /\ j + 2 \in 1..(l + 4)
      BY <1>1, <2>1, <2>5
    <3>2. t[j] = h[j - 2] /\ q[j + 2] = h[j - 2] /\ h[j - 2] \notin Special
      BY <1>1, <1>5, <1>6, <1>7, <3>1 DEF Special
    <3>3. at[j] = j + 2 /\ at[j + 1] = (j + 2) + 1
      <4>1. at[j] = j + 2
        BY <1>8, <2>1, <2>5
      <4>2. (j + 1) + 2 = (j + 2) + 1
        BY <1>1, <2>1
      <4>3. QED
        BY <2>2, <4>1, <4>2
    <3>4. QED
      BY <3>2, <3>3
  <2>6. QED
    BY <2>3, <2>4, <2>5
<1>11. QuotedAt(q, 1, Len(q) + 1, t, at)
  <2>1. 1 + 1 = 2 /\ (Len(q) + 1) - 1 = l + 5
    BY <1>1, <1>7
  <2>2. q[1] = Quote
    <3>1. 1 \in 1..(l + 4)
      BY <1>1
    <3>2. QED
      BY <1>6, <1>7, <3>1
  <2>3. at \in [1..(Len(t) + 1) -> (1 + 1)..((Len(q) + 1) - 1)]
    BY <1>8, <2>1
  <2>4. QED
    BY <1>5, <1>7, <1>9, <1>10, <2>1, <2>2, <2>3, Zenon DEF QuotedAt
<1>12. QED
  BY <1>5, <1>7, <1>11, Zenon DEF QuotedText, t, u, q, h

(* A digit that is written is read as the digit it is. *)
LEMMA DigitRead ==
  \A d \in 1..16 : DigitValue(Digits[d]) = d - 1 /\ \A base \in Nat : d <= base => IsDigit(Digits[d], base)
<1> TAKE d \in 1..16
<1>1. DOMAIN Digits = 1..16
  BY DEF Digits
<1> DEFINE e == CHOOSE e \in DOMAIN Digits : Digits[e] = Digits[d]
<1>2. e \in DOMAIN Digits /\ Digits[e] = Digits[d]
  BY <1>1, Zenon
<1> HIDE DEF e
<1>3. e = d
  BY <1>1, <1>2, DigitsDiffer
<1>4. DigitValue(Digits[d]) = e - 1
  BY Zenon DEF DigitValue, e
<1>5. ASSUME NEW base \in Nat, d <= base PROVE IsDigit(Digits[d], base)
  <2>1. d \in 1..base
    BY <1>5
  <2>2. QED
    BY <2>1 DEF IsDigit
<1>6. QED
  BY <1>3, <1>4, <1>5

LEMMA PrefixRemoved ==
  ASSUME NEW p \in Seq(STRING), Len(p) = 2, NEW h \in Seq(STRING)
  PROVE  IsPrefix(p, p \o h) /\ SubSeq(p \o h, 3, Len(p \o h)) = h
<1> DEFINE t == p \o h
<1>1. /\ t \in Seq(STRING) /\ Len(t) = Len(p) + Len(h)
      /\ \A m \in 1..Len(p) : t[m] = p[m]
      /\ \A m \in 1..Len(h) : t[Len(p) + m] = h[m]
  BY JoinedPlaces
<1> HIDE DEF t
<1>2. Len(h) \in Nat
  BY LenProperties
<1>3. SubSeq(t, 1, 2) = p /\ SubSeq(p, 1, 2) = p
  <2>1. /\ \A m \in 1..Len(p) : 1 + m - 1 = m
        /\ 1 + Len(p) - 1 = 2 /\ 1 \in Nat \ {0}
    OBVIOUS
  <2>2. StandsAt(t, 1, p) /\ StandsAt(p, 1, p)
    BY <1>1, <2>1 DEF StandsAt
  <2>3. SubSeq(t, 1, 1 + Len(p) - 1) = p
    BY <2>1, <2>2, SliceIs
  <2>4. SubSeq(p, 1, 1 + Len(p) - 1) = p
    BY <2>1, <2>2, SliceIs
  <2>5. QED
    BY <2>1, <2>3, <2>4
<1>4. IsPrefix(p, t)
  <2>1. Len(p) <= Len(t)
    BY <1>1, <1>2
  <2>2. SubSeq(p, 1, Len(p)) = SubSeq(t, 1, Len(p))
    BY <1>3
  <2>3. QED
    BY <2>1, <2>2, Zenon DEF IsPrefix
<1>5. SubSeq(t, 3, Len(t)) = h
  <2>1. /\ \A m \in 1..Len(h) : 3 + m - 1 = 2 + m
        /\ 3 + Len(h) - 1 = Len(t) /\ 3 \in Nat \ {0}
    BY <1>1, <1>2
  <2>2. StandsAt(t, 3, h)
    BY <1>1, <2>1 DEF StandsAt
  <2>3. SubSeq(t, 3, 3 + Len(h) - 1) = h
    BY <2>1, <2>2, SliceIs
  <2>4. QED
    BY <2>1, <2>3
<1>6. QED
  BY <1>4, <1>5 DEF t

(* The two characters the hex format starts with are its mark.             *)
LEMMA HexMark ==
  ASSUME NEW h \in Seq(STRING)
  PROVE  LET t == <<Backslash, "x">> \o h
         IN  IsPrefix(<<Backslash, "x">>, t) /\ SubSeq(t, 3, Len(t)) = h
<1>1. "x" \in STRING /\ Backslash \in STRING
  BY LiteralAssumption, SpecialsAreStrings, Zenon
<1>2. <<Backslash, "x">> \in Seq(STRING) /\ Len(<<Backslash, "x">>) = 2
  BY <1>1, TwoPlaces, Zenon
<1>3. QED
  BY <1>2, PrefixRemoved, Zenon

(* Hex is read back as the bytes it was written for. *)
LEMMA HexParsed ==
  ASSUME NEW v \in Seq(0..255)
  PROVE  ParseBytea(<<Backslash, "x">> \o Hex(v)) = Ok(v)
<1> DEFINE h == Hex(v)
           t == <<Backslash, "x">> \o h
<1>1. HexOf(h, v)
  BY HexPlaces
<1> HIDE DEF h
<1>2. h \in Seq(STRING) /\ Len(v) \in Nat /\ Len(h) = 2 * Len(v)
  BY <1>1 DEF HexOf
<1>3. IsPrefix(<<Backslash, "x">>, t) /\ SubSeq(t, 3, Len(t)) = h
  BY <1>2, HexMark
<1>4. ParseBytea(t) = ParseHex(h)
  <2> HIDE DEF t
  <2>1. QED
    BY <1>3, Zenon DEF ParseBytea
<1>5. DOMAIN h = 1..Len(h) /\ \A m \in DOMAIN h : IsDigit(h[m], 16)
  <2>1. DOMAIN h = 1..Len(h)
    BY <1>2, LenProperties
  <2>2. \A m \in 1..Len(h) : \E d \in 1..16 : h[m] = Digits[d]
    BY <1>1, HexIsDigits, Zenon
  <2>3. QED
    BY <2>1, <2>2 DEF IsDigit
<1>6. Len(h) % 2 = 0 /\ Len(h) \div 2 = Len(v)
  BY <1>2
<1> DEFINE read == [k \in 1..(Len(h) \div 2) |-> 16 * DigitValue(h[2 * k - 1]) + DigitValue(h[2 * k])]
<1>7. ParseHex(h) = Ok(read)
  BY <1>5, <1>6, Zenon DEF ParseHex
<1>8. read = v
  <2>1. \A k \in 1..Len(v) : 16 * DigitValue(h[2 * k - 1]) + DigitValue(h[2 * k]) = v[k]
    <3> TAKE k \in 1..Len(v)
    <3>1. PICK c \in 1..16, d \in 1..16 : /\ h[2 * k - 1] = Digits[c] /\ h[2 * k] = Digits[d]
                                          /\ 16 * (c - 1) + (d - 1) = v[k]
      BY <1>1 DEF HexOf
    <3>2. QED
      BY <3>1, DigitRead
  <2>2. v = [k \in 1..Len(v) |-> v[k]]
    BY SeqDef, LenProperties
  <2>3. QED
    BY <1>6, <2>1, <2>2
<1>9. QED
  BY <1>4, <1>7, <1>8 DEF h

(* The escape format: a byte is written as itself, as two backslashes or   *)
(* as a backslash and three octal digits.                                  *)
EscapedAs(q, b) ==
  \/ Len(q) = 1 /\ q[1] # Backslash /\ Code[q[1]] = b
  \/ Len(q) = 2 /\ q[1] = Backslash /\ q[2] = Backslash /\ b = Code[Backslash]
  \/ /\ Len(q) = 4 /\ q[1] = Backslash
     /\ \E c, d, e \in 1..8 : /\ q[2] = Digits[c] /\ q[3] = Digits[d] /\ q[4] = Digits[e]
                              /\ 64 * (c - 1) + 8 * (d - 1) + (e - 1) = b

LEMMA OctalDigits ==
  ASSUME NEW b \in 0..255
  PROVE  LET r == DigitsOf(b, 8, <<64, 8, 1>>) IN
         /\ r \in Seq(STRING) /\ Len(r) = 3
         /\ \E c, d, e \in 1..8 : /\ r[1] = Digits[c] /\ r[2] = Digits[d] /\ r[3] = Digits[e]
                                  /\ 64 * (c - 1) + 8 * (d - 1) + (e - 1) = b
<1> DEFINE w == <<64, 8, 1>>
           r == DigitsOf(b, 8, w)
           c == ((b \div 64) % 8) + 1
           d == ((b \div 8) % 8) + 1
           e == (b % 8) + 1
<1>1. c \in 1..8 /\ d \in 1..8 /\ e \in 1..8 /\ b \div 1 = b
  OBVIOUS
<1>2. 64 * (c - 1) + 8 * (d - 1) + (e - 1) = b
  OBVIOUS
<1>3. DOMAIN w = 1..3 /\ w[1] = 64 /\ w[2] = 8 /\ w[3] = 1
  OBVIOUS
<1>4. r = [k \in DOMAIN w |-> Digits[((b \div w[k]) % 8) + 1]]
  <2> HIDE DEF w
  <2>1. QED
    BY Zenon DEF DigitsOf
<1> HIDE DEF w
<1>5. r = [k \in 1..3 |-> Digits[((b \div w[k]) % 8) + 1]]
  BY <1>3, <1>4
<1> HIDE DEF r
<1>6. r[1] = Digits[((b \div w[1]) % 8) + 1] /\ r[2] = Digits[((b \div w[2]) % 8) + 1] /\ r[3] = Digits[((b \div w[3]) % 8) + 1]
  BY <1>5
<1>7. r[1] = Digits[c] /\ r[2] = Digits[d] /\ r[3] = Digits[e]
  BY <1>1, <1>3, <1>6
<1> HIDE DEF c, d, e
<1>8. \A k \in 1..3 : r[k] \in STRING
  <2>1. \A k \in 1..3 : k = 1 \/ k = 2 \/ k = 3
    OBVIOUS
  <2>2. \A k \in 1..8 : k \in 1..16
    OBVIOUS
  <2>3. r[1] \in STRING /\ r[2] \in STRING /\ r[3] \in STRING
    BY <1>1, <1>7, <2>2, DigitsDiffer, Zenon
  <2>4. QED
    BY <2>1, <2>3
<1>9. r \in [1..3 -> STRING]
  <2>1. r = [k \in 1..3 |-> r[k]]
    BY <1>5
  <2>2. QED
    BY <1>8, <2>1
<1>10. r \in Seq(STRING) /\ Len(r) = 3
  <2>1. 3 \in Nat
    OBVIOUS
  <2>2. r \in Seq(STRING)
    BY <1>9, <2>1, ListIsSeq
  <2>3. QED
    BY <1>9, <2>2, LenProperties
<1>11. QED
  BY <1>1, <1>2, <1>7, <1>10 DEF r, w

(* The text of one byte in the escape format. *)
Escaped(b) ==
  CASE b = Code[Backslash] -> <<Backslash, Backslash>>
    [] b # Code[Backslash] /\ b \notin 32..126 -> <<Backslash>> \o DigitsOf(b, 8, <<64, 8, 1>>)
    [] OTHER -> <<CharOf(b)>>

LEMMA ByteEscaped ==
  ASSUME NEW b \in Bytes
  PROVE  Escaped(b) \in Seq(STRING) /\ EscapedAs(Escaped(b), b)
<1>1. b \in 0..255 /\ (b \in 32..126 => \E c \in DOMAIN Code : Code[c] = b)
  BY Zenon DEF Bytes
<1>2. CASE b = Code[Backslash]
  <2>1. Escaped(b) = <<Backslash, Backslash>>
    BY <1>2, Zenon DEF Escaped
  <2>2. /\ <<Backslash, Backslash>> \in Seq(STRING) /\ Len(<<Backslash, Backslash>>) = 2
        /\ <<Backslash, Backslash>>[1] = Backslash /\ <<Backslash, Backslash>>[2] = Backslash
    BY SpecialsAreStrings, TwoPlaces, Zenon
  <2>3. QED
    BY <1>2, <2>1, <2>2, Zenon DEF EscapedAs
<1>3. CASE b # Code[Backslash] /\ b \notin 32..126
  <2> DEFINE r == DigitsOf(b, 8, <<64, 8, 1>>)
             w == <<Backslash>> \o r
  <2>1. Escaped(b) = w
    BY <1>3, Zenon DEF Escaped
  <2>2. /\ r \in Seq(STRING) /\ Len(r) = 3
        /\ \E c, d, e \in 1..8 : /\ r[1] = Digits[c] /\ r[2] = Digits[d] /\ r[3] = Digits[e]
                                 /\ 64 * (c - 1) + 8 * (d - 1) + (e - 1) = b
    BY <1>1, OctalDigits
  <2> HIDE DEF r
  <2>3. PICK p \in Seq(STRING) : p = <<Backslash>> /\ Len(p) = 1 /\ p[1] = Backslash
    <3>1. \A c : Len(<<c>>) = 1 /\ <<c>>[1] = c
      OBVIOUS
    <3>2. QED
      BY <3>1, SpecialsAreStrings, OneIsSeq, Zenon
  <2>4. w = p \o r
    BY <2>3
  <2> HIDE DEF w
  <2>5. /\ w \in Seq(STRING) /\ Len(w) = Len(p) + Len(r)
        /\ \A m \in 1..Len(p) : w[m] = p[m]
        /\ \A m \in 1..Len(r) : w[Len(p) + m] = r[m]
    <3>1. r \in Seq(STRING)
      BY <2>2
    <3>2. /\ p \o r \in Seq(STRING) /\ Len(p \o r) = Len(p) + Len(r)
          /\ \A m \in 1..Len(p) : (p \o r)[m] = p[m]
          /\ \A m \in 1..Len(r) : (p \o r)[Len(p) + m] = r[m]
      BY <3>1, JoinedPlaces
    <3>3. QED
      BY <2>4, <3>2, Zenon
  <2>6. Len(w) = 4 /\ w[1] = Backslash /\ w[2] = r[1] /\ w[3] = r[2] /\ w[4] = r[3]
    <3>1. 1 \in 1..1 /\ 1 \in 1..3 /\ 2 \in 1..3 /\ 3 \in 1..3 /\ 1 + 1 = 2 /\ 1 + 2 = 3 /\ 1 + 3 = 4
      OBVIOUS
    <3>2. QED
      BY <2>2, <2>3, <2>5, <3>1
  <2>7. PICK c \in 1..8, d \in 1..8, e \in 1..8 :
          /\ r[1] = Digits[c] /\ r[2] = Digits[d] /\ r[3] = Digits[e]
          /\ 64 * (c - 1) + 8 * (d - 1) + (e - 1) = b
    BY <2>2
  <2>8. w[2] = Digits[c] /\ w[3] = Digits[d] /\ w[4] = Digits[e]
    BY <2>6, <2>7
  <2>9. EscapedAs(w, b)
    BY <2>6, <2>7, <2>8, Zenon DEF EscapedAs
  <2>10. QED
    BY <2>1, <2>5, <2>9, Zenon
<1>4. CASE b # Code[Backslash] /\ b \in 32..126
  <2> DEFINE c == CharOf(b)
  <2>1. c \in DOMAIN Code /\ Code[c] = b
    BY <1>1, <1>4, Zenon DEF CharOf
  <2>2. Escaped(b) = <<c>>
    BY <1>4, Zenon DEF Escaped
  <2> HIDE DEF c
  <2>3. c # Backslash
    BY <1>4, <2>1
  <2>4. c \in STRING
    BY <2>1, TextAssumption, Zenon
  <2>5. <<c>> \in Seq(STRING) /\ Len(<<c>>) = 1 /\ <<c>>[1] = c
    <3>1. \A y : Len(<<y>>) = 1 /\ <<y>>[1] = y
      OBVIOUS
    <3>2. QED
      BY <2>4, <3>1, OneIsSeq, Zenon
  <2>6. QED
    BY <2>1, <2>2, <2>3, <2>5, Zenon DEF EscapedAs
<1>5. QED
  BY <1>2, <1>3, <1>4

(* What ParseEscaped makes of the bytes it reads from position k on, from  *)
(* what it makes of the later ones.                                        *)
Then(b, rest) == IF rest.ok THEN Ok(<<b>> \o rest.value) ELSE Failed

Octal(s, k) == 64 * DigitValue(s[k + 1]) + 8 * DigitValue(s[k + 2]) + DigitValue(s[k + 3])

ReadFrom(s, k, g) ==
  CASE k > Len(s) -> Ok(<<>>)
    [] k <= Len(s) /\ s[k] # Backslash -> Then(Code[s[k]], g[k + 1])
    [] k < Len(s) /\ s[k] = Backslash /\ s[k + 1] = Backslash -> Then(Code[Backslash], g[k + 2])
    [] OTHER ->
         IF k + 3 <= Len(s) /\ (\A m \in 1..3 : IsDigit(s[k + m], 8)) /\ Octal(s, k) < 256
         THEN Then(Octal(s, k), g[k + 4])
         ELSE Failed

ReadsOn(s, g) == g = [k \in 1..(Len(s) + 1) |-> ReadFrom(s, k, g)]

LEMMA ReadAgrees ==
  ASSUME NEW s, Len(s) \in Nat, NEW k \in 1..(Len(s) + 1), NEW g, NEW h,
         \A j \in 1..(Len(s) + 1) : j > k => g[j] = h[j]
  PROVE  ReadFrom(s, k, g) = ReadFrom(s, k, h)
<1>1. CASE k > Len(s)
  <2>1. ~(k <= Len(s)) /\ ~(k < Len(s))
    BY <1>1
  <2>2. QED
    BY <1>1, <2>1, Zenon DEF ReadFrom
<1>2. CASE k <= Len(s) /\ s[k] # Backslash
  <2>1. ~(k > Len(s))
    BY <1>2
  <2>2. g[k + 1] = h[k + 1]
    BY <1>2
  <2>3. QED
    BY <1>2, <2>1, <2>2, Zenon DEF ReadFrom
<1>3. CASE k < Len(s) /\ s[k] = Backslash /\ s[k + 1] = Backslash
  <2>1. ~(k > Len(s))
    BY <1>3
  <2>2. g[k + 2] = h[k + 2]
    BY <1>3
  <2>3. QED
    BY <1>3, <2>1, <2>2, Zenon DEF ReadFrom
<1>4. CASE k <= Len(s) /\ s[k] = Backslash /\ ~(k < Len(s) /\ s[k + 1] = Backslash)
  <2>1. ~(k > Len(s))
    BY <1>4
  <2>2. CASE k + 3 <= Len(s)
    <3>1. g[k + 4] = h[k + 4]
      BY <2>2
    <3>2. QED
      BY <1>4, <2>1, <2>2, <3>1, Zenon DEF ReadFrom
  <2>3. CASE ~(k + 3 <= Len(s))
    BY <1>4, <2>1, <2>3, Zenon DEF ReadFrom
  <2>4. QED
    BY <2>2, <2>3
<1>5. QED
  <2>1. k > Len(s) \/ k <= Len(s)
    OBVIOUS
  <2>2. QED
    BY <1>1, <1>2, <1>3, <1>4, <2>1, Zenon

LEMMA ReadingExists ==
  ASSUME NEW s, Len(s) \in Nat
  PROVE  \E g : ReadsOn(s, g)
<1> DEFINE D == 1..(Len(s) + 1)
           B == {Code[c] : c \in {s[k] : k \in D} \cup {Backslash}} \cup {Octal(s, k) : k \in D}
           C == [ok : BOOLEAN, value : Seq(B)]
           rank == [k \in D |-> Len(s) + 1 - k]
           step == [p \in D \X [D -> C] |-> ReadFrom(s, p[1], p[2])]
<1>1. Failed \in C /\ Ok(<<>>) \in C
  BY DEF Failed, Ok
<1>2. ASSUME NEW b \in B, NEW rest \in C PROVE Then(b, rest) \in C
  <2> HIDE DEF B
  <2>1. <<b>> \o rest.value \in Seq(B)
    BY OneIsSeq, JoinedPlaces
  <2>2. Ok(<<b>> \o rest.value) \in C
    BY <2>1 DEF Ok
  <2>3. QED
    BY <1>1, <2>2 DEF Then
<1>3. ASSUME NEW k \in D, NEW g \in [D -> C] PROVE ReadFrom(s, k, g) \in C
  <2>1. Octal(s, k) \in B /\ Code[Backslash] \in B /\ Code[s[k]] \in B
    BY Zenon
  <2> HIDE DEF B, C
  <2>2. CASE k > Len(s)
    <3>1. ~(k <= Len(s)) /\ ~(k < Len(s))
      BY <2>2
    <3>2. QED
      BY <1>1, <2>2, <3>1, Zenon DEF ReadFrom
  <2>3. CASE k <= Len(s) /\ s[k] # Backslash
    <3>1. ~(k > Len(s)) /\ g[k + 1] \in C
      BY <2>3
    <3>2. ReadFrom(s, k, g) = Then(Code[s[k]], g[k + 1])
      BY <2>3, <3>1, Zenon DEF ReadFrom
    <3>3. QED
      BY <1>2, <2>1, <3>1, <3>2
  <2>4. CASE k < Len(s) /\ s[k] = Backslash /\ s[k + 1] = Backslash
    <3>1. ~(k > Len(s)) /\ g[k + 2] \in C
      BY <2>4
    <3>2. ReadFrom(s, k, g) = Then(Code[Backslash], g[k + 2])
      BY <2>4, <3>1, Zenon DEF ReadFrom
    <3>3. QED
      BY <1>2, <2>1, <3>1, <3>2
  <2>5. CASE k <= Len(s) /\ s[k] = Backslash /\ ~(k < Len(s) /\ s[k + 1] = Backslash)
    <3>1. ~(k > Len(s)) /\ (k + 3 <= Len(s) => g[k + 4] \in C)
      BY <2>5
    <3>2. \/ ReadFrom(s, k, g) = Failed
          \/ k + 3 <= Len(s) /\ ReadFrom(s, k, g) = Then(Octal(s, k), g[k + 4])
      BY <2>5, <3>1, Zenon DEF ReadFrom
    <3>3. QED
      BY <1>1, <1>2, <2>1, <3>1, <3>2
  <2>6. QED
    <3>1. k > Len(s) \/ k <= Len(s)
      OBVIOUS
    <3>2. QED
      BY <2>2, <2>3, <2>4, <2>5, <3>1, Zenon
<1>4. step \in [D \X [D -> C] -> C]
  <2> HIDE DEF D, C
  <2>1. \A p \in D \X [D -> C] : ReadFrom(s, p[1], p[2]) \in C
    BY <1>3
  <2>2. QED
    BY <2>1
<1>5. C # {} /\ rank \in [D -> Nat] /\ \A k \in D : rank[k] = Len(s) + 1 - k
  <2>1. C # {}
    <3> HIDE DEF C
    <3>1. QED
      BY <1>1
  <2>2. \A k \in D : Len(s) + 1 - k \in Nat
    OBVIOUS
  <2>3. QED
    BY <2>1, <2>2
<1>6. ASSUME NEW k \in D, NEW g \in [D -> C] PROVE step[<<k, g>>] = ReadFrom(s, k, g)
  <2> HIDE DEF D, C
  <2>1. QED
    BY <1>6
<1>7. ASSUME NEW k \in D, NEW g \in [D -> C], NEW h \in [D -> C],
             \A j \in D : rank[j] < rank[k] => g[j] = h[j]
      PROVE  step[<<k, g>>] = step[<<k, h>>]
  <2>1. \A j \in D : j > k => rank[j] < rank[k]
    <3> HIDE DEF rank
    <3>1. QED
      BY <1>5
  <2>2. \A j \in 1..(Len(s) + 1) : j > k => g[j] = h[j]
    <3> HIDE DEF rank
    <3>1. QED
      BY <1>7, <2>1
  <2>3. ReadFrom(s, k, g) = ReadFrom(s, k, h)
    BY <2>2, ReadAgrees
  <2>4. QED
    <3> HIDE DEF D, C, step
    <3>1. QED
      BY <1>6, <2>3
<1> HIDE DEF D, C, rank, step
<1>8. Descends(D, C, rank, step)
  BY <1>4, <1>5, <1>7 DEF Descends
<1>9. PICK g \in [D -> C] : \A k \in D : g[k] = step[<<k, g>>]
  BY <1>8, RecursionExists
<1>10. g = [k \in D |-> ReadFrom(s, k, g)]
  BY <1>6, <1>9
<1>11. QED
  BY <1>10 DEF ReadsOn, D

(* ParseEscaped reads from the first position on. *)
LEMMA EscapedFrom ==
  ASSUME NEW s, Len(s) \in Nat
  PROVE  \E g : /\ ParseEscaped(s) = g[1]
                /\ \A k \in 1..(Len(s) + 1) : g[k] = ReadFrom(s, k, g)
<1> DEFINE g == CHOOSE g : g = [k \in 1..(Len(s) + 1) |-> ReadFrom(s, k, g)]
<1>1. ReadsOn(s, g)
  BY ReadingExists, Zenon DEF ReadsOn
<1>2. ParseEscaped(s) = g[1]
  BY Zenon DEF ParseEscaped, ReadFrom, Then, Octal
<1> HIDE DEF g
<1>3. \A k \in 1..(Len(s) + 1) : g[k] = ReadFrom(s, k, g)
  BY <1>1 DEF ReadsOn
<1>4. QED
  BY <1>2, <1>3

(* One byte is read where its text stands. *)
(* The character or the escape q of byte b stands in s at k.               *)
ByteStandsAt(s, k, q, b) ==
  /\ Len(s) \in Nat /\ k \in 1..Len(s) /\ b \in 0..255 /\ k + Len(q) <= Len(s) + 1
  /\ EscapedAs(q, b) /\ StandsAt(s, k, q)

LEMMA ByteRead ==
  ASSUME NEW s, NEW k, NEW q, NEW b, ByteStandsAt(s, k, q, b), NEW g
  PROVE  ReadFrom(s, k, g) = Then(b, g[k + Len(q)])
<1> SUFFICES ASSUME Len(s) \in Nat, k \in 1..Len(s), b \in 0..255, k + Len(q) <= Len(s) + 1,
                    EscapedAs(q, b), StandsAt(s, k, q)
             PROVE  ReadFrom(s, k, g) = Then(b, g[k + Len(q)])
  BY Zenon DEF ByteStandsAt
<1>1. \A m \in 1..Len(q) : s[k + m - 1] = q[m]
  BY DEF StandsAt
<1>2. ~(k > Len(s)) /\ k <= Len(s)
  OBVIOUS
<1>3. CASE Len(q) = 1 /\ q[1] # Backslash /\ Code[q[1]] = b
  <2>1. s[k] = q[1]
    <3>1. 1 \in 1..Len(q) /\ k + 1 - 1 = k
      BY <1>3
    <3>2. QED
      BY <1>1, <3>1
  <2>2. s[k] # Backslash /\ Code[s[k]] = b
    BY <1>3, <2>1
  <2>3. ReadFrom(s, k, g) = Then(Code[s[k]], g[k + 1])
    BY <1>2, <2>2, Zenon DEF ReadFrom
  <2>4. QED
    BY <1>3, <2>2, <2>3
<1>4. CASE Len(q) = 2 /\ q[1] = Backslash /\ q[2] = Backslash /\ b = Code[Backslash]
  <2>1. s[k] = Backslash /\ s[k + 1] = Backslash /\ k < Len(s)
    <3>1. 1 \in 1..Len(q) /\ 2 \in 1..Len(q) /\ k + 1 - 1 = k /\ k + 2 - 1 = k + 1 /\ k < Len(s)
      BY <1>4
    <3>2. QED
      BY <1>1, <1>4, <3>1
  <2>2. ReadFrom(s, k, g) = Then(Code[Backslash], g[k + 2])
    BY <1>2, <2>1, Zenon DEF ReadFrom
  <2>3. QED
    BY <1>4, <2>2
<1>5. ASSUME Len(q) = 4, q[1] = Backslash, NEW c \in 1..8, NEW d \in 1..8, NEW e \in 1..8,
             q[2] = Digits[c], q[3] = Digits[d], q[4] = Digits[e],
             64 * (c - 1) + 8 * (d - 1) + (e - 1) = b
      PROVE  ReadFrom(s, k, g) = Then(b, g[k + Len(q)])
  <2>1. s[k] = Backslash /\ s[k + 1] = Digits[c] /\ s[k + 2] = Digits[d] /\ s[k + 3] = Digits[e]
    <3>1. /\ 1 \in 1..Len(q) /\ 2 \in 1..Len(q) /\ 3 \in 1..Len(q) /\ 4 \in 1..Len(q)
          /\ k + 1 - 1 = k /\ k + 2 - 1 = k + 1 /\ k + 3 - 1 = k + 2 /\ k + 4 - 1 = k + 3
      BY <1>5
    <3>2. QED
      BY <1>1, <1>5, <3>1
  <2>2. /\ c \in 1..16 /\ d \in 1..16 /\ e \in 1..16 /\ 8 \in Nat /\ c <= 8 /\ d <= 8 /\ e <= 8
        /\ k + 3 <= Len(s)
    BY <1>5
  <2>3. s[k + 1] # Backslash
    BY <2>1, <2>2, DigitsDiffer, Zenon
  <2>4. \A m \in 1..3 : IsDigit(s[k + m], 8)
    <3>1. IsDigit(s[k + 1], 8) /\ IsDigit(s[k + 2], 8) /\ IsDigit(s[k + 3], 8)
      BY <2>1, <2>2, DigitRead, Zenon
    <3>2. \A m \in 1..3 : m = 1 \/ m = 2 \/ m = 3
      OBVIOUS
    <3>3. QED
      BY <3>1, <3>2
  <2>5. Octal(s, k) = b
    <3>1. DigitValue(s[k + 1]) = c - 1 /\ DigitValue(s[k + 2]) = d - 1 /\ DigitValue(s[k + 3]) = e - 1
      BY <2>1, <2>2, DigitRead, Zenon
    <3>2. QED
      BY <1>5, <3>1 DEF Octal
  <2>6. Octal(s, k) < 256
    BY <2>5
  <2>7. ReadFrom(s, k, g) = Then(Octal(s, k), g[k + 4])
    BY <1>2, <2>1, <2>2, <2>3, <2>4, <2>6, Zenon DEF ReadFrom
  <2>8. QED
    BY <1>5, <2>5, <2>7
<1>6. QED
  BY <1>3, <1>4, <1>5, Zenon DEF EscapedAs

LEMMA ListLength ==
  ASSUME NEW C, NEW n \in Nat, NEW f \in [1..n -> C]
  PROVE  f \in Seq(C) /\ Len(f) = n
OBVIOUS

(* The elements of v from the j-th on. *)
TailOf(v, j) == [m \in 1..(Len(v) - j + 1) |-> v[j + m - 1]]

LEMMA TailGrows ==
  ASSUME NEW A, NEW v \in Seq(A), NEW j \in 1..Len(v)
  PROVE  <<v[j]>> \o TailOf(v, j + 1) = TailOf(v, j)
<1>1. Len(v) \in Nat /\ \A k \in 1..Len(v) : v[k] \in A
  BY LenProperties, ElementOfSeq
<1> DEFINE n == Len(v)
           t == TailOf(v, j + 1)
           u == TailOf(v, j)
           w == <<v[j]>> \o t
<1>2. t \in Seq(A) /\ Len(t) = n - j /\ \A m \in 1..(n - j) : t[m] = v[j + m]
  <2>1. n - (j + 1) + 1 = n - j /\ n - j \in Nat
    BY <1>1
  <2>2. \A m \in 1..(n - j) : (j + 1) + m - 1 = j + m /\ j + m \in 1..n
    BY <1>1
  <2>3. t = [m \in 1..(n - j) |-> v[(j + 1) + m - 1]]
    BY <2>1 DEF TailOf
  <2> HIDE DEF t
  <2>4. t \in [1..(n - j) -> A] /\ \A m \in 1..(n - j) : t[m] = v[j + m]
    BY <1>1, <2>2, <2>3
  <2>5. t \in Seq(A) /\ Len(t) = n - j
    BY <2>1, <2>4, ListLength
  <2>6. QED
    BY <2>4, <2>5
<1>3. u \in Seq(A) /\ Len(u) = n - j + 1 /\ \A m \in 1..(n - j + 1) : u[m] = v[j + m - 1]
  <2>1. n - j + 1 \in Nat /\ \A m \in 1..(n - j + 1) : j + m - 1 \in 1..n
    BY <1>1
  <2>2. u = [m \in 1..(n - j + 1) |-> v[j + m - 1]]
    BY DEF TailOf
  <2> HIDE DEF u
  <2>3. u \in [1..(n - j + 1) -> A] /\ \A m \in 1..(n - j + 1) : u[m] = v[j + m - 1]
    <3>1. \A m \in 1..(n - j + 1) : v[j + m - 1] \in A
      BY <1>1, <2>1
    <3>2. PICK l \in Nat : l = n - j + 1
      BY <2>1
    <3>3. /\ [m \in 1..l |-> v[j + m - 1]] \in [1..l -> A]
          /\ \A m \in 1..l : [o \in 1..l |-> v[j + o - 1]][m] = v[j + m - 1]
      BY <3>1, <3>2
    <3>4. QED
      BY <2>2, <3>2, <3>3, Zenon
  <2>4. u \in Seq(A) /\ Len(u) = n - j + 1
    <3>1. PICK l \in Nat : l = n - j + 1
      BY <2>1
    <3>2. u \in [1..l -> A]
      BY <2>3, <3>1, Zenon
    <3>3. QED
      BY <3>1, <3>2, ListLength
  <2>5. QED
    BY <2>3, <2>4
<1> HIDE DEF t, u
<1>4. PICK p \in Seq(A) : p = <<v[j]>> /\ Len(p) = 1 /\ p[1] = v[j]
  <2>1. \A c : Len(<<c>>) = 1 /\ <<c>>[1] = c
    OBVIOUS
  <2>2. QED
    BY <1>1, <2>1, OneIsSeq, Zenon
<1>5. w = p \o t
  BY <1>4
<1> HIDE DEF w
<1>6. /\ w \in Seq(A) /\ Len(w) = Len(p) + Len(t)
      /\ \A m \in 1..Len(p) : w[m] = p[m]
      /\ \A m \in 1..Len(t) : w[Len(p) + m] = t[m]
  BY <1>2, <1>4, <1>5, JoinedPlaces
<1>7. Len(w) = Len(u)
  BY <1>1, <1>2, <1>3, <1>4, <1>6
<1>8. ASSUME NEW m \in 1..Len(u) PROVE w[m] = u[m]
  <2>1. CASE m = 1
    <3>1. 1 \in 1..Len(p) /\ 1 \in 1..(n - j + 1) /\ j + 1 - 1 = j
      BY <1>1, <1>4
    <3>2. w[1] = v[j] /\ u[1] = v[j]
      BY <1>3, <1>4, <1>6, <3>1
    <3>3. QED
      BY <2>1, <3>2
  <2>2. CASE m # 1
    <3>1. /\ m - 1 \in 1..(n - j) /\ 1 + (m - 1) = m /\ j + (m - 1) = j + m - 1
          /\ m \in 1..(n - j + 1)
      BY <1>1, <1>3, <2>2
    <3>2. w[m] = t[m - 1] /\ t[m - 1] = v[j + (m - 1)]
      BY <1>2, <1>4, <1>6, <3>1
    <3>3. QED
      BY <1>3, <3>1, <3>2
  <2>3. QED
    BY <2>1, <2>2
<1>9. w = u
  BY <1>3, <1>6, <1>7, <1>8, SeqEqual
<1>10. QED
  BY <1>9 DEF w, u, t

(* The escape format of v, with the position its bytes are written at. *)
EscapeFormat(v) == FlattenSeq([k \in DOMAIN v |-> Escaped(v[k])])

LEMMA EscapePlaces ==
  ASSUME NEW v \in Seq(Bytes)
  PROVE  LET s == EscapeFormat(v) IN
         /\ s \in Seq(STRING)
         /\ \E at \in [1..(Len(v) + 1) -> 1..(Len(s) + 1)] :
              /\ at[1] = 1 /\ at[Len(v) + 1] = Len(s) + 1
              /\ \A k \in 1..Len(v) :
                   \E q : /\ EscapedAs(q, v[k]) /\ Len(q) \in Nat /\ at[k + 1] = at[k] + Len(q)
                          /\ StandsAt(s, at[k], q)
<1> DEFINE pieces == [k \in DOMAIN v |-> Escaped(v[k])]
           s == FlattenSeq(pieces)
<1>1. DOMAIN v = 1..Len(v) /\ Len(v) \in Nat /\ \A k \in 1..Len(v) : v[k] \in Bytes
  <2>1. DOMAIN v = 1..Len(v) /\ Len(v) \in Nat
    BY LenProperties
  <2>2. QED
    BY <2>1, ElementOfSeq, Zenon
<1>2. pieces = [k \in 1..Len(v) |-> Escaped(v[k])]
  BY <1>1
<1>3. \A k \in 1..Len(v) : Escaped(v[k]) \in Seq(STRING) /\ EscapedAs(Escaped(v[k]), v[k])
  BY <1>1, ByteEscaped
<1>4. EscapeFormat(v) = s
  BY Zenon DEF EscapeFormat
<1> HIDE DEF pieces
<1>5. pieces \in [1..Len(v) -> Seq(STRING)] /\ \A k \in 1..Len(v) : pieces[k] = Escaped(v[k])
  BY <1>2, <1>3
<1>6. pieces \in Seq(Seq(STRING)) /\ Len(pieces) = Len(v)
  BY <1>1, <1>5, ListLength
<1>7. s \in Seq(STRING) /\ \E at : Placed(s, pieces, at)
  BY <1>6, FlattenPlaces
<1>8. PICK at : Placed(s, pieces, at)
  BY <1>7
<1> HIDE DEF s
<1>9. /\ at \in [1..(Len(v) + 1) -> 1..(Len(s) + 1)] /\ at[1] = 1 /\ at[Len(v) + 1] = Len(s) + 1
      /\ \A k \in 1..Len(v) : /\ at[k + 1] = at[k] + Len(pieces[k])
                              /\ \A m \in 1..Len(pieces[k]) : s[at[k] + m - 1] = pieces[k][m]
  BY <1>6, <1>8 DEF Placed
<1>10. ASSUME NEW k \in 1..Len(v)
       PROVE  /\ EscapedAs(pieces[k], v[k]) /\ Len(pieces[k]) \in Nat
              /\ at[k + 1] = at[k] + Len(pieces[k]) /\ StandsAt(s, at[k], pieces[k])
  <2>1. EscapedAs(pieces[k], v[k]) /\ pieces[k] \in Seq(STRING)
    BY <1>3, <1>5
  <2>2. QED
    BY <1>9, <2>1, LenProperties DEF StandsAt
<1>11. QED
  BY <1>4, <1>7, <1>9, <1>10, Zenon

(* The escape format is read back as the bytes it was written for. *)
LEMMA EscapedParsed ==
  ASSUME NEW v \in Seq(Bytes)
  PROVE  ParseEscaped(EscapeFormat(v)) = Ok(v)
<1> DEFINE s == EscapeFormat(v)
           n == Len(v)
<1>1. n \in Nat /\ \A k \in 1..n : v[k] \in 0..255
  <2>1. n \in Nat /\ \A k \in 1..n : v[k] \in Bytes
    BY LenProperties, ElementOfSeq
  <2>2. \A b \in Bytes : b \in 0..255
    BY Zenon DEF Bytes
  <2>3. QED
    BY <2>1, <2>2
<1>2. s \in Seq(STRING) /\ Len(s) \in Nat
  BY EscapePlaces, LenProperties
<1>3. PICK at \in [1..(n + 1) -> 1..(Len(s) + 1)] :
        /\ at[1] = 1 /\ at[n + 1] = Len(s) + 1
        /\ \A k \in 1..n :
             \E q : /\ EscapedAs(q, v[k]) /\ Len(q) \in Nat /\ at[k + 1] = at[k] + Len(q)
                    /\ StandsAt(s, at[k], q)
  BY EscapePlaces, Zenon
<1> HIDE DEF s
<1>4. PICK g : /\ ParseEscaped(s) = g[1]
               /\ \A k \in 1..(Len(s) + 1) : g[k] = ReadFrom(s, k, g)
  BY <1>2, EscapedFrom
<1> DEFINE Read(j) == g[at[j]] = Ok(TailOf(v, j))
           Left == {j \in 0..n : ~Read(n + 1 - j)}
<1>5. Read(n + 1)
  <2>1. at[n + 1] = Len(s) + 1 /\ Len(s) + 1 \in 1..(Len(s) + 1) /\ Len(s) + 1 > Len(s)
        /\ ~(Len(s) + 1 <= Len(s)) /\ ~(Len(s) + 1 < Len(s))
    BY <1>2, <1>3
  <2>2. g[Len(s) + 1] = Ok(<<>>)
    <3>1. g[Len(s) + 1] = ReadFrom(s, Len(s) + 1, g)
      BY <1>4, <2>1
    <3>2. ReadFrom(s, Len(s) + 1, g) = Ok(<<>>)
      BY <2>1, Zenon DEF ReadFrom
    <3>3. QED
      BY <3>1, <3>2
  <2>3. TailOf(v, n + 1) = <<>>
    <3>1. n - (n + 1) + 1 = 0
      BY <1>1
    <3>2. TailOf(v, n + 1) = [m \in 1..0 |-> v[(n + 1) + m - 1]]
      BY <3>1 DEF TailOf
    <3> HIDE DEF n
    <3>3. 1..0 = {}
      OBVIOUS
    <3>4. TailOf(v, n + 1) = <<>>
      BY <3>2
    <3>5. QED
      BY <3>4
  <2>4. QED
    BY <2>1, <2>2, <2>3
<1>6. ASSUME NEW j \in 1..n, Read(j + 1) PROVE Read(j)
  <2> HIDE DEF Read, Left
  <2>1. PICK q : /\ EscapedAs(q, v[j]) /\ Len(q) \in Nat /\ at[j + 1] = at[j] + Len(q)
                 /\ StandsAt(s, at[j], q)
    BY <1>3, Zenon
  <2>2. Len(q) > 0
    <3>1. Len(q) \in {1, 2, 4}
      BY <2>1, Zenon DEF EscapedAs
    <3>2. \A l \in {1, 2, 4} : l > 0
      OBVIOUS
    <3>3. QED
      BY <3>1, <3>2, Zenon
  <2>3. at[j] \in 1..(Len(s) + 1) /\ at[j + 1] \in 1..(Len(s) + 1)
    <3>1. j \in 1..(n + 1) /\ j + 1 \in 1..(n + 1)
      BY <1>1
    <3>2. QED
      BY <1>3, <3>1, Zenon
  <2>4. PICK k \in 1..Len(s) : k = at[j] /\ k + Len(q) <= Len(s) + 1
    BY <1>2, <2>1, <2>2, <2>3
  <2>5. ReadFrom(s, k, g) = Then(v[j], g[k + Len(q)])
    <3>1. v[j] \in 0..255 /\ StandsAt(s, k, q) /\ EscapedAs(q, v[j])
      BY <1>1, <2>1, <2>4
    <3>2. QED
      <4>1. Len(s) \in Nat /\ k \in 1..Len(s) /\ k + Len(q) <= Len(s) + 1
        BY <1>2, <2>4
      <4>2. ByteStandsAt(s, k, q, v[j])
        BY <3>1, <4>1, Zenon DEF ByteStandsAt
      <4>3. QED
        BY <4>2, ByteRead
  <2>6. g[k] = Then(v[j], Ok(TailOf(v, j + 1)))
    <3>1. k \in 1..(Len(s) + 1)
      BY <1>2, <2>4
    <3>2. g[k + Len(q)] = Ok(TailOf(v, j + 1))
      BY <1>6, <2>1, <2>4 DEF Read
    <3>3. QED
      BY <1>4, <2>5, <3>1, <3>2
  <2>7. Then(v[j], Ok(TailOf(v, j + 1))) = Ok(<<v[j]>> \o TailOf(v, j + 1))
    BY DEF Then, Ok
  <2>8. <<v[j]>> \o TailOf(v, j + 1) = TailOf(v, j)
    BY TailGrows
  <2>9. QED
    BY <2>4, <2>6, <2>7, <2>8 DEF Read
<1>7. Left = {}
  <2> HIDE DEF Read
  <2> SUFFICES ASSUME Left # {} PROVE FALSE
    OBVIOUS
  <2>1. Left \subseteq Nat
    BY <1>1
  <2>2. PICK j \in Left : \A k \in Left : j <= k
    <3> HIDE DEF Left
    <3>1. QED
      BY <2>1, SmallestOf
  <2>3. j \in 0..n /\ ~Read(n + 1 - j)
    BY <2>2
  <2>4. j # 0
    <3>1. n + 1 - 0 = n + 1
      BY <1>1
    <3>2. QED
      BY <1>5, <2>3, <3>1
  <2>5. /\ j - 1 \in 0..n /\ ~(j <= j - 1) /\ n + 1 - j \in 1..n /\ n + 1 - (j - 1) = (n + 1 - j) + 1
    BY <1>1, <2>3, <2>4
  <2>6. Read(n + 1 - (j - 1))
    BY <2>2, <2>5
  <2>7. Read((n + 1 - j) + 1)
    BY <2>5, <2>6
  <2>8. QED
    BY <1>6, <2>3, <2>5, <2>7
<1>8. Read(1)
  <2> HIDE DEF Read
  <2>1. n \in 0..n /\ n + 1 - n = 1
    BY <1>1
  <2>2. Read(n + 1 - n)
    BY <1>7, <2>1
  <2>3. QED
    BY <2>1, <2>2
<1>9. TailOf(v, 1) = v
  <2>1. n - 1 + 1 = n /\ \A m \in 1..n : 1 + m - 1 = m
    BY <1>1
  <2>2. TailOf(v, 1) = [m \in 1..n |-> v[m]]
    BY <2>1 DEF TailOf
  <2>3. v = [m \in 1..n |-> v[m]]
    BY SeqDef, LenProperties
  <2>4. QED
    BY <2>2, <2>3
<1>10. QED
  BY <1>3, <1>4, <1>8, <1>9 DEF s

(* No byte of the escape format starts with the mark of the hex format. *)
LEMMA EscapeHasNoMark ==
  ASSUME NEW v \in Seq(Bytes)
  PROVE  ~IsPrefix(<<Backslash, "x">>, EscapeFormat(v))
<1> DEFINE s == EscapeFormat(v)
<1>1. "x" \in STRING /\ Backslash \in STRING
  BY LiteralAssumption, SpecialsAreStrings, Zenon
<1>2. PICK x \in STRING : x = "x"
  BY <1>1
<1>3. PICK p \in Seq(STRING) : p = <<Backslash, x>> /\ Len(p) = 2 /\ p[1] = Backslash /\ p[2] = x
  <2>1. /\ <<Backslash, x>> \in Seq(STRING) /\ Len(<<Backslash, x>>) = 2
        /\ <<Backslash, x>>[1] = Backslash /\ <<Backslash, x>>[2] = x
    BY <1>1, <1>2, TwoPlaces, Zenon
  <2>2. QED
    BY <2>1, Zenon
<1>4. x # Backslash /\ \A d \in 1..8 : Digits[d] # x
  <2>1. "x" # Backslash
    BY Zenon DEF Backslash
  <2>2. \A d \in 1..8 : d \in 1..16
    OBVIOUS
  <2>3. QED
    BY <1>2, <2>1, <2>2, DigitsDiffer, Zenon
<1>5. /\ s \in Seq(STRING)
      /\ \E at \in [1..(Len(v) + 1) -> 1..(Len(s) + 1)] :
           /\ at[1] = 1 /\ at[Len(v) + 1] = Len(s) + 1
           /\ \A k \in 1..Len(v) :
                \E q : /\ EscapedAs(q, v[k]) /\ Len(q) \in Nat /\ at[k + 1] = at[k] + Len(q)
                       /\ StandsAt(s, at[k], q)
  BY EscapePlaces, Zenon
<1> HIDE DEF s
<1>6. Len(s) \in Nat /\ Len(v) \in Nat
  BY <1>5, LenProperties
<1>7. ASSUME IsPrefix(p, s) PROVE Len(s) >= 2 /\ s[1] = Backslash /\ s[2] = x
  <2>1. Len(p) <= Len(s) /\ SubSeq(p, 1, Len(p)) = SubSeq(s, 1, Len(p))
    BY <1>7, Zenon DEF IsPrefix
  <2>2. SubSeq(p, 1, 2) = SubSeq(s, 1, 2) /\ 2 <= Len(s)
    BY <1>3, <2>1
  <2>3. ASSUME NEW z \in Seq(STRING), 2 <= Len(z)
        PROVE  SubSeq(z, 1, 2)[1] = z[1] /\ SubSeq(z, 1, 2)[2] = z[2]
    <3>1. \A k \in 1..2 : z[k] \in STRING
      BY <2>3, LenProperties, ElementOfSeq
    <3>2. \A m \in 1..(2 - 1 + 1) : SubSeq(z, 1, 2)[m] = z[1 + m - 1]
      BY <3>1, SubSeqProperties
    <3>3. QED
      BY <3>2
  <2>4. s[1] = p[1] /\ s[2] = p[2]
    <3>1. SubSeq(s, 1, 2)[1] = s[1] /\ SubSeq(s, 1, 2)[2] = s[2]
      BY <1>5, <2>2, <2>3
    <3>2. 2 <= Len(p)
      BY <1>3
    <3>3. SubSeq(p, 1, 2)[1] = p[1] /\ SubSeq(p, 1, 2)[2] = p[2]
      BY <1>3, <2>3, <3>2, Zenon
    <3>4. QED
      BY <2>2, <3>1, <3>3, Zenon
  <2>5. QED
    BY <1>3, <1>6, <2>2, <2>4
<1>8. ASSUME Len(s) >= 2, s[1] = Backslash, s[2] = x PROVE FALSE
  <2>1. PICK at \in [1..(Len(v) + 1) -> 1..(Len(s) + 1)] :
          /\ at[1] = 1 /\ at[Len(v) + 1] = Len(s) + 1
          /\ \A k \in 1..Len(v) :
               \E q : /\ EscapedAs(q, v[k]) /\ Len(q) \in Nat /\ at[k + 1] = at[k] + Len(q)
                      /\ StandsAt(s, at[k], q)
    BY <1>5, Zenon
  <2>2. Len(v) # 0
    <3>1. ASSUME Len(v) = 0 PROVE FALSE
      <4>1. at[0 + 1] = Len(s) + 1 /\ at[1] = 1 /\ 0 + 1 = 1
        BY <2>1, <3>1
      <4>2. QED
        BY <1>6, <1>8, <4>1
    <3>2. QED
      BY <3>1
  <2>3. 1 \in 1..Len(v)
    BY <1>6, <2>2
  <2>4. PICK q : EscapedAs(q, v[1]) /\ Len(q) \in Nat /\ StandsAt(s, 1, q)
    BY <2>1, <2>3, Zenon
  <2>5. \A m \in 1..Len(q) : s[1 + m - 1] = q[m]
    BY <2>4, Zenon DEF StandsAt
  <2>6. CASE Len(q) = 1 /\ q[1] # Backslash
    <3>1. 1 \in 1..Len(q) /\ 1 + 1 - 1 = 1
      BY <2>6
    <3>2. s[1] = q[1]
      BY <2>5, <3>1
    <3>3. QED
      BY <1>8, <2>6, <3>2
  <2>7. ASSUME Len(q) \in {2, 4}, q[2] # x PROVE FALSE
    <3>1. \A l \in {2, 4} : 2 \in 1..l
      OBVIOUS
    <3>2. 1 + 2 - 1 = 2
      OBVIOUS
    <3>3. 2 \in 1..Len(q)
      BY <2>7, <3>1, Zenon
    <3>4. s[1 + 2 - 1] = q[2]
      BY <2>5, <3>3, Zenon
    <3>5. s[2] = q[2]
      BY <3>2, <3>4, Zenon
    <3>6. QED
      BY <1>8, <2>7, <3>5, Zenon
  <2>8. \/ Len(q) = 1 /\ q[1] # Backslash
        \/ Len(q) \in {2, 4} /\ q[2] # x
    BY <1>4, <2>4, Zenon DEF EscapedAs
  <2>9. QED
    BY <2>6, <2>7, <2>8
<1>9. ~IsPrefix(p, s)
  BY <1>7, <1>8
<1>10. QED
  BY <1>2, <1>3, <1>9, Zenon DEF s

(* Bytes are read back from either format. *)
LEMMA ByteaParsed ==
  ASSUME NEW v \in Seq(Bytes), NEW serverVersion
  PROVE  ParseBytea(EncodeBytea(serverVersion, v)) = Ok(v)
<1>1. v \in Seq(0..255)
  <2>1. Len(v) \in Nat /\ \A k \in 1..Len(v) : v[k] \in Bytes
    BY LenProperties, ElementOfSeq
  <2>2. \A b \in Bytes : b \in 0..255
    BY Zenon DEF Bytes
  <2>3. QED
    BY <2>1, <2>2
<1> DEFINE modern == serverVersion >= 90000
           Escape(b) == CASE b = Code[Backslash] -> <<Backslash, Backslash>>
                          [] b # Code[Backslash] /\ b \notin 32..126 ->
                               <<Backslash>> \o DigitsOf(b, 8, <<64, 8, 1>>)
                          [] OTHER -> <<CharOf(b)>>
           escaped == [k \in DOMAIN v |-> Escape(v[k])]
           hex == <<Backslash, "x">> \o Hex(v)
<1>2. EncodeBytea(serverVersion, v) = IF modern THEN <<Backslash, "x">> \o Hex(v) ELSE EscapeFormat(v)
  <2>1. EncodeBytea(serverVersion, v) = IF modern THEN hex ELSE FlattenSeq(escaped)
    BY SMT DEF EncodeBytea
  <2>2. escaped = [k \in DOMAIN v |-> Escaped(v[k])]
    BY SMT DEF Escaped
  <2> HIDE DEF escaped, Escape, modern
  <2>3. FlattenSeq(escaped) = EscapeFormat(v)
    BY <2>2, Zenon DEF EscapeFormat
  <2>4. QED
    BY <2>1, <2>3, Zenon DEF hex
<1> HIDE DEF modern, escaped, Escape, hex
<1>3. CASE modern
  <2>1. EncodeBytea(serverVersion, v) = <<Backslash, "x">> \o Hex(v)
    BY <1>2, <1>3, Zenon
  <2>2. QED
    BY <1>1, <2>1, HexParsed, Zenon
<1>4. CASE ~modern
  <2>1. EncodeBytea(serverVersion, v) = EscapeFormat(v)
    BY <1>2, <1>4, Zenon
  <2>2. ParseBytea(EscapeFormat(v)) = ParseEscaped(EscapeFormat(v))
    BY EscapeHasNoMark, Zenon DEF ParseBytea
  <2>3. QED
    BY <2>1, <2>2, EscapedParsed, Zenon
<1>5. QED
  BY <1>3, <1>4, Zenon

LEMMA ByteaReadsBack ==
  ASSUME NEW v \in Seq(Bytes)
  PROVE  /\ ReadsBack(<<Quote, Backslash, Backslash, "x">> \o Hex(v) \o <<Quote>>, "Bytea", v)
         /\ \A serverVersion : ReadsBack(Printed(EncodeBytea(serverVersion, v), <<",">>), "Bytea", v)
<1>1. v \in Seq(0..255)
  <2>1. Len(v) \in Nat /\ \A k \in 1..Len(v) : v[k] \in Bytes
    BY LenProperties, ElementOfSeq
  <2>2. \A b \in Bytes : b \in 0..255
    BY Zenon DEF Bytes
  <2>3. QED
    BY <2>1, <2>2
<1>2. ASSUME NEW t, ParseBytea(t) = Ok(v) PROVE Converted("Bytea", Item(t)) = Ok(v)
  <2>1. Converted("Bytea", Item(t)) = ByteaElement(Item(t))
    BY Zenon DEF Converted
  <2>2. QED
    BY <1>2, <2>1, ItemText, Zenon DEF ByteaElement
<1>3. ReadsBack(<<Quote, Backslash, Backslash, "x">> \o Hex(v) \o <<Quote>>, "Bytea", v)
  <2> DEFINE t == <<Backslash, "x">> \o Hex(v)
             q == <<Quote, Backslash, Backslash, "x">> \o Hex(v) \o <<Quote>>
  <2>1. t \in Seq(STRING) /\ q \in Seq(STRING) /\ QuotedText(q, t)
    BY <1>1, HexSpells
  <2>2. ParseBytea(t) = Ok(v)
    BY <1>1, HexParsed
  <2> HIDE DEF t, q
  <2>3. Item(t) \in Items
    BY <2>1 DEF Items
  <2>4. Converted("Bytea", Item(t)) = Ok(v)
    BY <1>2, <2>2
  <2>5. Spells(q, ",", Item(t))
    BY <2>1, Zenon DEF Spells
  <2>6. ReadsBack(q, "Bytea", v)
    BY <2>1, <2>3, <2>4, <2>5, Zenon DEF ReadsBack
  <2>7. QED
    BY <2>6 DEF q
<1>4. ASSUME NEW serverVersion
      PROVE  ReadsBack(Printed(EncodeBytea(serverVersion, v), <<",">>), "Bytea", v)
  <2> DEFINE t == EncodeBytea(serverVersion, v)
  <2>1. t \in Seq(STRING)
    BY ByteaIsText
  <2>2. ParseBytea(t) = Ok(v)
    BY ByteaParsed
  <2> HIDE DEF t
  <2>3. /\ Printed(t, <<",">>) \in Seq(STRING) /\ Item(t) \in Items
        /\ Spells(Printed(t, <<",">>), ",", Item(t))
    BY <2>1, PrintedSpells
  <2>4. Converted("Bytea", Item(t)) = Ok(v)
    BY <1>2, <2>2
  <2>5. QED
    BY <2>3, <2>4, Zenon DEF ReadsBack, t
<1>5. QED
  BY <1>3, <1>4

-----------------------------------------------------------------------------
(* A column holds what is read back as the array it was written from. *)

HoldsArrayOf(c, k, a) ==
  IF a.nil THEN c = SqlNull ELSE c.type = "text" /\ HoldsList(c.text, k, a.items)

LEMMA WrittenHolds ==
  ASSUME NEW k, NEW V, NEW a, a.items \in Seq(V), NEW pieces \in [1..Len(a.items) -> Seq(STRING)],
         \A j \in 1..Len(a.items) : ReadsBack(pieces[j], k, a.items[j]),
         NEW c, c = IF a.nil THEN SqlNull ELSE Text(Braces(pieces, <<",">>))
  PROVE  HoldsArrayOf(c, k, a)
<1>1. Len(a.items) \in Nat
  BY LenProperties
<1>2. pieces \in Seq(Seq(STRING)) /\ Len(pieces) = Len(a.items)
  BY <1>1, ListLength
<1>3. HoldsList(Braces(pieces, <<",">>), k, a.items)
  BY <1>2, ListReadsBack
<1>4. \A t : Text(t).text = t /\ Text(t).type = "text"
  BY DEF Text
<1>5. CASE a.nil
  BY <1>5, Zenon DEF HoldsArrayOf
<1>6. CASE ~a.nil
  <2>1. c = Text(Braces(pieces, <<",">>))
    BY <1>6, Zenon
  <2>2. c.type = "text" /\ c.text = Braces(pieces, <<",">>)
    BY <1>4, <2>1, Zenon
  <2>3. QED
    BY <1>3, <1>6, <2>2, Zenon DEF HoldsArrayOf
<1>7. QED
  BY <1>5, <1>6, Zenon

LEMMA BoolHolds ==
  ASSUME NEW a, a.items \in Seq(BOOLEAN)
  PROVE  HoldsArrayOf(BoolValue(a), "Bool", a)
<1> DEFINE Element(b) == <<IF b THEN "t" ELSE "f">>
           pieces == [j \in DOMAIN a.items |-> Element(a.items[j])]
<1>1. DOMAIN a.items = 1..Len(a.items) /\ \A j \in 1..Len(a.items) : a.items[j] \in BOOLEAN
  BY LenProperties, ElementOfSeq
<1>2. BoolValue(a) = IF a.nil THEN SqlNull ELSE Text(Braces(pieces, <<",">>))
  BY Zenon DEF BoolValue, Written
<1>3. ASSUME NEW b \in BOOLEAN PROVE ReadsBack(Element(b), "Bool", b) /\ Element(b) \in Seq(STRING)
  BY BoolReadsBack, Zenon DEF ReadsBack
<1> HIDE DEF Element
<1>4. /\ pieces \in [1..Len(a.items) -> Seq(STRING)]
      /\ \A j \in 1..Len(a.items) : ReadsBack(pieces[j], "Bool", a.items[j])
  BY <1>1, <1>3
<1> HIDE DEF pieces
<1>5. QED
  BY <1>2, <1>4, WrittenHolds

LEMMA NumberIsText ==
  ASSUME NEW x \in Numbers
  PROVE  <<NumeralOf(x)>> \in Seq(STRING)
BY NumberReadsBack, Zenon DEF ReadsBack

LEMMA NumbersHold ==
  ASSUME NEW a, NEW V, V \subseteq Numbers, a.items \in Seq(V)
  PROVE  /\ HoldsArrayOf(Float64Value(a), "Float64", a)
         /\ V \subseteq Int64s => HoldsArrayOf(Int64Value(a), "Int64", a)
         /\ V \subseteq Int32s => HoldsArrayOf(Int32Value(a), "Int32", a)
         /\ (\A x \in V : x \in DOMAIN Float32Of /\ Float32Of[x] = x) =>
              HoldsArrayOf(Float32Value(a), "Float32", a)
<1> DEFINE pieces == [j \in DOMAIN a.items |-> <<NumeralOf(a.items[j])>>]
           numeric == IF a.nil THEN SqlNull ELSE Text(Braces(pieces, <<",">>))
<1>1. DOMAIN a.items = 1..Len(a.items) /\ \A j \in 1..Len(a.items) : a.items[j] \in V
  BY LenProperties, ElementOfSeq
<1>2. Float64Value(a) = numeric /\ Float32Value(a) = numeric
  BY Zenon DEF Float64Value, Float32Value, Written
<1>3. Int64Value(a) = numeric /\ Int32Value(a) = numeric
  BY Zenon DEF Int64Value, Int32Value, Written
<1>4. ASSUME NEW j \in 1..Len(a.items)
      PROVE  /\ a.items[j] \in Numbers /\ a.items[j] \in V
             /\ pieces[j] = <<NumeralOf(a.items[j])>>
  BY <1>1
<1>5. pieces \in [1..Len(a.items) -> Seq(STRING)]
  <2>1. \A j \in 1..Len(a.items) : <<NumeralOf(a.items[j])>> \in Seq(STRING)
    BY <1>4, NumberIsText
  <2>2. QED
    BY <1>1, <2>1
<1> HIDE DEF pieces
<1>6. ASSUME NEW k, \A j \in 1..Len(a.items) : ReadsBack(<<NumeralOf(a.items[j])>>, k, a.items[j])
      PROVE  HoldsArrayOf(numeric, k, a)
  <2>1. \A j \in 1..Len(a.items) : ReadsBack(pieces[j], k, a.items[j])
    BY <1>4, <1>6, Zenon
  <2>2. QED
    BY <1>5, <2>1, WrittenHolds
<1> HIDE DEF numeric
<1>7. HoldsArrayOf(Float64Value(a), "Float64", a)
  BY <1>2, <1>4, <1>6, NumberReadsBack, Zenon
<1>8. ASSUME V \subseteq Int64s PROVE HoldsArrayOf(Int64Value(a), "Int64", a)
  <2>1. \A j \in 1..Len(a.items) : a.items[j] \in Int64s
    BY <1>4, <1>8, Zenon
  <2>2. QED
    BY <1>3, <1>4, <1>6, <2>1, NumberReadsBack, Zenon
<1>9. ASSUME V \subseteq Int32s PROVE HoldsArrayOf(Int32Value(a), "Int32", a)
  <2>1. \A j \in 1..Len(a.items) : a.items[j] \in Int32s
    BY <1>4, <1>9, Zenon
  <2>2. QED
    BY <1>3, <1>4, <1>6, <2>1, NumberReadsBack, Zenon
<1>10. ASSUME \A x \in V : x \in DOMAIN Float32Of /\ Float32Of[x] = x
       PROVE  HoldsArrayOf(Float32Value(a), "Float32", a)
  BY <1>2, <1>4, <1>6, <1>10, NumberReadsBack, Zenon
<1>11. QED
  BY <1>7, <1>8, <1>9, <1>10, Zenon

LEMMA StringsHold ==
  ASSUME NEW a, a.items \in Seq(Seq(STRING))
  PROVE  HoldsArrayOf(StringValue(a), "String", a)
<1> DEFINE pieces == [j \in DOMAIN a.items |-> AppendArrayQuotedBytes(a.items[j])]
<1>1. DOMAIN a.items = 1..Len(a.items) /\ \A j \in 1..Len(a.items) : a.items[j] \in Seq(STRING)
  BY LenProperties, ElementOfSeq
<1>2. StringValue(a) = IF a.nil THEN SqlNull ELSE Text(Braces(pieces, <<",">>))
  BY Zenon DEF StringValue, Written
<1>3. ASSUME NEW t \in Seq(STRING)
      PROVE  ReadsBack(AppendArrayQuotedBytes(t), "String", t) /\ AppendArrayQuotedBytes(t) \in Seq(STRING)
  BY StringReadsBack, Zenon DEF ReadsBack
<1>4. /\ pieces \in [1..Len(a.items) -> Seq(STRING)]
      /\ \A j \in 1..Len(a.items) : ReadsBack(pieces[j], "String", a.items[j])
  BY <1>1, <1>3
<1> HIDE DEF pieces
<1>5. QED
  BY <1>2, <1>4, WrittenHolds

LEMMA BytesHold ==
  ASSUME NEW a, a.items \in Seq(Seq(Bytes))
  PROVE  HoldsArrayOf(ByteaValue(a), "Bytea", a)
<1> DEFINE Element(v) == <<Quote, Backslash, Backslash, "x">> \o Hex(v) \o <<Quote>>
           pieces == [j \in DOMAIN a.items |-> Element(a.items[j])]
<1>1. DOMAIN a.items = 1..Len(a.items) /\ \A j \in 1..Len(a.items) : a.items[j] \in Seq(Bytes)
  BY LenProperties, ElementOfSeq
<1>2. ByteaValue(a) = IF a.nil THEN SqlNull ELSE Text(Braces(pieces, <<",">>))
  BY Zenon DEF ByteaValue, Written
<1>3. ASSUME NEW v \in Seq(Bytes)
      PROVE  ReadsBack(Element(v), "Bytea", v) /\ Element(v) \in Seq(STRING)
  BY ByteaReadsBack, Zenon DEF ReadsBack
<1> HIDE DEF Element
<1>4. /\ pieces \in [1..Len(a.items) -> Seq(STRING)]
      /\ \A j \in 1..Len(a.items) : ReadsBack(pieces[j], "Bytea", a.items[j])
  BY <1>1, <1>3
<1> HIDE DEF pieces
<1>5. QED
  BY <1>2, <1>4, WrittenHolds

(* Every array that has a kind of its own is stored as what is read back. *)
LEMMA ValueHolds ==
  ASSUME NEW a \in Arrays, Array(a.type) # "Generic", NEW d
  PROVE  HoldsArrayOf(Value(Array(a.type), a.value, d), Array(a.type), a.value)
<1> DEFINE k == Array(a.type)
           items == a.value.items
<1>1. items \in Seq(ElementsOf(a.type))
  BY ArraysAssumption, Zenon
<1>2. CASE a.type = "[]bool"
  <2>1. ElementsOf(a.type) = BOOLEAN /\ k = "Bool"
    BY <1>2 DEF ElementsOf, Array
  <2>2. Value(k, a.value, d) = BoolValue(a.value)
    BY <2>1 DEF Value
  <2>3. QED
    BY <1>1, <2>1, <2>2, BoolHolds, Zenon
<1>3. CASE a.type = "[]float64"
  <2>1. ElementsOf(a.type) = Numbers /\ k = "Float64"
    BY <1>3 DEF ElementsOf, Array
  <2>2. Value(k, a.value, d) = Float64Value(a.value)
    BY <2>1 DEF Value
  <2>3. QED
    BY <1>1, <2>1, <2>2, NumbersHold, Zenon
<1>4. CASE a.type = "[]float32"
  <2> DEFINE V == {x \in Numbers \cap DOMAIN Float32Of : Float32Of[x] = x}
  <2>1. ElementsOf(a.type) = V /\ k = "Float32"
    BY <1>4 DEF ElementsOf, Array
  <2>2. Value(k, a.value, d) = Float32Value(a.value)
    BY <2>1 DEF Value
  <2>3. V \subseteq Numbers /\ \A x \in V : x \in DOMAIN Float32Of /\ Float32Of[x] = x
    BY Zenon
  <2> HIDE DEF V
  <2>4. QED
    BY <1>1, <2>1, <2>2, <2>3, NumbersHold, Zenon
<1>5. CASE a.type = "[]int64"
  <2>1. ElementsOf(a.type) = Int64s /\ k = "Int64"
    BY <1>5 DEF ElementsOf, Array
  <2>2. Value(k, a.value, d) = Int64Value(a.value)
    BY <2>1 DEF Value
  <2>3. Int64s \subseteq Numbers
    BY TextAssumption, Zenon DEF Numbers
  <2>4. QED
    BY <1>1, <2>1, <2>2, <2>3, NumbersHold, Zenon
<1>6. CASE a.type = "[]int32"
  <2>1. ElementsOf(a.type) = Int32s /\ k = "Int32"
    BY <1>6 DEF ElementsOf, Array
  <2>2. Value(k, a.value, d) = Int32Value(a.value)
    BY <2>1 DEF Value
  <2>3. Int32s \subseteq Numbers
    BY TextAssumption, Zenon DEF Numbers
  <2>4. QED
    BY <1>1, <2>1, <2>2, <2>3, NumbersHold, Zenon
<1>7. CASE a.type = "[]string"
  <2>1. ElementsOf(a.type) = Seq(STRING) /\ k = "String"
    BY <1>7 DEF ElementsOf, Array
  <2>2. Value(k, a.value, d) = StringValue(a.value)
    BY <2>1 DEF Value
  <2>3. QED
    BY <1>1, <2>1, <2>2, StringsHold, Zenon
<1>8. CASE a.type = "[][]byte"
  <2>1. ElementsOf(a.type) = Seq(Bytes) /\ k = "Bytea"
    BY <1>8 DEF ElementsOf, Array
  <2>2. Value(k, a.value, d) = ByteaValue(a.value)
    BY <2>1 DEF Value
  <2>3. QED
    BY <1>1, <2>1, <2>2, BytesHold, Zenon
<1>9. QED
  BY <1>2, <1>3, <1>4, <1>5, <1>6, <1>7, <1>8 DEF Array

(* What the server prints of the array is read back as it, too. *)
LEMMA ReprintedHolds ==
  ASSUME NEW serverVersion, Reprint(serverVersion), origin \in Arrays, kind = Array(origin.type)
  PROVE  HoldsArrayOf(column', kind, origin.value)
<1> DEFINE a == origin.value
           items == a.items
           text(j) == IF kind = "String" THEN items[j] ELSE EncodeBytea(serverVersion, items[j])
           pieces == [j \in DOMAIN items |-> Printed(text(j), <<",">>)]
<1>1. items \in Seq(ElementsOf(origin.type)) /\ ~a.nil /\ kind \in {"String", "Bytea"}
  BY ArraysAssumption, Zenon DEF Reprint
<1>2. /\ DOMAIN items = 1..Len(items)
      /\ \A j \in 1..Len(items) : items[j] \in ElementsOf(origin.type)
  BY <1>1, LenProperties, ElementOfSeq
<1>3. ASSUME NEW j \in 1..Len(items)
      PROVE  ReadsBack(Printed(text(j), <<",">>), kind, items[j])
  <2>1. CASE kind = "String"
    <3>1. ElementsOf(origin.type) = Seq(STRING)
      BY <2>1 DEF Array, ElementsOf
    <3>2. items[j] \in Seq(STRING) /\ text(j) = items[j]
      BY <1>2, <2>1, <3>1
    <3>3. QED
      BY <2>1, <3>2, StringReadsBack, Zenon
  <2>2. CASE kind = "Bytea"
    <3>1. ElementsOf(origin.type) = Seq(Bytes)
      BY <2>2 DEF Array, ElementsOf
    <3>2. items[j] \in Seq(Bytes) /\ text(j) = EncodeBytea(serverVersion, items[j])
      BY <1>2, <2>2, <3>1
    <3> HIDE DEF text
    <3>3. QED
      BY <2>2, <3>2, ByteaReadsBack, Zenon
  <2>3. QED
    BY <1>1, <2>1, <2>2
<1>4. column' = Text(Braces(pieces, <<",">>))
  BY Zenon DEF Reprint
<1>5. /\ pieces \in [1..Len(items) -> Seq(STRING)]
      /\ \A j \in 1..Len(items) : ReadsBack(pieces[j], kind, items[j])
  <2> HIDE DEF text
  <2>1. \A j \in 1..Len(items) : Printed(text(j), <<",">>) \in Seq(STRING)
    BY <1>3, Zenon DEF ReadsBack
  <2>2. QED
    BY <1>2, <1>3, <2>1
<1> HIDE DEF pieces
<1>6. column' = IF a.nil THEN SqlNull ELSE Text(Braces(pieces, <<",">>))
  BY <1>1, <1>4, Zenon
<1>7. QED
  BY <1>1, <1>5, <1>6, WrittenHolds

(* A scan of elements that are all converted returns what they are converted to. *)
LEMMA ScannedElements ==
  ASSUME kind \in OwnKinds, pc # "failed", Len(dims) <= 1, Len(dims) \in Nat,
         NEW values, DOMAIN elems = 1..Len(values), values = [j \in 1..Len(values) |-> values[j]],
         \A j \in 1..Len(values) : Converted(kind, elems[j]) = Ok(values[j])
  PROVE  Scanned = Ok(List(values))
<1> DEFINE read == [j \in DOMAIN elems |-> Converted(kind, elems[j])]
           scan == IF \A j \in DOMAIN elems : read[j].ok
                   THEN Ok(List([j \in DOMAIN elems |-> read[j].value]))
                   ELSE [ok |-> FALSE, value |-> dest]
<1>1. Scanned = scan
  <2>1. ~(pc = "failed" \/ (kind # "Generic" /\ Len(dims) > 1))
    <3>1. ~(Len(dims) > 1)
      OBVIOUS
    <3>2. QED
      BY <3>1
  <2>2. CASE kind = "Bool"
    BY <2>1, <2>2 DEF Scanned, BoolScan, ScanElements, Converted
  <2>3. CASE kind = "Bytea"
    BY <2>1, <2>3 DEF Scanned, ByteaScan, ScanElements, Converted
  <2>4. CASE kind = "Float64"
    BY <2>1, <2>4 DEF Scanned, Float64Scan, ScanElements, Converted
  <2>5. CASE kind = "Float32"
    BY <2>1, <2>5 DEF Scanned, Float32Scan, ScanElements, Converted
  <2>6. CASE kind = "Int64"
    BY <2>1, <2>6 DEF Scanned, Int64Scan, ScanElements, Converted
  <2>7. CASE kind = "Int32"
    BY <2>1, <2>7 DEF Scanned, Int32Scan, ScanElements, Converted
  <2>8. CASE kind = "String"
    BY <2>1, <2>8 DEF Scanned, StringScan, ScanElements, Converted
  <2>9. QED
    BY <2>2, <2>3, <2>4, <2>5, <2>6, <2>7, <2>8 DEF OwnKinds, Kinds
<1>2. \A v : Ok(v).ok = TRUE /\ Ok(v).value = v
  BY DEF Ok
<1>3. \A j \in DOMAIN elems : read[j].ok /\ read[j].value = values[j]
  BY <1>2
<1>4. [j \in DOMAIN elems |-> read[j].value] = values
  <2> HIDE DEF read
  <2>1. QED
    BY <1>3
<1> HIDE DEF read
<1>5. scan = Ok(List(values))
  BY <1>3, <1>4, Zenon
<1>6. QED
  BY <1>1, <1>5, Zenon

-----------------------------------------------------------------------------
(* An array that is stored comes back. *)

Stored ==
  /\ result = "stored" /\ HoldsArrayOf(column, kind, origin.value)
  /\ \/ pc = "idle"
     \/ ~origin.value.nil /\ src = column.text /\ del = <<",">>

(* The array is in the column, and once the scanner has begun it is that   *)
(* text it reads; or it is in the destination.                             *)
ComesBack ==
  /\ result = "none" => origin = Nothing /\ pc = "idle"
  /\ origin # Nothing /\ kind # "Generic" =>
       /\ origin \in Arrays /\ kind = Array(origin.type)
       /\ Stored \/ (result = "ok" /\ dest = origin.value)

LEMMA StoreComesBack ==
  ASSUME NEW a \in Arrays, ComesBack, Store(a)
  PROVE  ComesBack'
<1>1. /\ result = "none" /\ pc = "idle" /\ UNCHANGED pc
      /\ origin' = a /\ kind' = Array(a.type) /\ column' = Value(Array(a.type), a.value, del)
      /\ result' = IF column'.type = "error" THEN "error" ELSE "stored"
  BY Zenon DEF Store, Destination, ComesBack, parserVars, locals
<1>2. ASSUME kind' # "Generic" PROVE Stored'
  <2>1. HoldsArrayOf(column', kind', origin'.value)
    BY <1>1, <1>2, ValueHolds, Zenon
  <2>2. SqlNull.type # "error"
    BY DEF SqlNull
  <2>3. column'.type # "error"
    BY <2>1, <2>2 DEF HoldsArrayOf
  <2>4. QED
    BY <1>1, <2>1, <2>3, Zenon DEF Stored
<1>3. QED
  BY <1>1, <1>2, Zenon DEF ComesBack

LEMMA ScanComesBack ==
  ASSUME ComesBack, Scan
  PROVE  ComesBack'
<1>1. result = "stored" /\ pc = "idle" /\ UNCHANGED <<origin, column, kind>>
  BY Zenon DEF Scan
<1>2. result' # "none"
  <2>1. UNCHANGED result \/ result' = "error" \/ result' = "ok"
    BY Zenon DEF Scan
  <2>2. QED
    BY <1>1, <2>1
<1>3. ASSUME origin # Nothing, kind # "Generic"
      PROVE  Stored' \/ (result' = "ok" /\ dest' = origin.value)
  <2>1. /\ origin \in Arrays /\ HoldsArrayOf(column, kind, origin.value)
    BY <1>1, <1>3 DEF ComesBack, Stored
  <2>2. CASE origin.value.nil
    <3>1. column = SqlNull /\ SqlNull.type = "null"
      BY <2>1, <2>2, Zenon DEF HoldsArrayOf, SqlNull
    <3>2. origin.value = Nil
      <4>1. origin.value \in {Nil, List(origin.value.items)}
        BY <2>1, ArraysAssumption, Zenon
      <4>2. \A s : ~List(s).nil
        BY DEF List
      <4>3. QED
        BY <2>2, <4>1, <4>2
    <3>3. column.type # "text" /\ column.type = "null"
      BY <3>1
    <3>4. dest' = Nil /\ result' = "ok"
      BY <1>3, <3>3 DEF Scan
    <3>5. QED
      BY <3>2, <3>4
  <2>3. CASE ~origin.value.nil
    <3>1. column.type = "text"
      BY <2>1, <2>3, Zenon DEF HoldsArrayOf
    <3>2. Begin(column.text, Separator) /\ UNCHANGED result
      BY <1>3, <3>1 DEF Scan
    <3>3. src' = column.text /\ del' = <<",">>
      BY <1>3, <3>2 DEF Begin, Separator
    <3>4. QED
      BY <1>1, <2>1, <2>3, <3>2, <3>3, Zenon DEF Stored
  <2>4. QED
    BY <2>2, <2>3
<1>4. QED
  BY <1>1, <1>2, <1>3 DEF ComesBack

LEMMA AssignComesBack ==
  ASSUME ParserInv, ReadsLiterals, ComesBack, Assign
  PROVE  ComesBack'
<1>1. /\ result = "stored" /\ pc \in {"failed", "parsed"} /\ UNCHANGED <<origin, column, kind>>
      /\ dest' = Scanned.value /\ result' = IF Scanned.ok THEN "ok" ELSE "error"
  BY Zenon DEF Assign
<1>2. ASSUME origin # Nothing, kind # "Generic"
      PROVE  result' = "ok" /\ dest' = origin.value
  <2>1. /\ origin \in Arrays /\ kind = Array(origin.type) /\ ~origin.value.nil
        /\ HoldsArrayOf(column, kind, origin.value) /\ src = column.text /\ del = <<",">>
    BY <1>1, <1>2 DEF ComesBack, Stored
  <2>2. HoldsList(src, kind, origin.value.items)
    BY <2>1, Zenon DEF HoldsArrayOf
  <2>3. PICK items \in Seq(Items) :
          /\ IsLiteral(src, ",", items) /\ Len(items) = Len(origin.value.items)
          /\ \A j \in 1..Len(origin.value.items) :
               Converted(kind, items[j]) = Ok(origin.value.items[j])
    BY <2>2, Zenon DEF HoldsList
  <2>4. Len(del) = 1 /\ del[1] = ","
    <3>1. \A c : Len(<<c>>) = 1 /\ <<c>>[1] = c
      OBVIOUS
    <3>2. QED
      BY <2>1, <3>1, Zenon
  <2>5. pc # "failed" /\ (pc = "parsed" => elems = items /\ Len(dims) <= 1)
    <3>1. IsLiteral(src, del[1], items) /\ pc # "idle"
      <4>1. pc # "idle"
        BY <1>1
      <4>2. QED
        BY <2>3, <2>4, <4>1, Zenon
    <3>2. QED
      BY <2>3, <2>4, <3>1, Zenon DEF ReadsLiterals
  <2>6. pc = "parsed" /\ elems = items /\ Len(dims) <= 1
    BY <1>1, <2>5, Zenon
  <2> DEFINE values == origin.value.items
  <2>7. values \in Seq(ElementsOf(origin.type)) /\ origin.value = List(values)
    <3>1. /\ values \in Seq(ElementsOf(origin.type))
          /\ origin.value \in {Nil, List(values)}
      BY <2>1, ArraysAssumption, Zenon
    <3>2. Nil.nil
      BY DEF Nil
    <3>3. QED
      BY <2>1, <3>1, <3>2
  <2>8. Scanned = Ok(List(values))
    <3>1. kind \in OwnKinds
      BY <1>2, <2>1, ArrayIsKind DEF OwnKinds
    <3>2. Len(dims) \in Nat
      BY LenProperties DEF ParserInv, ParserTypes
    <3>3. values = [j \in 1..Len(values) |-> values[j]]
      BY <2>7, SeqDef, LenProperties
    <3>4. DOMAIN items = 1..Len(items)
      BY <2>3, LenProperties
    <3>5. DOMAIN elems = 1..Len(values)
      BY <2>3, <2>6, <3>4, Zenon
    <3>6. \A j \in 1..Len(values) : Converted(kind, elems[j]) = Ok(values[j])
      BY <2>3, <2>6, Zenon
    <3>7. QED
      BY <2>6, <3>1, <3>2, <3>3, <3>5, <3>6, ScannedElements
  <2>9. Scanned.ok = TRUE /\ Scanned.value = List(values)
    BY <2>8 DEF Ok
  <2>10. QED
    BY <1>1, <2>7, <2>9
<1>3. result' # "none"
  BY <1>1
<1>4. QED
  BY <1>1, <1>2, <1>3 DEF ComesBack

LEMMA ComesBackStep ==
  ASSUME ParserInv, ReadsLiterals, ComesBack, [Next]_vars
  PROVE  ComesBack'
<1>1. ASSUME NEW m, NEW n, EnableInfinityTS(m, n) PROVE ComesBack'
  <2>1. /\ result = "none" /\ result' \in {"none", "panic"}
        /\ UNCHANGED <<pc, origin, column, kind>>
    BY <1>1 DEF EnableInfinityTS, parserVars, locals
  <2>2. QED
    BY <2>1 DEF ComesBack
<1>2. ASSUME NEW l, Insert(l) PROVE ComesBack'
  <2>1. result = "none" /\ result' = "stored" /\ UNCHANGED origin
    BY <1>2 DEF Insert
  <2>2. QED
    BY <2>1 DEF ComesBack
<1>3. ASSUME NEW v, Reprint(v) PROVE ComesBack'
  <2>1. result = "stored" /\ pc = "idle" /\ UNCHANGED <<pc, origin, kind, result>>
    BY <1>3 DEF Reprint, parserVars, locals
  <2>2. ASSUME origin # Nothing, kind # "Generic" PROVE Stored'
    <3>1. origin \in Arrays /\ kind = Array(origin.type)
      BY <2>2 DEF ComesBack
    <3>2. HoldsArrayOf(column', kind, origin.value)
      BY <1>3, <3>1, ReprintedHolds
    <3>3. QED
      BY <2>1, <3>2 DEF Stored
  <2>3. QED
    BY <2>1, <2>2 DEF ComesBack
<1>4. ASSUME ParseStep PROVE ComesBack'
  <2>1. pc # "idle" /\ UNCHANGED <<src, del, origin, column, kind, dest, result>>
    BY <1>4 DEF ParseStep, Parse, Open, Nest, StartElement, Quoted, Plain, After, Close
  <2>2. QED
    BY <2>1 DEF ComesBack, Stored
<1>5. ASSUME Done \/ UNCHANGED vars PROVE ComesBack'
  <2>1. UNCHANGED <<pc, src, del, origin, column, kind, dest, result>>
    BY <1>5 DEF Done, vars, parserVars, locals
  <2>2. QED
    BY <2>1 DEF ComesBack, Stored
<1>6. QED
  BY <1>1, <1>2, <1>3, <1>4, <1>5, StoreComesBack, ScanComesBack, AssignComesBack DEF Next

(* An array of one of the kinds with a text form of their own that is      *)
(* stored and read back, from the text it was stored as or from the        *)
(* server's own rendering of it, comes back as it was.                     *)
THEOREM ArraysComeBack == Spec => [](kind # "Generic" => RoundTrip)
<1>1. Init => ComesBack
  BY DEF Init, ParserInit, ComesBack
<1>2. ParserInv /\ ReadsLiterals /\ ComesBack /\ [Next]_vars => ComesBack'
  BY ComesBackStep
<1>3. ComesBack => (kind # "Generic" => RoundTrip)
  BY DEF ComesBack, Stored, RoundTrip
<1>4. QED
  BY <1>1, <1>2, <1>3, ColumnsAreScanned, ParserInvHolds, LiteralsAreRead, PTL DEF Spec

-----------------------------------------------------------------------------
(* Arrays of the types that reflection handles. *)

(* The texts that encode writes without quotes. *)
EncodedTexts ==
  DOMAIN Numerals \cup {Stamps[f] : f \in DOMAIN Stamps}
  \cup {"true", "false", "infinity", "-infinity"}

(* A delimiter of one character that means nothing else to the scanner and *)
(* is part of no unquoted text.                                            *)
PlainDelimiter(d) ==
  /\ Len(d) = 1
  /\ d[1] \notin EncodedTexts
  /\ (EncodedTexts \cup {d[1]}) \cap {LeftBrace, RightBrace, Quote, Backslash, "NULL"} = {}

(* What is read of a value that was written while the infinities had the   *)
(* limits.                                                                 *)
ReadAs(limits, v) ==
  CASE "null" \in DOMAIN v -> Null
    [] "str"  \in DOMAIN v -> Item(v.str)
    [] OTHER                -> Item(Encode(limits, v))

(* The destination that holds the elements of an array.                    *)
ReadAsArray(limits, a) == [a EXCEPT !.items = [k \in DOMAIN @ |-> ReadAs(limits, @[k])]]

(* A text that is written for v is read as v.                              *)
SpellsValue(limits, piece, d, v) ==
  piece \in Seq(STRING) /\ ReadAs(limits, v) \in Items /\ Spells(piece, d, ReadAs(limits, v))

Scalar(v) == DOMAIN v \cap {"list", "opaque"} = {}

LEMMA NullSpells ==
  ASSUME NEW d, d # "NULL"
  PROVE  <<"NULL">> \in Seq(STRING) /\ Null \in Items /\ Spells(<<"NULL">>, d, Null)
<1>1. <<"NULL">> \in Seq(STRING)
  BY LiteralAssumption, OneIsSeq
<1>2. "NULL" \notin {LeftBrace, RightBrace, Quote, Backslash}
  BY Zenon DEF LeftBrace, RightBrace, Quote, Backslash
<1>3. Len(<<"NULL">>) > 0 /\ <<"NULL">>[1] = "NULL" /\ \A j \in 1..Len(<<"NULL">>) : <<"NULL">>[j] = "NULL"
  BY OneCharacter, Zenon
<1>4. PlainText(<<"NULL">>, d, Null)
  BY <1>2, <1>3, Zenon DEF PlainText
<1>5. QED
  BY <1>1, <1>4 DEF Items, Spells

LEMMA EncodedIsText ==
  ASSUME NEW limits, NEW v \in DOMAIN Nesting, DOMAIN v \in {{"num"}, {"bool"}, {"time"}}
  PROVE  \E c \in EncodedTexts : c \in STRING /\ Encode(limits, v) = <<c>>
<1>1. CASE DOMAIN v = {"num"}
  <2>1. v.num \in Numbers
    BY <1>1, NestingAssumption
  <2>2. NumeralOf(v.num) \in DOMAIN Numerals /\ NumeralOf(v.num) \in STRING
    <3>1. \E c \in DOMAIN Numerals : Numerals[c] = v.num
      BY <2>1 DEF Numbers
    <3>2. NumeralOf(v.num) \in DOMAIN Numerals
      BY <3>1, Zenon DEF NumeralOf
    <3>3. QED
      BY <2>1, <3>2, NumeralIsString
  <2>3. Encode(limits, v) = <<NumeralOf(v.num)>>
    BY <1>1 DEF Encode
  <2>4. QED
    BY <2>2, <2>3, Zenon DEF EncodedTexts
<1>2. CASE DOMAIN v = {"bool"}
  <2>1. "true" \in STRING /\ "false" \in STRING
    BY LiteralAssumption
  <2>2. (IF v.bool THEN "true" ELSE "false") \in {"true", "false"}
    BY Zenon
  <2>3. Encode(limits, v) = <<IF v.bool THEN "true" ELSE "false">>
    BY <1>2 DEF Encode
  <2>4. QED
    BY <2>1, <2>2, <2>3, Zenon DEF EncodedTexts
<1>3. CASE DOMAIN v = {"time"}
  <2>1. FormatTS(limits, v.time) \in STRING
    BY <1>3, NestingAssumption, TimeIsText
  <2>2. FormatTS(limits, v.time) \in EncodedTexts
    <3>1. FormatTimestamp(v.time) \in DOMAIN Stamps
      BY <1>3, NestingAssumption
    <3>2. Reached(limits, v.time) \in {"none", "infinity", "-infinity"}
      BY DEF Reached
    <3>3. QED
      BY <3>1, <3>2, Zenon DEF FormatTS, EncodedTexts
  <2>3. Encode(limits, v) = <<FormatTS(limits, v.time)>>
    BY <1>3 DEF Encode
  <2>4. QED
    BY <2>1, <2>2, <2>3, Zenon
<1>4. QED
  BY <1>1, <1>2, <1>3

SpellsAs(limits, d, v, r) == r.ok = TRUE /\ r.del = d /\ SpellsValue(limits, r.text, d[1], v)

LEMMA ScalarSpells ==
  ASSUME NEW limits, NEW v \in DOMAIN Nesting, Scalar(v), NEW d, PlainDelimiter(d), NEW parts,
         NEW r, r = AppendArrayElement(limits, v, d, parts)
  PROVE  SpellsAs(limits, d, v, r)
<1> DEFINE Leaf(text) == [ok |-> TRUE, text |-> text, del |-> d]
<1>1. \A t : Leaf(t).ok = TRUE /\ Leaf(t).del = d /\ Leaf(t).text = t
  OBVIOUS
<1>2. DOMAIN v \in {{"null"}, {"str"}, {"num"}, {"bool"}, {"time"}}
  BY NestingAssumption DEF Scalar
<1>3. CASE DOMAIN v = {"null"}
  <2>1. r = Leaf(<<"NULL">>)
    BY <1>3 DEF AppendArrayElement
  <2>2. ReadAs(limits, v) = Null
    BY <1>3 DEF ReadAs
  <2>3. d[1] # "NULL"
    BY Zenon DEF PlainDelimiter
  <2>4. QED
    BY <1>1, <2>1, <2>2, <2>3, NullSpells, Zenon DEF SpellsValue, SpellsAs
<1>4. CASE DOMAIN v = {"str"}
  <2>1. r = Leaf(AppendArrayQuotedBytes(v.str))
    BY <1>4 DEF AppendArrayElement
  <2>2. ReadAs(limits, v) = Item(v.str)
    BY <1>4 DEF ReadAs
  <2>3. v.str \in Seq(STRING)
    BY <1>4, NestingAssumption
  <2>4. Item(v.str) \in Items
    BY <2>3 DEF Items
  <2>5. AppendArrayQuotedBytes(v.str) \in Seq(STRING) /\ Spells(AppendArrayQuotedBytes(v.str), d[1], Item(v.str))
    BY <2>3, QuotingSpells, Zenon DEF Spells
  <2>6. QED
    BY <1>1, <2>1, <2>2, <2>4, <2>5, Zenon DEF SpellsValue, SpellsAs
<1>5. CASE DOMAIN v \in {{"num"}, {"bool"}, {"time"}}
  <2>1. r = Leaf(Encode(limits, v))
    BY <1>5 DEF AppendArrayElement
  <2>2. ReadAs(limits, v) = Item(Encode(limits, v))
    BY <1>5 DEF ReadAs
  <2>3. PICK c \in EncodedTexts : c \in STRING /\ Encode(limits, v) = <<c>>
    BY <1>5, EncodedIsText
  <2>4. c \notin {LeftBrace, RightBrace, Quote, Backslash, d[1], "NULL"}
    BY <2>3, Zenon DEF PlainDelimiter
  <2>5. <<c>> \in Seq(STRING) /\ Item(<<c>>) \in Items /\ Spells(<<c>>, d[1], Item(<<c>>))
    BY <2>3, <2>4, PlainCharacter
  <2>6. QED
    BY <1>1, <2>1, <2>2, <2>3, <2>5, Zenon DEF SpellsValue, SpellsAs
<1>6. QED
  BY <1>2, <1>3, <1>4, <1>5

(* A column that holds a generic array as the literal of its elements.     *)
HoldsValues(limits, c, d, a) ==
  IF a.nil THEN c = SqlNull
  ELSE /\ c.type = "text"
       /\ \E items \in Seq(Items) :
            /\ IsLiteral(c.text, d[1], items) /\ Len(items) = Len(a.items)
            /\ \A j \in 1..Len(a.items) : items[j] = ReadAs(limits, a.items[j])

(* The elements of a list without lists in it all have the same delimiter. *)
LEMMA ScalarsAreLiteral ==
  ASSUME NEW limits, NEW vs \in Seq(DOMAIN Nesting), Len(vs) # 0, NEW d \in Seq(STRING), PlainDelimiter(d),
         \A k \in DOMAIN vs : Scalar(vs[k])
  PROVE  /\ Appended(limits, vs, d).ok
         /\ \E items \in Seq(Items) :
              /\ IsLiteral(Appended(limits, vs, d).text, d[1], items) /\ Len(items) = Len(vs)
              /\ \A j \in 1..Len(vs) : items[j] = ReadAs(limits, vs[j])
<1>1. PICK n \in Nat \ {0} : n = Len(vs) /\ DOMAIN vs = 1..n /\ \A k \in 1..n : vs[k] \in DOMAIN Nesting
  BY LenProperties, ElementOfSeq
<1>2. PICK element : Appends(limits, d, element)
  BY ElementsAreAppended
<1>3. \A k \in 1..n : element[vs[k]] = AppendArrayElement(limits, vs[k], d, PartsOf(vs[k], element))
  BY <1>1, <1>2, Zenon DEF Appends
<1>4. \A k \in 1..n : /\ element[vs[k]].ok = TRUE /\ element[vs[k]].del = d
                      /\ SpellsValue(limits, element[vs[k]].text, d[1], vs[k])
  <2>1. ASSUME NEW v \in DOMAIN Nesting, Scalar(v)
        PROVE  \A r : r = AppendArrayElement(limits, v, d, PartsOf(v, element)) =>
                 SpellsAs(limits, d, v, r)
    BY <2>1, ScalarSpells
  <2>2. \A k \in 1..n : vs[k] \in DOMAIN Nesting /\ Scalar(vs[k])
    BY <1>1
  <2>3. QED
    BY <1>3, <2>1, <2>2, Zenon DEF SpellsAs
<1> DEFINE parts == [k \in DOMAIN vs |-> element[vs[k]]]
           pieces == [k \in 1..n |-> element[vs[k]].text]
           items == [k \in 1..n |-> ReadAs(limits, vs[k])]
<1>5. DOMAIN parts = 1..n /\ \A k \in 1..n : parts[k] = element[vs[k]]
  BY <1>1
<1>6. \A k \in 1..n : parts[k].ok = TRUE /\ parts[k].del = d /\ parts[k].text = pieces[k]
  BY <1>4, <1>5
<1>7. pieces \in [1..n -> Seq(STRING)] /\ items \in [1..n -> Items]
  <2>1. \A k \in 1..n : element[vs[k]].text \in Seq(STRING) /\ ReadAs(limits, vs[k]) \in Items
    BY <1>4, Zenon DEF SpellsValue
  <2>2. QED
    BY <2>1
<1>8. \A k \in 1..n : Spells(pieces[k], d[1], items[k]) /\ items[k] = ReadAs(limits, vs[k])
  <2>1. \A k \in 1..n : Spells(element[vs[k]].text, d[1], ReadAs(limits, vs[k]))
    BY <1>4, Zenon DEF SpellsValue
  <2>2. \A k \in 1..n : pieces[k] = element[vs[k]].text /\ items[k] = ReadAs(limits, vs[k])
    OBVIOUS
  <2> HIDE DEF pieces, items
  <2>3. QED
    BY <2>1, <2>2, Zenon
<1>9. Appended(limits, vs, d) = AppendArray(parts)
  BY <1>2, Zenon DEF Appends
<1> HIDE DEF parts, pieces, items
<1>10. /\ pieces \in Seq(Seq(STRING)) /\ items \in Seq(Items)
       /\ Len(pieces) = n /\ Len(items) = n /\ DOMAIN pieces = 1..n
  BY <1>1, <1>7, ListIsSeq, ListLength
<1>11. AppendArray(parts).ok /\ AppendArray(parts).text = Braces(pieces, d)
  <2>1. \A k \in 1..n : k # 1 => k - 1 \in 1..n
    OBVIOUS
  <2>2. \A k \in 1..n : (IF k = 1 THEN <<>> ELSE parts[k - 1].del) \o parts[k].text
                         = (IF k = 1 THEN <<>> ELSE d) \o pieces[k]
    BY <1>6, <2>1, Zenon
  <2>3. [k \in 1..n |-> (IF k = 1 THEN <<>> ELSE parts[k - 1].del) \o parts[k].text]
        = [k \in 1..n |-> (IF k = 1 THEN <<>> ELSE d) \o pieces[k]]
    BY <2>2, Zenon
  <2>4. AppendArray(parts).text
        = <<LeftBrace>> \o FlattenSeq([k \in 1..n |-> (IF k = 1 THEN <<>> ELSE parts[k - 1].del) \o parts[k].text])
          \o <<RightBrace>>
    BY <1>5 DEF AppendArray
  <2>5. Braces(pieces, d)
        = <<LeftBrace>> \o FlattenSeq([k \in 1..n |-> (IF k = 1 THEN <<>> ELSE d) \o pieces[k]]) \o <<RightBrace>>
    BY <1>10, Zenon DEF Braces
  <2>6. AppendArray(parts).ok
    BY <1>5, <1>6 DEF AppendArray
  <2>7. QED
    BY <2>3, <2>4, <2>5, <2>6, Zenon
<1>12. d = <<d[1]>> /\ d[1] \in STRING
  <2>1. Len(d) = 1
    BY DEF PlainDelimiter
  <2>2. d[1] \in STRING
    <3>1. 1 \in 1..Len(d)
      BY <2>1
    <3>2. QED
      BY <3>1, ElementOfSeq
  <2>3. <<d[1]>> \in Seq(STRING) /\ Len(<<d[1]>>) = 1 /\ <<d[1]>>[1] = d[1]
    BY <2>2, OneIsSeq
  <2>4. \A j \in 1..Len(d) : d[j] = <<d[1]>>[j]
    BY <2>1, <2>3
  <2>5. QED
    BY <2>1, <2>2, <2>3, <2>4, SameElements
<1>13. \E start : LiteralOf(Braces(pieces, <<d[1]>>), d[1], items, start)
  <2>1. d[1] \notin {LeftBrace, RightBrace, Quote, Backslash}
    BY Zenon DEF PlainDelimiter
  <2>2. QED
    BY <1>8, <1>10, <1>12, <2>1, BracesAreLiteral
<1>14. IsLiteral(Appended(limits, vs, d).text, d[1], items)
  <2>1. Braces(pieces, <<d[1]>>) = Appended(limits, vs, d).text
    BY <1>9, <1>11, <1>12, Zenon
  <2>2. QED
    BY <1>13, <2>1, Zenon DEF IsLiteral
<1>15. QED
  BY <1>1, <1>8, <1>9, <1>10, <1>11, <1>14, Zenon

LEMMA GenericHolds ==
  ASSUME NEW limits, NEW a, a.items \in Seq(DOMAIN Nesting), Flat(a), NEW d \in Seq(STRING), PlainDelimiter(d)
  PROVE  HoldsValues(limits, GenericValue(limits, a, d), d, a)
<1> DEFINE r == Appended(limits, a.items, d)
<1>1. \A t : Text(t).text = t /\ Text(t).type = "text"
  BY DEF Text
<1>2. CASE a.nil
  BY <1>2, Zenon DEF GenericValue, HoldsValues
<1>3. CASE ~a.nil /\ a.items = <<>>
  <2>1. GenericValue(limits, a, d) = Text(Empty)
    BY <1>3, Zenon DEF GenericValue, Empty
  <2>2. <<>> \in Seq(Items) /\ Len(<<>>) = 0
    BY EmptySeq
  <2>3. IsLiteral(Empty, d[1], <<>>)
    BY Zenon DEF IsLiteral
  <2>4. \A j \in 1..0 : FALSE
    OBVIOUS
  <2>5. Len(<<>>) = Len(a.items) /\ \A j \in 1..Len(a.items) : FALSE
    BY <1>3, <2>2, <2>4, Zenon
  <2>6. QED
    BY <1>1, <1>3, <2>1, <2>2, <2>3, <2>5, Zenon DEF HoldsValues
<1>4. CASE ~a.nil /\ a.items # <<>>
  <2>1. Len(a.items) # 0
    BY <1>4, EmptySeq
  <2>2. \A k \in DOMAIN a.items : Scalar(a.items[k])
    BY Zenon DEF Flat, Scalar
  <2>3. /\ r.ok
        /\ \E items \in Seq(Items) :
             /\ IsLiteral(r.text, d[1], items) /\ Len(items) = Len(a.items)
             /\ \A j \in 1..Len(a.items) : items[j] = ReadAs(limits, a.items[j])
    BY <2>1, <2>2, ScalarsAreLiteral
  <2> HIDE DEF r
  <2>4. GenericValue(limits, a, d) = Text(r.text)
    <3>1. GenericValue(limits, a, d) = IF r.ok THEN Text(r.text) ELSE [type |-> "error", text |-> r.text]
      BY <1>4, Zenon DEF GenericValue, r
    <3>2. r.ok
      BY <2>3
    <3>3. QED
      BY <3>1, <3>2, Zenon
  <2>5. Text(r.text).type = "text" /\ Text(r.text).text = r.text
    BY <1>1
  <2>6. PICK items \in Seq(Items) :
          /\ IsLiteral(r.text, d[1], items) /\ Len(items) = Len(a.items)
          /\ \A j \in 1..Len(a.items) : items[j] = ReadAs(limits, a.items[j])
    BY <2>3
  <2>7. HoldsValues(limits, Text(r.text), d, a)
    BY <1>4, <2>5, <2>6, Zenon DEF HoldsValues
  <2>8. QED
    BY <2>4, <2>7, Zenon
<1>5. QED
  BY <1>2, <1>3, <1>4, Zenon

LEMMA TypeIsGeneric ==
  ASSUME NEW a \in Arrays, Array(a.type) = "Generic"
  PROVE  a.value.items \in Seq(DOMAIN Nesting) /\ a.value \in {Nil, List(a.value.items)}
<1>1. a.type \notin {"[]bool", "[]float64", "[]float32", "[]int64", "[]int32", "[]string", "[][]byte"}
  BY DEF Array
<1>2. ElementsOf(a.type) = DOMAIN Nesting
  BY <1>1 DEF ElementsOf
<1>3. a.value.items \in Seq(ElementsOf(a.type)) /\ a.value \in {Nil, List(a.value.items)}
  BY ArraysAssumption, Zenon
<1>4. QED
  BY <1>2, <1>3, Zenon

GenericStored ==
  /\ result = "stored" /\ HoldsValues(infinity, column, del, origin.value)
  /\ pc = "idle" \/ (~origin.value.nil /\ src = column.text)

(* The argument of ComesBack, for the types that reflection handles.       *)
GenericBack ==
  /\ result = "none" => origin = Nothing /\ pc = "idle"
  /\ origin # Nothing /\ kind = "Generic" /\ target = Slice /\ Flat(origin.value) =>
       /\ origin \in Arrays /\ Array(origin.type) = "Generic"
       /\ GenericStored \/ (result = "ok" /\ dest = ReadAsArray(infinity, origin.value))

PlainDelimiters == \A d \in Delimiters : PlainDelimiter(d)

LEMMA GenericStoreStep ==
  ASSUME PlainDelimiters, ParserInv, NEW a \in Arrays, GenericBack, Store(a)
  PROVE  GenericBack'
<1>1. /\ result = "none" /\ pc = "idle" /\ UNCHANGED <<pc, del, infinity>>
      /\ origin' = a /\ kind' = Array(a.type) /\ column' = Value(Array(a.type), a.value, del)
      /\ result' = IF column'.type = "error" THEN "error" ELSE "stored"
  BY Zenon DEF Store, Destination, GenericBack, parserVars, locals
<1>2. ASSUME kind' = "Generic", Flat(origin'.value)
      PROVE  Array(a.type) = "Generic" /\ GenericStored'
  <2>1. Array(a.type) = "Generic"
    BY <1>1, <1>2, Zenon
  <2>2. column' = GenericValue(infinity, a.value, del)
    BY <1>1, <2>1 DEF Value
  <2>3. del \in Seq(STRING) /\ PlainDelimiter(del)
    BY DelimitersAssumption DEF ParserInv, ParserTypes, PlainDelimiters
  <2>4. HoldsValues(infinity, column, del, origin.value)'
    <3>1. HoldsValues(infinity, GenericValue(infinity, a.value, del), del, a.value)
      BY <1>1, <1>2, <2>1, <2>3, TypeIsGeneric, GenericHolds
    <3>2. HoldsValues(infinity', column', del', origin'.value)
      BY <1>1, <2>2, <3>1, Zenon
    <3>3. QED
      BY <3>2
  <2>5. column'.type # "error"
    <3>1. SqlNull.type = "null"
      BY DEF SqlNull
    <3>2. column'.type \in {"text", "null"}
      BY <2>4, <3>1, Zenon DEF HoldsValues
    <3>3. QED
      BY <3>2
  <2>6. QED
    BY <1>1, <2>1, <2>4, <2>5, Zenon DEF GenericStored
<1>3. result' # "none"
  BY <1>1
<1>4. QED
  BY <1>1, <1>2, <1>3, Zenon DEF GenericBack

LEMMA GenericScanStep ==
  ASSUME GenericBack, Scan
  PROVE  GenericBack'
<1>1. result = "stored" /\ pc = "idle" /\ UNCHANGED <<infinity, origin, column, kind, target>>
  BY Zenon DEF Scan
<1>2. result' # "none"
  <2>1. UNCHANGED result \/ result' = "error" \/ result' = "ok"
    BY Zenon DEF Scan
  <2>2. QED
    BY <1>1, <2>1
<1>3. ASSUME origin # Nothing, kind = "Generic", target = Slice, Flat(origin.value)
      PROVE  /\ origin \in Arrays /\ Array(origin.type) = "Generic"
             /\ GenericStored' \/ (result' = "ok" /\ dest' = ReadAsArray(infinity', origin.value))
  <2>1. /\ origin \in Arrays /\ Array(origin.type) = "Generic"
        /\ HoldsValues(infinity, column, del, origin.value)
    BY <1>1, <1>3 DEF GenericBack, GenericStored
  <2>2. target.shape = "slice"
    BY <1>3 DEF Slice
  <2>3. CASE origin.value.nil
    <3>1. column = SqlNull /\ SqlNull.type = "null"
      BY <2>1, <2>3, Zenon DEF HoldsValues, SqlNull
    <3>2. origin.value = Nil
      <4>1. origin.value \in {Nil, List(origin.value.items)}
        BY <2>1, TypeIsGeneric, Zenon
      <4>2. \A s : ~List(s).nil
        BY DEF List
      <4>3. QED
        BY <2>3, <4>1, <4>2
    <3>3. column.type # "text" /\ column.type = "null"
      BY <3>1
    <3>4. dest' = Nil /\ result' = "ok"
      BY <1>3, <2>2, <3>3 DEF Scan
    <3>5. ReadAsArray(infinity, Nil) = Nil
      BY DEF ReadAsArray, Nil
    <3>6. QED
      BY <1>1, <2>1, <3>2, <3>4, <3>5
  <2>4. CASE ~origin.value.nil
    <3>1. column.type = "text"
      BY <2>1, <2>4, Zenon DEF HoldsValues
    <3>2. Begin(column.text, del) /\ UNCHANGED result
      BY <1>3, <2>2, <3>1 DEF Scan, Separator
    <3>3. src' = column.text /\ del' = del
      BY <3>2 DEF Begin
    <3>4. HoldsValues(infinity, column, del, origin.value)'
      <4>1. infinity' = infinity /\ column' = column /\ del' = del /\ origin' = origin
        BY <1>1, <3>3
      <4>2. QED
        BY <2>1, <4>1, Zenon
    <3>5. QED
      BY <1>1, <2>1, <2>4, <3>2, <3>3, <3>4, Zenon DEF GenericStored
  <2>5. QED
    BY <2>3, <2>4
<1>4. QED
  BY <1>1, <1>2, <1>3 DEF GenericBack

LEMMA GenericAssignStep ==
  ASSUME PlainDelimiters, ParserInv, ReadsLiterals, GenericBack, Assign
  PROVE  GenericBack'
<1>1. /\ result = "stored" /\ pc \in {"failed", "parsed"}
      /\ UNCHANGED <<infinity, origin, column, kind, target>>
      /\ dest' = Scanned.value /\ result' = IF Scanned.ok THEN "ok" ELSE "error"
  BY Zenon DEF Assign
<1>2. ASSUME origin # Nothing, kind = "Generic", target = Slice, Flat(origin.value)
      PROVE  /\ origin \in Arrays /\ Array(origin.type) = "Generic"
             /\ result' = "ok" /\ dest' = ReadAsArray(infinity', origin.value)
  <2> DEFINE values == origin.value.items
             n == Len(values)
             back == [k \in DOMAIN values |-> ReadAs(infinity, values[k])]
  <2>1. /\ origin \in Arrays /\ Array(origin.type) = "Generic" /\ ~origin.value.nil
        /\ HoldsValues(infinity, column, del, origin.value) /\ src = column.text
    BY <1>1, <1>2 DEF GenericBack, GenericStored
  <2>2. PICK items \in Seq(Items) :
          /\ IsLiteral(src, del[1], items) /\ Len(items) = n
          /\ \A j \in 1..n : items[j] = ReadAs(infinity, values[j])
    BY <2>1, Zenon DEF HoldsValues
  <2>3. Len(del) = 1 /\ pc # "idle"
    BY <1>1 DEF ParserInv, ParserTypes, PlainDelimiters, PlainDelimiter
  <2>4. pc # "failed" /\ (pc = "parsed" => elems = items /\ Len(dims) <= 1)
    BY <2>2, <2>3, Zenon DEF ReadsLiterals
  <2>5. pc = "parsed" /\ elems = items /\ Len(dims) <= 1 /\ Len(dims) \in Nat
    <3>1. Len(dims) \in Nat
      BY LenProperties DEF ParserInv, ParserTypes
    <3>2. QED
      BY <1>1, <2>4, <3>1
  <2>6. values \in Seq(DOMAIN Nesting) /\ origin.value = List(values)
    <3>1. values \in Seq(DOMAIN Nesting) /\ origin.value \in {Nil, List(values)}
      BY <2>1, TypeIsGeneric, Zenon
    <3>2. Nil.nil
      BY DEF Nil
    <3>3. QED
      BY <2>1, <3>1, <3>2
  <2>7. elems = back /\ elems = [k \in DOMAIN elems |-> elems[k]]
    <3>1. DOMAIN values = 1..n /\ DOMAIN items = 1..n /\ items = [k \in DOMAIN items |-> items[k]]
      BY <2>2, <2>6, LenProperties, SeqDef
    <3> HIDE DEF values
    <3>2. QED
      BY <2>2, <2>5, <3>1
  <2>8. Scanned = Ok(List(elems))
    <3> DEFINE read == [k \in DOMAIN elems |-> GenericElement(target, elems[k])]
    <3>1. Scanned = GenericScan(target, dest, dims, elems)
      BY <1>2, <2>5 DEF Scanned
    <3>2. target.shape = "slice" /\ target.scanner
      BY <1>2 DEF Slice
    <3>3. GenericScan(target, dest, dims, elems)
          = IF \A k \in DOMAIN elems : read[k].ok
            THEN Ok(List([k \in DOMAIN elems |-> read[k].value]))
            ELSE [ok |-> FALSE, value |-> dest]
      <4>1. ~(Len(dims) > 1)
        BY <2>5
      <4>2. ~(target.shape = "array")
        BY <3>2
      <4>3. QED
        BY <4>1, <4>2 DEF GenericScan, ScanElements
    <3>4. \A k \in DOMAIN elems : read[k] = Ok(elems[k])
      BY <3>2 DEF GenericElement
    <3> HIDE DEF read
    <3>5. \A k \in DOMAIN elems : read[k].ok = TRUE /\ read[k].value = elems[k]
      <4>1. \A v : Ok(v).ok = TRUE /\ Ok(v).value = v
        BY DEF Ok
      <4>2. QED
        BY <3>4, <4>1, Zenon
    <3>6. [k \in DOMAIN elems |-> read[k].value] = elems
      <4>1. [k \in DOMAIN elems |-> read[k].value] = [k \in DOMAIN elems |-> elems[k]]
        BY <3>5
      <4>2. QED
        BY <2>7, <4>1, Zenon
    <3>7. QED
      BY <3>1, <3>3, <3>5, <3>6, Zenon
  <2>9. Scanned.ok = TRUE /\ Scanned.value = List(back)
    BY <2>7, <2>8 DEF Ok
  <2>10. ReadAsArray(infinity, origin.value) = List(back)
    <3> HIDE DEF back
    <3>1. ASSUME NEW s, NEW u PROVE List(s).items = s /\ [List(s) EXCEPT !.items = u] = List(u)
      <4>1. \A x, y, z : [[nil |-> x, items |-> y] EXCEPT !.items = z] = [nil |-> x, items |-> z]
        OBVIOUS
      <4>2. List(s).items = s
        BY DEF List
      <4>3. QED
        BY <4>1, <4>2, Zenon DEF List
    <3>2. ReadAsArray(infinity, List(values))
          = [List(values) EXCEPT !.items = [k \in DOMAIN @ |-> ReadAs(infinity, @[k])]]
      BY Zenon DEF ReadAsArray
    <3>3. List(values).items = values
      BY <3>1
    <3>4. ReadAsArray(infinity, List(values)) = [List(values) EXCEPT !.items = back]
      BY <3>2, <3>3, Zenon DEF back
    <3>5. QED
      BY <2>6, <3>1, <3>4, Zenon
  <2>11. QED
    BY <1>1, <2>1, <2>9, <2>10
<1>3. result' # "none"
  BY <1>1
<1>4. QED
  BY <1>1, <1>2, <1>3 DEF GenericBack

LEMMA GenericBackStep ==
  ASSUME PlainDelimiters, ParserInv, ReadsLiterals, GenericBack, [Next]_vars
  PROVE  GenericBack'
<1>1. ASSUME NEW m, NEW n, EnableInfinityTS(m, n) PROVE GenericBack'
  <2>1. /\ result = "none" /\ result' \in {"none", "panic"}
        /\ UNCHANGED <<pc, origin>>
    BY <1>1 DEF EnableInfinityTS, parserVars, locals
  <2>2. QED
    BY <2>1 DEF GenericBack
<1>2. ASSUME NEW l, Insert(l) PROVE GenericBack'
  <2>1. result = "none" /\ result' = "stored" /\ UNCHANGED origin
    BY <1>2 DEF Insert
  <2>2. QED
    BY <2>1 DEF GenericBack
<1>3. ASSUME NEW v, Reprint(v) PROVE GenericBack'
  <2>1. result = "stored" /\ kind' # "Generic" /\ UNCHANGED result
    BY <1>3 DEF Reprint
  <2>2. QED
    BY <2>1 DEF GenericBack
<1>4. ASSUME ParseStep PROVE GenericBack'
  <2>1. pc # "idle" /\ UNCHANGED <<src, del, infinity, origin, column, kind, target, dest, result>>
    BY <1>4 DEF ParseStep, Parse, Open, Nest, StartElement, Quoted, Plain, After, Close
  <2>2. QED
    BY <2>1 DEF GenericBack, GenericStored
<1>5. ASSUME Done \/ UNCHANGED vars PROVE GenericBack'
  <2>1. UNCHANGED <<pc, src, del, infinity, origin, column, kind, target, dest, result>>
    BY <1>5 DEF Done, vars, parserVars, locals
  <2>2. QED
    BY <2>1 DEF GenericBack, GenericStored
<1>6. QED
  BY <1>1, <1>2, <1>3, <1>4, <1>5, GenericStoreStep, GenericScanStep, GenericAssignStep DEF Next

LEMMA GenericIsBack ==
  ASSUME GenericBack, kind = "Generic"
  PROVE  RoundTrip
<1> SUFFICES ASSUME origin # Nothing, result \in {"ok", "error"}, Flat(origin.value), target = Slice
             PROVE  /\ result = "ok"
                    /\ dest = [origin.value EXCEPT !.items = [k \in DOMAIN @ |-> AsItem(@[k])]]
  BY DEF RoundTrip
<1>1. result = "ok" /\ dest = ReadAsArray(infinity, origin.value)
  BY DEF GenericBack, GenericStored
<1>2. \A v : AsItem(v) = ReadAs(infinity, v)
  BY Zenon DEF AsItem, ReadAs
<1>3. QED
  BY <1>1, <1>2, Zenon DEF ReadAsArray

(* Every array that is stored comes back, generic ones included, where a   *)
(* delimiter is one character that means nothing else and is in no text    *)
(* written without quotes.                                                 *)
THEOREM GenericArraysComeBack == PlainDelimiters /\ Spec => []RoundTrip
<1>1. ASSUME PlainDelimiters PROVE Spec => []RoundTrip
  <2>1. Init => GenericBack
    BY DEF Init, ParserInit, GenericBack
  <2>2. ParserInv /\ ReadsLiterals /\ GenericBack /\ [Next]_vars => GenericBack'
    BY <1>1, GenericBackStep
  <2>3. GenericBack /\ (kind # "Generic" => RoundTrip) => RoundTrip
    BY GenericIsBack
  <2>4. QED
    BY <2>1, <2>2, <2>3, ArraysComeBack, ColumnsAreScanned, ParserInvHolds, LiteralsAreRead, PTL DEF Spec
<1>2. QED
  BY <1>1

=============================================================================
