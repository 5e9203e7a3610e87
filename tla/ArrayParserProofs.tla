--------------------------- MODULE ArrayParserProofs ---------------------------
(***************************************************************************)
(* The scanner of package dbarray never divides by zero, and its counts    *)
(* agree, for every text and every set of delimiters; a column is read by  *)
(* it, a scan that fails assigns nothing, and a time that is written is    *)
(* the time that is read.                                                  *)
(*                                                                         *)
(* The argument: a dimension below the current depth has been counted at   *)
(* least once since it was last set to zero, because the depth decreases   *)
(* only at a closing bracket, which counts; so at depth zero all have.     *)
(* In an array of one dimension an element is read between two counts.     *)
(* What a column holds is text because whatever flattens and nests texts   *)
(* is a recursion on a rank, and a recursion defines a function.           *)
(***************************************************************************)
EXTENDS ArrayColumn, SequenceTheorems, FiniteSetTheorems, WellFoundedInduction, TLAPS

Labels  == {"idle", "open", "element", "quoted", "plain", "after", "close", "parsed", "failed"}
Reading == {"element", "quoted", "plain"}

Items == {Null} \cup {Item(t) : t \in Seq(STRING)}

(* The types of the scanner's variables; it never moves past the text. *)
ParserTypes ==
  /\ src \in Seq(STRING) /\ del \in Delimiters /\ pc \in Labels
  /\ i \in 1..(Len(src) + 1) /\ depth \in Nat
  /\ dims \in Seq(Nat) /\ elems \in Seq(Items)
  /\ elem \in Seq(STRING)

(* The leading brackets are the depth; then there are as many dimensions,  *)
(* and those deeper than the current one are positive.                     *)
DepthsCounted ==
  /\ pc = "open" => /\ depth = i - 1 /\ dims = <<>> /\ elems = <<>>
                    /\ i = 1 => At(LeftBrace)
  /\ pc \in Reading => depth \in 1..Len(dims)
  /\ pc = "after" => depth \in 0..Len(dims)
  /\ pc \in Reading \cup {"after"} => \A d \in 1..Len(dims) : d > depth => dims[d] > 0
  /\ pc = "close" =>
       \/ dims = <<>>
       \/ AtEnd /\ (depth = 0 => \A d \in 1..Len(dims) : dims[d] > 0)

ParserInv == ParserTypes /\ DepthsCounted

(* Between two elements of an array of one dimension, the dimension is the *)
(* number of elements; after one it is short of it, or the text is refused *)
(* because it ends or goes on with a bracket.                              *)
ElementsCounted ==
  Len(dims) = 1 =>
    /\ pc \in Reading => dims[1] = Len(elems)
    /\ pc = "after" /\ depth = 1 => dims[1] + 1 = Len(elems) \/ At(LeftBrace) \/ AtEnd
    /\ pc \in {"after", "close"} /\ depth = 0 => dims[1] = Len(elems)
    /\ pc = "parsed" => dims[1] = Len(elems)

-----------------------------------------------------------------------------
(* Lemmas about the operators. *)

(* The character at the position is one of the text.                       *)
LEMMA CharIsString ==
  ASSUME ParserTypes, ~AtEnd
  PROVE  src[i] \in STRING /\ i + 1 \in 1..(Len(src) + 1)
BY LenProperties, ElementOfSeq DEF ParserTypes, AtEnd

(* A delimiter that is found lies within the text and starts with its      *)
(* first character.                                                        *)
LEMMA DelimiterFound ==
  ASSUME ParserTypes, AtDelimiter
  PROVE  /\ i + Len(del) \in 1..(Len(src) + 1)
         /\ src[i] = del[1] /\ ~AtEnd
<1>1. /\ del \in Seq(STRING) /\ Len(del) \in Nat \ {0}
      /\ Len(src) \in Nat /\ i \in Nat \ {0}
  BY DelimitersAssumption, LenProperties, EmptySeq DEF ParserTypes
<1>2. i + Len(del) - 1 <= Len(src) /\ SubSeq(src, i, i + Len(del) - 1) = del
  BY DEF AtDelimiter
<1>3. \A j \in i .. i + Len(del) - 1 : src[j] \in STRING
  BY <1>1, <1>2, ElementOfSeq DEF ParserTypes
<1>4. SubSeq(src, i, i + Len(del) - 1)[1] = src[i]
  <2>1. \A j \in 1 .. (i + Len(del) - 1) - i + 1 :
          SubSeq(src, i, i + Len(del) - 1)[j] = src[i + j - 1]
    BY <1>1, <1>3, SubSeqProperties
  <2>2. QED
    BY <1>1, <2>1
<1>5. QED
  BY <1>1, <1>2, <1>4 DEF AtEnd

(* Counting keeps the number of dimensions and the others.                 *)
LEMMA CountOne ==
  ASSUME ParserTypes, NEW d \in 1..Len(dims)
  PROVE  /\ Counted(d) \in Seq(Nat) /\ Len(Counted(d)) = Len(dims)
         /\ \A e \in 1..Len(dims) : Counted(d)[e] = IF e = d THEN dims[e] + 1 ELSE dims[e]
<1>1. dims \in Seq(Nat) /\ dims[d] + 1 \in Nat
  BY ElementOfSeq DEF ParserTypes
<1>2. Counted(d) = [dims EXCEPT ![d] = dims[d] + 1]
  BY DEF Counted
<1>3. QED
  BY <1>1, <1>2, ExceptSeq

(* A list of zeroes is a sequence.                                         *)
LEMMA Zeroes ==
  ASSUME NEW n \in Nat
  PROVE  /\ [d \in 1..n |-> 0] \in Seq(Nat) /\ Len([d \in 1..n |-> 0]) = n
OBVIOUS

-----------------------------------------------------------------------------
(* The invariant of the scanner, action by action. *)

(* Nothing has been read at the start.                                     *)
LEMMA InitKeepsInv == ParserInit => ParserInv /\ ElementsCounted
<1> SUFFICES ASSUME ParserInit PROVE ParserInv /\ ElementsCounted
  OBVIOUS
<1>1. <<>> \in Seq(STRING) /\ <<>> \in Seq(Nat) /\ <<>> \in Seq(Items) /\ Len(<<>>) = 0
  BY EmptySeq
<1>2. QED
  BY <1>1 DEF ParserInit, ParserInv, ParserTypes, DepthsCounted, ElementsCounted, Labels, Reading

(* A new text begins at its first bracket, or is refused.                  *)
LEMMA BeginKeepsInv == BeginAny => ParserInv' /\ ElementsCounted'
<1> SUFFICES ASSUME BeginAny PROVE ParserInv' /\ ElementsCounted'
  OBVIOUS
<1>1. <<>> \in Seq(STRING) /\ <<>> \in Seq(Nat) /\ <<>> \in Seq(Items) /\ Len(<<>>) = 0
  BY EmptySeq
<1>2. src' \in Seq(STRING) /\ del' \in Delimiters /\ Begin(src', del')
  BY DEF BeginAny
<1>3. Len(src') \in Nat /\ (src' # <<>> => Len(src') >= 1)
  BY <1>2, LenProperties, EmptySeq
<1>4. ParserTypes'
  BY <1>1, <1>2, <1>3 DEF Begin, ParserTypes, Labels, Label
<1>5. DepthsCounted'
  BY <1>1, <1>2, <1>3 DEF Begin, DepthsCounted, Reading, Label, At, AtEnd
<1>6. ElementsCounted'
  BY <1>1, <1>2 DEF Begin, ElementsCounted
<1>7. QED
  BY <1>4, <1>5, <1>6 DEF ParserInv

(* Open: the brackets counted so far are the depth.                        *)
LEMMA OpenKeepsInv == ParserInv /\ Open => ParserInv' /\ ElementsCounted'
<1> SUFFICES ASSUME ParserInv, Open PROVE ParserInv' /\ ElementsCounted'
  OBVIOUS
<1>1. /\ pc = "open" /\ depth = i - 1 /\ dims = <<>> /\ elems = <<>>
      /\ i = 1 => At(LeftBrace)
      /\ Len(src) \in Nat /\ i \in 1..(Len(src) + 1) /\ depth \in Nat
      /\ Len(<<>>) = 0 /\ UNCHANGED <<src, del, elems, elem, escape>>
  BY EmptySeq, LenProperties DEF ParserInv, ParserTypes, DepthsCounted, Open
<1>2. CASE At(LeftBrace) /\ i' = i + 1 /\ depth' = depth + 1 /\ UNCHANGED <<pc, dims>>
  BY <1>1, <1>2 DEF ParserInv, ParserTypes, DepthsCounted, ElementsCounted, Reading, At, AtEnd
<1>3. CASE At(RightBrace) /\ Label("close") /\ UNCHANGED <<i, depth, dims>>
  BY <1>1, <1>3
  DEF ParserInv, ParserTypes, DepthsCounted, ElementsCounted, Reading, Labels, Label
<1>4. CASE /\ ~At(LeftBrace) /\ ~At(RightBrace) /\ dims' = [d \in 1..(i - 1) |-> 0]
           /\ Label("element") /\ UNCHANGED <<i, depth>>
  <2>1. /\ i - 1 \in Nat \ {0} /\ dims' \in Seq(Nat) /\ Len(dims') = i - 1
        /\ \A d \in 1..(i - 1) : dims'[d] = 0
    BY <1>1, <1>4, Zeroes
  <2>2. ParserTypes'
    BY <1>1, <1>4, <2>1 DEF ParserInv, ParserTypes, Labels, Label
  <2>3. DepthsCounted'
    BY <1>1, <1>4, <2>1 DEF DepthsCounted, Reading, Label
  <2>4. ElementsCounted'
    BY <1>1, <1>4, <2>1 DEF ElementsCounted, Reading, Label
  <2>5. QED
    BY <2>2, <2>3, <2>4 DEF ParserInv
<1>5. QED
  BY <1>2, <1>3, <1>4 DEF Open

(* Nest: a deeper bracket sets its dimension to zero, which is now the     *)
(* current one; below the last dimension the bracket will be refused.      *)
LEMMA NestKeepsInv ==
  ParserInv /\ Nest => ParserInv' /\ (ElementsCounted => ElementsCounted')
<1> SUFFICES ASSUME ParserInv, Nest
             PROVE  ParserInv' /\ (ElementsCounted => ElementsCounted')
  OBVIOUS
<1>1. /\ pc = "element" /\ At(LeftBrace) /\ depth \in 1..Len(dims) /\ Len(dims) \in Nat
      /\ \A d \in 1..Len(dims) : d > depth => dims[d] > 0
      /\ UNCHANGED <<src, del, elems, elem, escape>>
  BY LenProperties DEF ParserInv, ParserTypes, DepthsCounted, Reading, Nest
<1>2. CASE depth = Len(dims)
  <2>1. pc' = "after" /\ UNCHANGED <<i, depth, dims>>
    BY <1>1, <1>2 DEF Nest, Label
  <2>2. QED
    BY <1>1, <1>2, <2>1
    DEF ParserInv, ParserTypes, DepthsCounted, ElementsCounted, Reading, Labels, At, AtEnd
<1>3. CASE depth # Len(dims)
  <2>1. /\ depth' = depth + 1 /\ dims' = [dims EXCEPT ![depth + 1] = 0] /\ i' = i + 1
        /\ pc' = pc /\ depth + 1 \in 1..Len(dims)
    BY <1>1, <1>3 DEF Nest
  <2>2. /\ dims' \in Seq(Nat) /\ Len(dims') = Len(dims)
        /\ \A d \in 1..Len(dims) : dims'[d] = IF d = depth + 1 THEN 0 ELSE dims[d]
    BY <2>1, ExceptSeq DEF ParserInv, ParserTypes
  <2>3. i + 1 \in 1..(Len(src) + 1)
    BY <1>1, CharIsString DEF ParserInv, At
  <2>4. ParserTypes'
    BY <1>1, <2>1, <2>2, <2>3 DEF ParserInv, ParserTypes
  <2>5. DepthsCounted'
    BY <1>1, <2>1, <2>2 DEF DepthsCounted, Reading, At, AtEnd
  <2>6. ElementsCounted'
    BY <1>1, <1>3, <2>1, <2>2 DEF ElementsCounted
  <2>7. QED
    BY <2>4, <2>5, <2>6 DEF ParserInv
<1>4. QED
  BY <1>2, <1>3

(* StartElement, Quoted and Plain without an element: neither dimensions   *)
(* nor elements change.                                                    *)
LEMMA ScanKeepsInv ==
  ASSUME ParserInv, pc \in Reading, pc' \in Reading \cup {"after"},
         UNCHANGED <<src, del, depth, dims, elems>>,
         i' \in 1..(Len(src) + 1), elem' \in Seq(STRING),
         pc' = "after" => AtEnd'
  PROVE  ParserInv' /\ (ElementsCounted => ElementsCounted')
<1>1. /\ Len(dims) \in Nat /\ depth \in 1..Len(dims)
      /\ \A d \in 1..Len(dims) : d > depth => dims[d] > 0
  BY LenProperties DEF ParserInv, ParserTypes, DepthsCounted
<1>2. ParserTypes'
  BY DEF ParserInv, ParserTypes, Reading, Labels
<1>3. DepthsCounted'
  <2>1. pc' \in {"element", "quoted", "plain", "after"} /\ UNCHANGED <<depth, dims>>
    BY DEF Reading
  <2>2. depth' \in 1..Len(dims') /\ (\A d \in 1..Len(dims') : d > depth' => dims'[d] > 0)
    BY <1>1, <2>1
  <2>3. pc' # "open" /\ pc' # "close" /\ depth' \in 0..Len(dims')
    BY <1>1, <2>1
  <2>4. QED
    BY <2>2, <2>3, Zenon DEF DepthsCounted
<1>4. ASSUME ElementsCounted PROVE ElementsCounted'
  BY <1>1, <1>4 DEF ElementsCounted, Reading, At, AtEnd
<1>5. QED
  BY <1>2, <1>3, <1>4 DEF ParserInv

(* The end of an element: there is one more, and the depth is positive.    *)
LEMMA ElementKeepsInv ==
  ASSUME ParserInv, pc \in Reading, pc' = "after", UNCHANGED <<src, del, depth, dims>>,
         i' \in 1..(Len(src) + 1), elem' \in Seq(STRING),
         NEW e \in Items, elems' = Append(elems, e)
  PROVE  ParserInv' /\ (ElementsCounted => ElementsCounted')
<1>1. elems' \in Seq(Items) /\ Len(elems') = Len(elems) + 1 /\ Len(elems) \in Nat
  BY AppendProperties, LenProperties DEF ParserInv, ParserTypes
<1>2. /\ Len(dims) \in Nat /\ depth \in 1..Len(dims)
      /\ \A d \in 1..Len(dims) : d > depth => dims[d] > 0
  BY LenProperties DEF ParserInv, ParserTypes, DepthsCounted
<1>3. ParserTypes'
  BY <1>1 DEF ParserInv, ParserTypes, Labels
<1>4. DepthsCounted'
  <2>1. depth' \in 0..Len(dims') /\ (\A d \in 1..Len(dims') : d > depth' => dims'[d] > 0)
    BY <1>2
  <2>2. pc' # "open" /\ pc' # "close" /\ pc' \notin Reading
    BY DEF Reading
  <2>3. QED
    BY <2>1, <2>2, Zenon DEF DepthsCounted
<1>5. ASSUME ElementsCounted PROVE ElementsCounted'
  <2>1. Len(dims) = 1 => dims'[1] + 1 = Len(elems')
    BY <1>1, <1>5 DEF ElementsCounted
  <2>2. Len(dims) = 1 => depth' = 1 /\ 1 # 0
    BY <1>2
  <2>3. pc' = "after" /\ pc' # "parsed" /\ pc' \notin Reading /\ dims' = dims
    BY DEF Reading
  <2>4. QED
    BY <2>1, <2>2, <2>3, Zenon DEF ElementsCounted
<1>6. QED
  BY <1>3, <1>4, <1>5 DEF ParserInv

(* StartElement reads nothing but a quote.                                 *)
LEMMA StartElementKeepsInv ==
  ParserInv /\ StartElement => ParserInv' /\ (ElementsCounted => ElementsCounted')
<1> SUFFICES ASSUME ParserInv, StartElement
             PROVE  ParserInv' /\ (ElementsCounted => ElementsCounted')
  OBVIOUS
<1>1. /\ pc \in Reading /\ pc' \in Reading \cup {"after"}
      /\ UNCHANGED <<src, del, depth, dims, elems>>
      /\ elem' = <<>> /\ <<>> \in Seq(STRING)
      /\ i' = i \/ (At(Quote) /\ i' = i + 1)
      /\ pc' = "after" => AtEnd /\ i' = i
  BY EmptySeq DEF StartElement, Label, Reading
<1>2. i' \in 1..(Len(src) + 1) /\ (pc' = "after" => AtEnd')
  BY <1>1, CharIsString DEF ParserInv, ParserTypes, At, AtEnd
<1>3. QED
  BY <1>1, <1>2, ScanKeepsInv

(* Quoted: only the closing quote adds an element.                         *)
LEMMA QuotedKeepsInv ==
  ParserInv /\ Quoted => ParserInv' /\ (ElementsCounted => ElementsCounted')
<1> SUFFICES ASSUME ParserInv, Quoted
             PROVE  ParserInv' /\ (ElementsCounted => ElementsCounted')
  OBVIOUS
<1>1. /\ pc = "quoted" /\ UNCHANGED <<src, del, depth, dims>>
      /\ elem \in Seq(STRING) /\ i \in 1..(Len(src) + 1) /\ Item(elem) \in Items
  BY DEF ParserInv, ParserTypes, Quoted, Items
<1>2. CASE AtEnd /\ Label("after") /\ UNCHANGED <<i, elem, elems>>
  BY <1>1, <1>2, ScanKeepsInv DEF Label, Reading, AtEnd
<1>3. CASE ~AtEnd /\ Take /\ i' = i + 1 /\ UNCHANGED pc
  BY <1>1, <1>3, CharIsString, AppendProperties, ScanKeepsInv DEF ParserInv, Take, Reading
<1>4. CASE At(Backslash) /\ i' = i + 1 /\ UNCHANGED <<pc, elem, elems>>
  BY <1>1, <1>4, CharIsString, ScanKeepsInv DEF ParserInv, At, Reading
<1>5. CASE /\ At(Quote) /\ elems' = Append(elems, Item(elem))
           /\ Label("after") /\ i' = i + 1 /\ UNCHANGED elem
  BY <1>1, <1>5, CharIsString, ElementKeepsInv DEF ParserInv, At, Label, Reading
<1>6. QED
  BY <1>2, <1>3, <1>4, <1>5 DEF Quoted

(* Plain: an element that ends is added, or the text is refused.           *)
LEMMA PlainKeepsInv ==
  ParserInv /\ Plain => ParserInv' /\ (ElementsCounted => ElementsCounted')
<1> SUFFICES ASSUME ParserInv, Plain
             PROVE  ParserInv' /\ (ElementsCounted => ElementsCounted')
  OBVIOUS
<1>1. /\ pc = "plain" /\ UNCHANGED <<src, del, depth, dims>>
      /\ elem \in Seq(STRING) /\ i \in 1..(Len(src) + 1)
      /\ Item(elem) \in Items /\ Null \in Items
  BY DEF ParserInv, ParserTypes, Plain, Items
<1>2. CASE AtEnd /\ Label("after") /\ UNCHANGED <<i, elem, elems>>
  BY <1>1, <1>2, ScanKeepsInv DEF Label, Reading, AtEnd
<1>3. CASE ~AtEnd /\ Take /\ i' = i + 1 /\ UNCHANGED pc
  BY <1>1, <1>3, CharIsString, AppendProperties, ScanKeepsInv DEF ParserInv, Take, Reading
<1>4. CASE /\ elem = <<>> /\ Label("failed") /\ UNCHANGED <<i, elem, elems>>
  BY <1>1, <1>4
  DEF ParserInv, ParserTypes, DepthsCounted, ElementsCounted, Reading, Labels, Label, At, AtEnd
<1>5. CASE /\ elems' = Append(elems, IF elem = <<"NULL">> THEN Null ELSE Item(elem))
           /\ Label("after") /\ UNCHANGED <<i, elem>>
  BY <1>1, <1>5, ElementKeepsInv DEF ParserInv, Label, Reading
<1>6. QED
  BY <1>2, <1>3, <1>4, <1>5 DEF Plain

(* After: the current dimension is counted before it is left.              *)
LEMMA AfterKeepsInv ==
  /\ ParserInv /\ After => ParserInv'
  /\ ParserInv /\ After /\ ElementsCounted
       /\ (\A d \in Delimiters : d[1] # LeftBrace) => ElementsCounted'
<1> SUFFICES ASSUME ParserInv, After
             PROVE  /\ ParserInv'
                    /\ ElementsCounted /\ (\A d \in Delimiters : d[1] # LeftBrace)
                         => ElementsCounted'
  OBVIOUS
<1>1. /\ pc = "after" /\ depth \in 0..Len(dims) /\ Len(dims) \in Nat /\ Len(elems) \in Nat
      /\ \A d \in 1..Len(dims) : dims[d] \in Nat /\ (d > depth => dims[d] > 0)
      /\ UNCHANGED <<src, del, elems, elem, escape>>
  BY LenProperties, ElementOfSeq DEF ParserInv, ParserTypes, DepthsCounted, After
<1>2. CASE /\ AtDelimiter /\ depth > 0 /\ dims' = Counted(depth) /\ i' = i + Len(del)
           /\ Label("element") /\ UNCHANGED depth
  <2>1. /\ depth \in 1..Len(dims) /\ dims' \in Seq(Nat) /\ Len(dims') = Len(dims)
        /\ \A e \in 1..Len(dims) : dims'[e] = IF e = depth THEN dims[e] + 1 ELSE dims[e]
    BY <1>1, <1>2, CountOne DEF ParserInv
  <2>2. i' \in 1..(Len(src) + 1) /\ src[i] = del[1] /\ ~AtEnd
    BY <1>2, DelimiterFound DEF ParserInv
  <2>3. pc' = "element"
    BY <1>2 DEF Label
  <2>4. ParserTypes'
    BY <1>1, <1>2, <2>1, <2>2, <2>3 DEF ParserInv, ParserTypes, Labels
  <2>5. DepthsCounted'
    BY <1>1, <1>2, <2>1, <2>3 DEF DepthsCounted, Reading, At, AtEnd
  <2>6. ASSUME ElementsCounted, \A d \in Delimiters : d[1] # LeftBrace
        PROVE  ElementsCounted'
    <3>1. ~At(LeftBrace) /\ ~AtEnd
      BY <2>2, <2>6 DEF ParserInv, ParserTypes, At
    <3>2. QED
      BY <1>1, <1>2, <2>1, <2>3, <2>6, <3>1 DEF ElementsCounted, Reading, At, AtEnd
  <2>7. QED
    BY <2>4, <2>5, <2>6 DEF ParserInv
<1>3. CASE /\ At(RightBrace) /\ depth > 0 /\ dims' = Counted(depth) /\ i' = i + 1
           /\ depth' = depth - 1 /\ UNCHANGED pc
  <2>1. /\ depth \in 1..Len(dims) /\ dims' \in Seq(Nat) /\ Len(dims') = Len(dims)
        /\ \A e \in 1..Len(dims) : dims'[e] = IF e = depth THEN dims[e] + 1 ELSE dims[e]
    BY <1>1, <1>3, CountOne DEF ParserInv
  <2>2. i' \in 1..(Len(src) + 1) /\ ~At(LeftBrace) /\ ~AtEnd
    <3>1. LeftBrace # RightBrace
      BY Zenon DEF LeftBrace, RightBrace
    <3>2. QED
      BY <1>3, <3>1, CharIsString DEF ParserInv, At
  <2>3. ParserTypes'
    BY <1>1, <1>3, <2>1, <2>2 DEF ParserInv, ParserTypes
  <2>4. DepthsCounted'
    <3>1. depth' \in 0..Len(dims') /\ (\A e \in 1..Len(dims') : e > depth' => dims'[e] > 0)
      <4>1. /\ depth \in Nat /\ Len(dims) \in Nat
            /\ \A e \in 1..Len(dims) : dims[e] \in Nat /\ (e > depth => dims[e] > 0)
        BY <1>1, LenProperties, ElementOfSeq DEF ParserInv, ParserTypes, DepthsCounted
      <4>2. \A e \in 1..Len(dims) : e > depth - 1 => dims'[e] > 0
        BY <2>1, <4>1
      <4>3. QED
        BY <1>3, <2>1, <4>1, <4>2
    <3>2. pc' # "open" /\ pc' # "close" /\ pc' \notin Reading
      BY <1>1, <1>3 DEF Reading
    <3>3. QED
      BY <3>1, <3>2, Zenon DEF DepthsCounted
  <2>5. ASSUME ElementsCounted PROVE ElementsCounted'
    BY <1>1, <1>3, <2>1, <2>2, <2>5 DEF ElementsCounted, Reading
  <2>6. QED
    BY <2>3, <2>4, <2>5 DEF ParserInv
<1>4. CASE (Label("failed") \/ (AtEnd /\ Label("close"))) /\ UNCHANGED <<i, depth, dims>>
  BY <1>1, <1>4
  DEF ParserInv, ParserTypes, DepthsCounted, ElementsCounted, Reading, Labels, Label, At, AtEnd
<1>5. QED
  BY <1>2, <1>3, <1>4 DEF After

(* Close: closing brackets of an empty array change no dimension; the text *)
(* is accepted at depth zero only.                                         *)
LEMMA CloseKeepsInv ==
  ParserInv /\ Close => ParserInv' /\ (ElementsCounted => ElementsCounted')
<1> SUFFICES ASSUME ParserInv, Close
             PROVE  ParserInv' /\ (ElementsCounted => ElementsCounted')
  OBVIOUS
<1>1. pc = "close" /\ UNCHANGED <<src, del, dims, elems, elem, escape>> /\ Len(<<>>) = 0
  BY EmptySeq DEF Close
<1>2. CASE At(RightBrace) /\ depth > 0 /\ depth' = depth - 1 /\ i' = i + 1 /\ UNCHANGED pc
  <2>1. ~AtEnd /\ i' \in 1..(Len(src) + 1) /\ dims = <<>>
    BY <1>1, <1>2, CharIsString DEF ParserInv, DepthsCounted, At
  <2>2. QED
    BY <1>1, <1>2, <2>1 DEF ParserInv, ParserTypes, DepthsCounted, ElementsCounted, Reading
<1>3. CASE (Label("failed") \/ (depth = 0 /\ Label("parsed"))) /\ UNCHANGED <<i, depth>>
  BY <1>1, <1>3
  DEF ParserInv, ParserTypes, DepthsCounted, ElementsCounted, Reading, Labels, Label
<1>4. QED
  BY <1>2, <1>3 DEF Close, Label

(* A step of something else leaves the scanner alone.                      *)
LEMMA StutterKeepsInv ==
  ParserInv /\ UNCHANGED parserVars => ParserInv' /\ (ElementsCounted => ElementsCounted')
BY DEF parserVars, locals, ParserInv, ParserTypes, DepthsCounted, ElementsCounted, At, AtEnd

-----------------------------------------------------------------------------
(* The types and the depths are an invariant, for every text: the position *)
(* stays within the text, and the dimensions below the depth are counted.  *)
THEOREM ParserInvHolds == ParserSpec => []ParserInv
<1>1. ParserInv /\ [BeginAny \/ Parse]_parserVars => ParserInv'
  BY BeginKeepsInv, OpenKeepsInv, NestKeepsInv, StartElementKeepsInv, QuotedKeepsInv,
     PlainKeepsInv, AfterKeepsInv, CloseKeepsInv, StutterKeepsInv
  DEF Parse
<1>2. QED
  BY <1>1, InitKeepsInv, PTL DEF ParserSpec

(* The last check of parseArray divides by no zero dimension: it never     *)
(* panics, whatever text it is given and whatever delimiter.               *)
THEOREM NeverDividesByZero == ParserSpec => []NoZeroDivisor
<1>1. ParserInv => NoZeroDivisor
  BY LenProperties, EmptySeq DEF ParserInv, ParserTypes, DepthsCounted, NoZeroDivisor
<1>2. QED
  BY <1>1, ParserInvHolds, PTL

(* In an array of one dimension the dimension is the number of elements,   *)
(* so the slice that GenericArray takes of them is in range, provided no   *)
(* delimiter starts with the opening bracket: with such a delimiter an     *)
(* element is lost between two counts.                                     *)
THEOREM CountsAgree ==
  ASSUME \A d \in Delimiters : d[1] # LeftBrace
  PROVE  ParserSpec => []SliceInRange
<1>1. ParserInv /\ ElementsCounted /\ [BeginAny \/ Parse]_parserVars => ElementsCounted'
  BY BeginKeepsInv, OpenKeepsInv, NestKeepsInv, StartElementKeepsInv, QuotedKeepsInv,
     PlainKeepsInv, AfterKeepsInv, CloseKeepsInv, StutterKeepsInv
  DEF Parse
<1>2. ElementsCounted => SliceInRange
  BY DEF ElementsCounted, SliceInRange
<1>3. QED
  BY <1>1, <1>2, InitKeepsInv, ParserInvHolds, PTL DEF ParserSpec

-----------------------------------------------------------------------------
(* Recursion: a function defined by what it is at smaller arguments.       *)

(* Of numbers there is a smallest.                                         *)
LEMMA SmallestOf ==
  ASSUME NEW S, S \subseteq Nat, S # {}
  PROVE  \E m \in S : \A k \in S : m <= k
<1>1. PICK n \in S : TRUE
  OBVIOUS
<1> DEFINE T == {0..k : k \in {j \in S : j <= n}}
<1>2. /\ IsFiniteSet(0..n) /\ T \subseteq SUBSET (0..n) /\ T # {}
  <2>1. IsFiniteSet(0..n)
    BY FS_Interval
  <2>2. QED
    BY <1>1, <2>1
<1>3. IsWellFoundedOn(StrictSubsetOrdering(0..n), SUBSET (0..n))
  BY <1>2, FS_FiniteSubsetsOfFinite, FS_StrictSubsetOrderingWellFounded
<1>4. PICK P \in T : \A R \in T : ~(<<R, P>> \in StrictSubsetOrdering(0..n))
  <2> HIDE DEF T
  <2>1. QED
    BY <1>2, <1>3, WFMin
<1>5. PICK m \in S : m <= n /\ P = 0..m
  BY <1>4
<1>6. ASSUME NEW k \in S, k < m PROVE FALSE
  <2>1. 0..k \in T /\ 0..k \subseteq P /\ 0..k # P /\ P \in SUBSET (0..n) /\ 0..k \in SUBSET (0..n)
    <3>1. k \in Nat /\ m \in Nat /\ n \in Nat
      BY <1>1, <1>5, <1>6
    <3>2. m \in P /\ m \notin 0..k
      BY <1>5, <1>6, <3>1
    <3>3. QED
      BY <1>5, <1>6, <3>1, <3>2
  <2>2. <<0..k, P>> \in StrictSubsetOrdering(0..n)
    BY <2>1 DEF StrictSubsetOrdering
  <2>3. QED
    BY <1>4, <2>1, <2>2
<1>7. \A k \in S : m <= k
  BY <1>5, <1>6
<1>8. QED
  BY <1>7

(* g is what step makes of it, at the arguments ranked below n.            *)
Upto(n, D, C, rank, step, g) ==
  /\ g \in [D -> C]
  /\ \A v \in D : rank[v] < n => g[v] = step[<<v, g>>]

(* A step that looks only at arguments of a smaller rank.                  *)
Descends(D, C, rank, step) ==
  /\ C # {} /\ rank \in [D -> Nat] /\ step \in [D \X [D -> C] -> C]
  /\ \A v \in D : \A g, h \in [D -> C] :
       (\A w \in D : rank[w] < rank[v] => g[w] = h[w]) => step[<<v, g>>] = step[<<v, h>>]

LEMMA UptoAgree ==
  ASSUME NEW D, NEW C, NEW rank, NEW step, Descends(D, C, rank, step), NEW m \in Nat, NEW n \in Nat,
         NEW g, Upto(m, D, C, rank, step, g), NEW h, Upto(n, D, C, rank, step, h)
  PROVE  \A v \in D : rank[v] < m /\ rank[v] < n => g[v] = h[v]
<1> DEFINE S == {rank[v] : v \in {u \in D : rank[u] < m /\ rank[u] < n /\ g[u] # h[u]}}
<1>1. SUFFICES ASSUME S # {} PROVE FALSE
  OBVIOUS
<1>2. S \subseteq Nat
  BY DEF Descends
<1> HIDE DEF S
<1>3. PICK k \in S : \A j \in S : k <= j
  BY <1>1, <1>2, SmallestOf
<1> USE DEF S
<1>4. PICK v \in D : rank[v] = k /\ rank[v] < m /\ rank[v] < n /\ g[v] # h[v]
  BY <1>3
<1>5. ASSUME NEW w \in D, rank[w] < rank[v] PROVE g[w] = h[w]
  <2>1. rank[w] \in Nat /\ rank[v] \in Nat
    BY DEF Descends
  <2>2. rank[w] \notin S /\ rank[w] < m /\ rank[w] < n
    BY <1>2, <1>3, <1>4, <1>5, <2>1
  <2>3. QED
    BY <2>2
<1>6. step[<<v, g>>] = step[<<v, h>>]
  BY <1>5 DEF Descends, Upto
<1>7. QED
  BY <1>4, <1>6 DEF Upto

LEMMA UptoExists ==
  ASSUME NEW D, NEW C, NEW rank, NEW step, Descends(D, C, rank, step)
  PROVE  \A n \in Nat : \E g : Upto(n, D, C, rank, step, g)
<1> DEFINE S == {n \in Nat : ~\E g : Upto(n, D, C, rank, step, g)}
<1>1. SUFFICES ASSUME S # {} PROVE FALSE
  OBVIOUS
<1>2. S \subseteq Nat
  OBVIOUS
<1> HIDE DEF S
<1>3. PICK n \in S : \A k \in S : n <= k
  BY <1>1, <1>2, SmallestOf
<1> USE DEF S
<1>4. CASE n = 0
  <2>1. PICK c \in C : TRUE
    BY DEF Descends
  <2> DEFINE g == [v \in D |-> c]
  <2>2. g \in [D -> C] /\ \A v \in D : rank[v] \in Nat
    BY <2>1 DEF Descends
  <2>3. Upto(0, D, C, rank, step, g)
    BY <2>2 DEF Upto
  <2>4. QED
    BY <1>4, <2>3
<1>5. CASE n > 0
  <2>1. n - 1 \in Nat /\ n - 1 \notin S
    BY <1>2, <1>3, <1>5
  <2>2. PICK g : Upto(n - 1, D, C, rank, step, g)
    BY <2>1
  <2> DEFINE h == [v \in D |-> step[<<v, g>>]]
  <2>3. g \in [D -> C] /\ h \in [D -> C]
    BY <2>2 DEF Upto, Descends
  <2>4. ASSUME NEW v \in D, rank[v] < n PROVE h[v] = step[<<v, h>>]
    <3>1. ASSUME NEW w \in D, rank[w] < rank[v] PROVE g[w] = h[w]
      <4>1. rank[w] \in Nat /\ rank[v] \in Nat
        BY DEF Descends
      <4>2. rank[w] < n - 1
        BY <1>2, <2>4, <3>1, <4>1
      <4>3. QED
        BY <2>2, <4>2 DEF Upto
    <3>2. step[<<v, g>>] = step[<<v, h>>]
      <4> HIDE DEF h
      <4>1. QED
        BY <2>3, <3>1 DEF Descends
    <3>3. QED
      BY <3>2
  <2>5. Upto(n, D, C, rank, step, h)
    <3> HIDE DEF h
    <3>1. QED
      BY <2>3, <2>4 DEF Upto
  <2>6. QED
    BY <2>5
<1>6. QED
  BY <1>2, <1>3, <1>4, <1>5

(* Such a recursion defines a function.                                    *)
LEMMA RecursionExists ==
  ASSUME NEW D, NEW C, NEW rank, NEW step, Descends(D, C, rank, step)
  PROVE  \E f \in [D -> C] : \A v \in D : f[v] = step[<<v, f>>]
<1> DEFINE Of(v) == CHOOSE g : Upto(rank[v] + 1, D, C, rank, step, g)
           f == [v \in D |-> Of(v)[v]]
<1>1. ASSUME NEW v \in D PROVE rank[v] \in Nat /\ Upto(rank[v] + 1, D, C, rank, step, Of(v))
  <2>1. rank[v] \in Nat
    BY DEF Descends
  <2>2. \E g : Upto(rank[v] + 1, D, C, rank, step, g)
    BY <2>1, UptoExists
  <2>3. QED
    BY <2>1, <2>2
<1> HIDE DEF Of
<1>2. f \in [D -> C]
  BY <1>1 DEF Upto
<1>3. ASSUME NEW v \in D PROVE f[v] = step[<<v, f>>]
  <2>1. ASSUME NEW w \in D, rank[w] < rank[v] PROVE Of(v)[w] = f[w]
    <3>1. rank[w] < rank[v] + 1 /\ rank[w] < rank[w] + 1 /\ rank[v] + 1 \in Nat /\ rank[w] + 1 \in Nat
      BY <1>1, <2>1
    <3>2. Of(v)[w] = Of(w)[w]
      BY <1>1, <3>1, UptoAgree
    <3>3. QED
      BY <3>2
  <2>2. Of(v) \in [D -> C] /\ Of(v)[v] = step[<<v, Of(v)>>]
    BY <1>1 DEF Upto
  <2>3. step[<<v, Of(v)>>] = step[<<v, f>>]
    <3> HIDE DEF f
    <3>1. QED
      BY <1>2, <2>1, <2>2 DEF Descends
  <2>4. QED
    BY <2>2, <2>3
<1>4. QED
  BY <1>2, <1>3

(* Flattening joins one sequence after the other to those before it.       *)
LEMMA FlattenSteps ==
  ASSUME NEW A, NEW s \in Seq(Seq(A)), Len(s) # 0
  PROVE  \E flat \in [1..Len(s) -> Seq(A)] :
           /\ FlattenSeq(s) = flat[Len(s)]
           /\ \A k \in 1..Len(s) : flat[k] = IF k = 1 THEN s[k] ELSE flat[k - 1] \o s[k]
<1>1. Len(s) \in Nat /\ \A k \in 1..Len(s) : s[k] \in Seq(A)
  BY LenProperties, ElementOfSeq
<1> DEFINE D == 1..Len(s)
           C == Seq(A)
           Joined(k, g) == IF k = 1 THEN s[k] ELSE g[k - 1] \o s[k]
           rank == [k \in D |-> k]
           step == [p \in D \X [D -> C] |-> Joined(p[1], p[2])]
<1>2. ASSUME NEW k \in D, NEW g \in [D -> C] PROVE Joined(k, g) \in C
  <2>1. CASE k = 1
    BY <1>1, <2>1
  <2>2. CASE k # 1
    <3>1. k - 1 \in 1..Len(s)
      BY <1>1, <2>2
    <3>2. g[k - 1] \in Seq(A) /\ s[k] \in Seq(A)
      BY <1>1, <3>1
    <3>3. g[k - 1] \o s[k] \in Seq(A)
      BY <3>2
    <3>4. QED
      BY <2>2, <3>3
  <2>3. QED
    BY <2>1, <2>2
<1>3. ASSUME NEW k \in D, NEW g \in [D -> C], NEW h \in [D -> C],
             \A w \in D : rank[w] < rank[k] => g[w] = h[w]
      PROVE  Joined(k, g) = Joined(k, h)
  <2>1. CASE k = 1
    BY <2>1
  <2>2. CASE k # 1
    <3>1. k - 1 \in D /\ rank[k - 1] < rank[k]
      BY <1>1, <2>2
    <3>2. QED
      BY <1>3, <3>1
  <2>3. QED
    BY <2>1, <2>2
<1>4. ASSUME NEW k \in D, NEW g \in [D -> C] PROVE step[<<k, g>>] = Joined(k, g)
  BY <1>4
<1>5. step \in [D \X [D -> C] -> C]
  <2>1. \A p \in D \X [D -> C] : Joined(p[1], p[2]) \in C
    <3> HIDE DEF Joined, D, C
    <3>1. QED
      BY <1>2
  <2>2. QED
    BY <2>1
<1>6. <<>> \in C /\ rank \in [D -> Nat]
  BY <1>1
<1>7. Descends(D, C, rank, step)
  <2> HIDE DEF D, C, Joined, rank, step
  <2>1. ASSUME NEW k \in D, NEW g \in [D -> C], NEW h \in [D -> C],
               \A w \in D : rank[w] < rank[k] => g[w] = h[w]
        PROVE  step[<<k, g>>] = step[<<k, h>>]
    <3>1. Joined(k, g) = Joined(k, h)
      BY <1>3, <2>1
    <3>2. step[<<k, g>>] = Joined(k, g) /\ step[<<k, h>>] = Joined(k, h)
      BY <1>4
    <3>3. QED
      BY <3>1, <3>2
  <2>2. QED
    BY <1>5, <1>6, <2>1 DEF Descends
<1>8. PICK f \in [D -> C] : \A v \in D : f[v] = step[<<v, f>>]
  <2> HIDE DEF D, C, Joined, rank, step
  <2>1. QED
    BY <1>7, RecursionExists
<1>9. f = [k \in D |-> Joined(k, f)]
  <2> HIDE DEF D, C, Joined, rank, step
  <2>1. QED
    BY <1>4, <1>8
<1> DEFINE flat == CHOOSE g : g = [k \in D |-> Joined(k, g)]
<1>10. flat = [k \in D |-> Joined(k, flat)]
  <2> HIDE DEF D, Joined
  <2>1. QED
    BY <1>9
<1>11. FlattenSeq(s) = flat[Len(s)]
  BY Zenon DEF FlattenSeq
<1>12. \A k \in D : flat[k] = Joined(k, flat)
  <2> HIDE DEF flat, Joined
  <2>1. QED
    BY <1>10
<1> HIDE DEF flat
<1>13. \A k \in D : flat[k] \in C
  <2> DEFINE S == {k \in D : flat[k] \notin C}
  <2>1. SUFFICES ASSUME S # {} PROVE FALSE
    OBVIOUS
  <2>2. S \subseteq Nat
    OBVIOUS
  <2>3. PICK m \in S : \A k \in S : m <= k
    <3> HIDE DEF S
    <3>1. QED
      BY <2>1, <2>2, SmallestOf
  <2>4. CASE m = 1
    BY <1>1, <1>12, <2>4
  <2>5. CASE m # 1
    <3>1. m \in D /\ m - 1 \in D /\ m - 1 \notin S
      BY <1>1, <2>2, <2>3, <2>5
    <3>2. flat[m - 1] \in Seq(A) /\ s[m] \in Seq(A)
      BY <1>1, <3>1
    <3>3. flat[m - 1] \o s[m] \in Seq(A)
      BY <3>2
    <3>4. flat[m] = flat[m - 1] \o s[m]
      BY <1>12, <2>5, <3>1
    <3>5. QED
      BY <3>3, <3>4
  <2>6. QED
    BY <2>4, <2>5
<1>14. flat \in [D -> C]
  <2> HIDE DEF C, Joined
  <2>1. QED
    BY <1>10, <1>13
<1>15. QED
  BY <1>11, <1>12, <1>14

(* What flattens a sequence of texts is a text.                            *)
LEMMA FlattenIsSeq ==
  ASSUME NEW A, NEW s \in Seq(Seq(A))
  PROVE  FlattenSeq(s) \in Seq(A)
<1>1. CASE Len(s) = 0
  <2>1. s = <<>>
    BY <1>1, EmptySeq
  <2>2. QED
    BY <1>1, <2>1 DEF FlattenSeq
<1>2. CASE Len(s) # 0
  <2>1. Len(s) \in 1..Len(s)
    BY <1>2, LenProperties
  <2>2. QED
    BY <1>2, <2>1, FlattenSteps
<1>3. QED
  BY <1>1, <1>2

-----------------------------------------------------------------------------
(* What the writers of a column write is text. *)

LEMMA SpecialsAreStrings ==
  /\ LeftBrace \in STRING /\ RightBrace \in STRING
  /\ Quote \in STRING /\ Backslash \in STRING
BY LiteralAssumption

LEMMA ListIsSeq ==
  ASSUME NEW C, NEW n \in Nat, NEW f \in [1..n -> C]
  PROVE  f \in Seq(C)
OBVIOUS

LEMMA OneIsSeq ==
  ASSUME NEW C, NEW x \in C
  PROVE  <<x>> \in Seq(C)
OBVIOUS

LEMMA TwoAreSeq ==
  ASSUME NEW C, NEW x \in C, NEW y \in C
  PROVE  <<x, y>> \in Seq(C)
OBVIOUS

LEMMA FourAreSeq ==
  ASSUME NEW C, NEW w \in C, NEW x \in C, NEW y \in C, NEW z \in C
  PROVE  <<w, x, y, z>> \in Seq(C)
OBVIOUS

LEMMA QuotedIsText ==
  ASSUME NEW v \in Seq(STRING)
  PROVE  AppendArrayQuotedBytes(v) \in Seq(STRING)
<1> DEFINE Escape(c) == IF c \in {Quote, Backslash} THEN <<Backslash, c>> ELSE <<c>>
           escaped == [k \in DOMAIN v |-> Escape(v[k])]
<1>1. ASSUME NEW c \in STRING PROVE Escape(c) \in Seq(STRING)
  <2>1. <<Backslash, c>> \in Seq(STRING) /\ <<c>> \in Seq(STRING)
    BY SpecialsAreStrings, OneIsSeq, TwoAreSeq, Zenon
  <2>2. QED
    BY <2>1, Zenon
<1>2. escaped \in [1..Len(v) -> Seq(STRING)] /\ Len(v) \in Nat
  <2> HIDE DEF Escape
  <2>1. DOMAIN v = 1..Len(v) /\ Len(v) \in Nat /\ \A k \in DOMAIN v : v[k] \in STRING
    BY LenProperties, ElementOfSeq
  <2>2. QED
    BY <1>1, <2>1
<1>3. FlattenSeq(escaped) \in Seq(STRING)
  <2> HIDE DEF escaped
  <2>1. escaped \in Seq(Seq(STRING))
    BY <1>2, ListIsSeq
  <2>2. QED
    BY <2>1, FlattenIsSeq
<1>4. AppendArrayQuotedBytes(v) = <<Quote>> \o FlattenSeq(escaped) \o <<Quote>>
  BY Zenon DEF AppendArrayQuotedBytes
<1>5. QED
  <2> HIDE DEF escaped
  <2>1. <<Quote>> \in Seq(STRING)
    BY SpecialsAreStrings, OneIsSeq, Zenon
  <2>2. <<Quote>> \o FlattenSeq(escaped) \in Seq(STRING)
    BY <1>3, <2>1
  <2>3. (<<Quote>> \o FlattenSeq(escaped)) \o <<Quote>> \in Seq(STRING)
    BY <2>1, <2>2
  <2>4. QED
    BY <1>4, <2>3, Zenon

LEMMA BracesAreText ==
  ASSUME NEW pieces \in Seq(Seq(STRING)), NEW delimiter \in Seq(STRING)
  PROVE  Braces(pieces, delimiter) \in Seq(STRING)
<1> DEFINE joined == [k \in DOMAIN pieces |-> (IF k = 1 THEN <<>> ELSE delimiter) \o pieces[k]]
<1>1. DOMAIN pieces = 1..Len(pieces) /\ Len(pieces) \in Nat /\ \A k \in DOMAIN pieces : pieces[k] \in Seq(STRING)
  BY LenProperties, ElementOfSeq
<1>2. ASSUME NEW k \in DOMAIN pieces PROVE joined[k] \in Seq(STRING)
  <2>1. (IF k = 1 THEN <<>> ELSE delimiter) \in Seq(STRING)
    BY Zenon, EmptySeq
  <2>2. joined[k] = (IF k = 1 THEN <<>> ELSE delimiter) \o pieces[k]
    BY Zenon
  <2>3. QED
    BY <1>1, <2>1, <2>2
<1>3. joined \in [1..Len(pieces) -> Seq(STRING)]
  BY <1>1, <1>2
<1> HIDE DEF joined
<1>4. FlattenSeq(joined) \in Seq(STRING)
  <2>1. joined \in Seq(Seq(STRING))
    BY <1>1, <1>3, ListIsSeq
  <2>2. QED
    BY <2>1, FlattenIsSeq
<1>5. Braces(pieces, delimiter) = <<LeftBrace>> \o FlattenSeq(joined) \o <<RightBrace>>
  BY Zenon DEF Braces, joined
<1>6. <<LeftBrace>> \in Seq(STRING) /\ <<RightBrace>> \in Seq(STRING)
  BY SpecialsAreStrings, OneIsSeq, Zenon
<1>7. <<LeftBrace>> \o FlattenSeq(joined) \in Seq(STRING)
  BY <1>4, <1>6
<1>8. (<<LeftBrace>> \o FlattenSeq(joined)) \o <<RightBrace>> \in Seq(STRING)
  BY <1>6, <1>7
<1>9. QED
  BY <1>5, <1>8, Zenon

(* A place of a byte has a digit. *)
LEMMA DigitsAreText ==
  ASSUME NEW b \in Nat, NEW base \in {8, 16}, NEW n \in Nat, NEW places \in [1..n -> Nat \ {0}]
  PROVE  DigitsOf(b, base, places) \in Seq(STRING)
<1>1. ASSUME NEW k \in 1..n PROVE Digits[((b \div places[k]) % base) + 1] \in STRING
  <2>1. \A d \in 1..16 : Digits[d] \in STRING
    <3>1. DOMAIN Digits = 1..16
      BY DEF Digits
    <3>2. QED
      BY <3>1, LiteralAssumption, Zenon
  <2>2. b \div places[k] \in Nat
    OBVIOUS
  <2>3. ((b \div places[k]) % base) + 1 \in 1..16
    <3> DEFINE q == b \div places[k]
    <3> HIDE DEF q
    <3>1. q \in Nat
      BY <2>2 DEF q
    <3>2. (q % 8) + 1 \in 1..16
      BY <3>1
    <3>3. (q % 16) + 1 \in 1..16
      BY <3>1
    <3>4. (q % base) + 1 \in 1..16
      BY <3>2, <3>3
    <3>5. QED
      BY <3>4 DEF q
  <2>4. QED
    BY <2>1, <2>3
<1>2. DigitsOf(b, base, places) \in [1..n -> STRING]
  BY <1>1 DEF DigitsOf
<1>3. QED
  BY <1>2, ListIsSeq

LEMMA HexIsText ==
  ASSUME NEW v \in Seq(0..255)
  PROVE  Hex(v) \in Seq(STRING)
<1> DEFINE digits == [k \in DOMAIN v |-> DigitsOf(v[k], 16, <<16, 1>>)]
<1>1. DOMAIN v = 1..Len(v) /\ Len(v) \in Nat /\ \A k \in DOMAIN v : v[k] \in 0..255
  <2>1. DOMAIN v = 1..Len(v) /\ Len(v) \in Nat
    BY LenProperties
  <2>2. QED
    BY <2>1, ElementOfSeq, Zenon
<1>2. ASSUME NEW b \in 0..255 PROVE DigitsOf(b, 16, <<16, 1>>) \in Seq(STRING)
  <2>1. <<16, 1>> \in [1..2 -> Nat \ {0}] /\ b \in Nat
    OBVIOUS
  <2>2. QED
    BY <2>1, DigitsAreText
<1>3. digits \in [1..Len(v) -> Seq(STRING)]
  BY <1>1, <1>2
<1>4. Hex(v) = FlattenSeq(digits)
  BY Zenon DEF Hex
<1> HIDE DEF digits
<1>5. digits \in Seq(Seq(STRING))
  BY <1>1, <1>3, ListIsSeq
<1>6. QED
  BY <1>4, <1>5, FlattenIsSeq

(* encodeBytea, in the format of either server.                            *)
LEMMA ByteaIsText ==
  ASSUME NEW v \in Seq(Bytes), NEW serverVersion
  PROVE  EncodeBytea(serverVersion, v) \in Seq(STRING)
<1>1. DOMAIN v = 1..Len(v) /\ Len(v) \in Nat /\ \A k \in DOMAIN v : v[k] \in Bytes
  BY LenProperties, ElementOfSeq
<1>2. v \in Seq(0..255)
  BY <1>1 DEF Bytes
<1> DEFINE Escape(b) == CASE b = Code[Backslash] -> <<Backslash, Backslash>>
                          [] b # Code[Backslash] /\ b \notin 32..126 ->
                               <<Backslash>> \o DigitsOf(b, 8, <<64, 8, 1>>)
                          [] OTHER -> <<CharOf(b)>>
           escaped == [k \in DOMAIN v |-> Escape(v[k])]
           hex == <<Backslash, "x">> \o Hex(v)
<1>3. ASSUME NEW b \in Bytes PROVE Escape(b) \in Seq(STRING)
  <2>1. <<Backslash, Backslash>> \in Seq(STRING) /\ <<Backslash>> \in Seq(STRING)
    BY SpecialsAreStrings, OneIsSeq, TwoAreSeq, Zenon
  <2>2. DigitsOf(b, 8, <<64, 8, 1>>) \in Seq(STRING)
    <3>1. <<64, 8, 1>> \in [1..3 -> Nat \ {0}] /\ b \in Nat
      BY DEF Bytes
    <3>2. QED
      BY <3>1, DigitsAreText
  <2>3. <<Backslash>> \o DigitsOf(b, 8, <<64, 8, 1>>) \in Seq(STRING)
    BY <2>1, <2>2
  <2>4. ASSUME b \in 32..126 PROVE <<CharOf(b)>> \in Seq(STRING)
    <3>1. \E c \in DOMAIN Code : Code[c] = b
      BY <2>4 DEF Bytes
    <3>2. CharOf(b) \in DOMAIN Code
      BY <3>1 DEF CharOf
    <3>3. CharOf(b) \in STRING
      BY <3>2, TextAssumption
    <3>4. QED
      BY <3>3, OneIsSeq
  <2>5. QED
    BY <2>1, <2>3, <2>4, Zenon
<1>4. FlattenSeq(escaped) \in Seq(STRING)
  <2> HIDE DEF Escape
  <2>1. escaped \in [1..Len(v) -> Seq(STRING)]
    BY <1>1, <1>3
  <2> HIDE DEF escaped
  <2>2. escaped \in Seq(Seq(STRING))
    BY <1>1, <2>1, ListIsSeq
  <2>3. QED
    BY <2>2, FlattenIsSeq
<1>5. hex \in Seq(STRING)
  <2>1. <<Backslash, "x">> \in Seq(STRING)
    <3>1. "x" \in STRING
      BY LiteralAssumption
    <3>2. QED
      BY <3>1, SpecialsAreStrings, TwoAreSeq, Zenon
  <2>2. QED
    BY <1>2, <2>1, HexIsText
<1>6. CASE serverVersion >= 90000
  BY <1>5, <1>6, SMT DEF EncodeBytea
<1>7. CASE ~(serverVersion >= 90000)
  BY <1>4, <1>7, SMT DEF EncodeBytea
<1>8. QED
  BY <1>6, <1>7

(* A column holds text, or nothing that is text.                           *)
HoldsText(c) == c.type = "text" => c.text \in Seq(STRING)

LEMMA ListsHoldText ==
  ASSUME NEW n \in Nat, NEW pieces \in [1..n -> Seq(STRING)], NEW nil,
         NEW c, c = IF nil THEN SqlNull ELSE Text(Braces(pieces, <<",">>))
  PROVE  HoldsText(c)
<1>1. Braces(pieces, <<",">>) \in Seq(STRING)
  <2>1. pieces \in Seq(Seq(STRING))
    BY ListIsSeq
  <2>2. "," \in STRING
    BY LiteralAssumption
  <2>3. <<",">> \in Seq(STRING)
    BY <2>2, OneIsSeq
  <2>4. QED
    BY <2>1, <2>3, BracesAreText
<1>2. SqlNull.type # "text"
  BY DEF SqlNull
<1>3. \A t : Text(t).text = t
  BY DEF Text
<1>4. CASE nil
  BY <1>2, <1>4 DEF HoldsText
<1>5. CASE ~nil
  BY <1>1, <1>3, <1>5 DEF HoldsText
<1>6. QED
  BY <1>4, <1>5

LEMMA NumeralIsString ==
  ASSUME NEW n \in Numbers
  PROVE  NumeralOf(n) \in STRING
<1>1. \E c \in DOMAIN Numerals : Numerals[c] = n
  BY DEF Numbers
<1>2. NumeralOf(n) \in DOMAIN Numerals
  BY <1>1 DEF NumeralOf
<1>3. QED
  BY <1>2, TextAssumption

(* The kinds with a writer of their own.                                   *)
LEMMA BoolHoldsText ==
  ASSUME NEW a, a.items \in Seq(BOOLEAN)
  PROVE  HoldsText(BoolValue(a))
<1> DEFINE Element(b) == <<IF b THEN "t" ELSE "f">>
           pieces == [k \in DOMAIN a.items |-> Element(a.items[k])]
<1>1. DOMAIN a.items = 1..Len(a.items) /\ Len(a.items) \in Nat
  BY LenProperties
<1>2. ASSUME NEW b PROVE Element(b) \in Seq(STRING)
  <2>1. "t" \in STRING /\ "f" \in STRING
    BY LiteralAssumption
  <2>2. (IF b THEN "t" ELSE "f") \in STRING
    BY <2>1, Zenon
  <2>3. QED
    BY <2>2, OneIsSeq
<1>3. pieces \in [1..Len(a.items) -> Seq(STRING)]
  <2> HIDE DEF Element
  <2>1. QED
    BY <1>1, <1>2
<1>4. BoolValue(a) = IF a.nil THEN SqlNull ELSE Text(Braces(pieces, <<",">>))
  BY Zenon DEF BoolValue, Written
<1> HIDE DEF pieces
<1>5. QED
  BY <1>1, <1>3, <1>4, ListsHoldText

LEMMA NumbersHoldText ==
  ASSUME NEW a, a.items \in Seq(Numbers)
  PROVE  /\ HoldsText(Float64Value(a)) /\ HoldsText(Float32Value(a))
         /\ HoldsText(Int64Value(a)) /\ HoldsText(Int32Value(a))
<1> DEFINE pieces == [k \in DOMAIN a.items |-> <<NumeralOf(a.items[k])>>]
           Numeric == IF a.nil THEN SqlNull ELSE Text(Braces(pieces, <<",">>))
<1>1. DOMAIN a.items = 1..Len(a.items) /\ Len(a.items) \in Nat /\ \A k \in DOMAIN a.items : a.items[k] \in Numbers
  BY LenProperties, ElementOfSeq
<1>2. ASSUME NEW n \in Numbers PROVE <<NumeralOf(n)>> \in Seq(STRING)
  BY NumeralIsString, OneIsSeq
<1>3. pieces \in [1..Len(a.items) -> Seq(STRING)]
  BY <1>1, <1>2
<1>4. Float64Value(a) = Numeric /\ Float32Value(a) = Numeric
  BY Zenon DEF Float64Value, Float32Value, Written
<1>5. Int64Value(a) = Numeric /\ Int32Value(a) = Numeric
  BY Zenon DEF Int64Value, Int32Value, Written
<1>6. HoldsText(Numeric)
  <2> HIDE DEF pieces
  <2>1. QED
    BY <1>1, <1>3, ListsHoldText
<1> HIDE DEF Numeric
<1>7. QED
  BY <1>4, <1>5, <1>6

LEMMA StringsHoldText ==
  ASSUME NEW a, a.items \in Seq(Seq(STRING))
  PROVE  HoldsText(StringValue(a))
<1> DEFINE pieces == [k \in DOMAIN a.items |-> AppendArrayQuotedBytes(a.items[k])]
<1>1. /\ DOMAIN a.items = 1..Len(a.items) /\ Len(a.items) \in Nat
      /\ \A k \in DOMAIN a.items : a.items[k] \in Seq(STRING)
  BY LenProperties, ElementOfSeq
<1>2. pieces \in [1..Len(a.items) -> Seq(STRING)]
  BY <1>1, QuotedIsText
<1>3. StringValue(a) = IF a.nil THEN SqlNull ELSE Text(Braces(pieces, <<",">>))
  BY Zenon DEF StringValue, Written
<1> HIDE DEF pieces
<1>4. QED
  BY <1>1, <1>2, <1>3, ListsHoldText

LEMMA BytesHoldText ==
  ASSUME NEW a, a.items \in Seq(Seq(Bytes))
  PROVE  HoldsText(ByteaValue(a))
<1> DEFINE Element(v) == <<Quote, Backslash, Backslash, "x">> \o Hex(v) \o <<Quote>>
           pieces == [k \in DOMAIN a.items |-> Element(a.items[k])]
<1>1. /\ DOMAIN a.items = 1..Len(a.items) /\ Len(a.items) \in Nat
      /\ \A k \in DOMAIN a.items : a.items[k] \in Seq(Bytes)
  BY LenProperties, ElementOfSeq
<1>2. ASSUME NEW v \in Seq(Bytes) PROVE Element(v) \in Seq(STRING)
  <2>1. v \in Seq(0..255)
    <3>1. DOMAIN v = 1..Len(v) /\ Len(v) \in Nat /\ \A k \in DOMAIN v : v[k] \in Bytes
      BY LenProperties, ElementOfSeq
    <3>2. QED
      BY <3>1 DEF Bytes
  <2>2. Hex(v) \in Seq(STRING)
    BY <2>1, HexIsText
  <2>3. "x" \in STRING
    BY LiteralAssumption
  <2>4. <<Quote, Backslash, Backslash, "x">> \in Seq(STRING) /\ <<Quote>> \in Seq(STRING)
    BY <2>3, SpecialsAreStrings, OneIsSeq, FourAreSeq, Zenon
  <2>5. <<Quote, Backslash, Backslash, "x">> \o Hex(v) \in Seq(STRING)
    BY <2>2, <2>4
  <2>6. (<<Quote, Backslash, Backslash, "x">> \o Hex(v)) \o <<Quote>> \in Seq(STRING)
    BY <2>4, <2>5
  <2>7. QED
    BY <2>6, Zenon
<1>3. pieces \in [1..Len(a.items) -> Seq(STRING)]
  <2> HIDE DEF Element
  <2>1. QED
    BY <1>1, <1>2
<1>4. ByteaValue(a) = IF a.nil THEN SqlNull ELSE Text(Braces(pieces, <<",">>))
  BY Zenon DEF ByteaValue, Written
<1> HIDE DEF pieces
<1>5. QED
  BY <1>1, <1>3, <1>4, ListsHoldText

(* Generic: what the two appending functions return for an element.        *)
Appending == [ok : BOOLEAN, text : Seq(STRING), del : Seq(STRING)]

LEMMA ArrayAppends ==
  ASSUME NEW n \in Nat \ {0}, NEW parts \in [1..n -> Appending]
  PROVE  AppendArray(parts) \in Appending
<1> DEFINE Piece(k) == (IF k = 1 THEN <<>> ELSE parts[k - 1].del) \o parts[k].text
           joined == [k \in DOMAIN parts |-> Piece(k)]
           fine == \A k \in DOMAIN parts : parts[k].ok
           whole == <<LeftBrace>> \o FlattenSeq(joined) \o <<RightBrace>>
<1>1. Len(parts) = n /\ DOMAIN parts = 1..n
  BY LenProperties, ListIsSeq
<1>2. \A k \in 1..n : parts[k].text \in Seq(STRING) /\ parts[k].del \in Seq(STRING)
  BY DEF Appending
<1>3. ASSUME NEW k \in 1..n PROVE Piece(k) \in Seq(STRING)
  <2>1. CASE k = 1
    <3>1. <<>> \in Seq(STRING)
      BY EmptySeq
    <3>2. <<>> \o parts[k].text \in Seq(STRING)
      BY <1>2, <3>1
    <3>3. QED
      BY <2>1, <3>2, Zenon
  <2>2. CASE k # 1
    <3>1. k - 1 \in 1..n
      BY <2>2
    <3>2. parts[k - 1].del \o parts[k].text \in Seq(STRING)
      BY <1>2, <3>1
    <3>3. QED
      BY <2>2, <3>2, Zenon
  <2>3. QED
    BY <2>1, <2>2
<1>4. FlattenSeq(joined) \in Seq(STRING)
  <2> HIDE DEF Piece
  <2>1. joined \in [1..n -> Seq(STRING)]
    BY <1>1, <1>3
  <2> HIDE DEF joined
  <2>2. joined \in Seq(Seq(STRING))
    BY <2>1, ListIsSeq
  <2>3. QED
    BY <2>2, FlattenIsSeq
<1>5. whole \in Seq(STRING)
  <2> HIDE DEF joined
  <2>1. <<LeftBrace>> \in Seq(STRING) /\ <<RightBrace>> \in Seq(STRING)
    BY SpecialsAreStrings, OneIsSeq, Zenon
  <2>2. <<LeftBrace>> \o FlattenSeq(joined) \in Seq(STRING)
    BY <1>4, <2>1
  <2>3. (<<LeftBrace>> \o FlattenSeq(joined)) \o <<RightBrace>> \in Seq(STRING)
    BY <2>1, <2>2
  <2>4. QED
    BY <2>3, Zenon
<1>6. AppendArray(parts) = [ok |-> fine, text |-> whole, del |-> parts[n].del]
  <2>1. AppendArray(parts) = [ok |-> fine, text |-> whole, del |-> parts[Len(parts)].del]
    BY Zenon DEF AppendArray
  <2>2. QED
    BY <1>1, <2>1, Zenon
<1>7. fine \in BOOLEAN /\ parts[n].del \in Seq(STRING)
  BY <1>2
<1> HIDE DEF whole, fine
<1>8. QED
  BY <1>5, <1>6, <1>7 DEF Appending

LEMMA TimeIsText ==
  ASSUME NEW limits, NEW t, FormatTimestamp(t) \in DOMAIN Stamps
  PROVE  FormatTS(limits, t) \in STRING
<1>1. Stamps[FormatTimestamp(t)] \in STRING
  BY TextAssumption
<1>2. Reached(limits, t) \in {"-infinity", "infinity", "none"}
  BY Zenon DEF Reached
<1>3. "-infinity" \in STRING /\ "infinity" \in STRING
  BY LiteralAssumption
<1>4. QED
  BY <1>1, <1>2, <1>3, Zenon DEF FormatTS

LEMMA ElementAppends ==
  ASSUME NEW limits, NEW v \in DOMAIN Nesting, NEW delimiter \in Seq(STRING),
         NEW n \in Nat, NEW parts \in [1..n -> Appending],
         "list" \in DOMAIN v => n = Len(v.list)
  PROVE  AppendArrayElement(limits, v, delimiter, parts) \in Appending
<1> DEFINE r == AppendArrayElement(limits, v, delimiter, parts)
           Leaf(text) == [ok |-> TRUE, text |-> text, del |-> delimiter]
<1>1. ASSUME NEW text \in Seq(STRING) PROVE Leaf(text) \in Appending
  BY DEF Appending
<1>2. <<>> \in Seq(STRING)
  BY EmptySeq
<1>3. CASE DOMAIN v = {"list"}
  <2>1. v.list \in Seq(DOMAIN Nesting) /\ n = Len(v.list)
    BY <1>3, NestingAssumption
  <2>2. CASE v.list # <<>>
    <3>1. n \in Nat \ {0}
      BY <2>1, <2>2, EmptySeq
    <3>2. r = AppendArray(parts)
      BY <1>3, <2>2 DEF AppendArrayElement
    <3>3. QED
      BY <3>1, <3>2, ArrayAppends
  <2>3. CASE v.list = <<>>
    <3>1. r = [ok |-> TRUE, text |-> <<>>, del |-> <<>>]
      BY <1>3, <2>3 DEF AppendArrayElement
    <3>2. QED
      BY <1>2, <3>1 DEF Appending
  <2>4. QED
    BY <2>2, <2>3
<1>4. CASE DOMAIN v = {"null"}
  <2>1. "NULL" \in STRING
    BY LiteralAssumption
  <2>2. r = Leaf(<<"NULL">>)
    BY <1>4 DEF AppendArrayElement
  <2>3. QED
    BY <1>1, <2>1, <2>2, OneIsSeq
<1>5. CASE DOMAIN v = {"str"}
  <2>1. AppendArrayQuotedBytes(v.str) \in Seq(STRING)
    BY <1>5, NestingAssumption, QuotedIsText
  <2>2. r = Leaf(AppendArrayQuotedBytes(v.str))
    BY <1>5 DEF AppendArrayElement
  <2>3. QED
    BY <1>1, <2>1, <2>2
<1>6. CASE DOMAIN v = {"opaque"}
  <2>1. r = [ok |-> FALSE, text |-> <<>>, del |-> delimiter]
    BY <1>6 DEF AppendArrayElement
  <2>2. QED
    BY <1>2, <2>1 DEF Appending
<1>7. ASSUME DOMAIN v \in {{"num"}, {"bool"}, {"time"}} PROVE r \in Appending
  <2>1. r = Leaf(Encode(limits, v))
    BY <1>7 DEF AppendArrayElement
  <2>2. CASE DOMAIN v = {"num"}
    <3>1. NumeralOf(v.num) \in STRING
      BY <2>2, NestingAssumption, NumeralIsString
    <3>2. Encode(limits, v) = <<NumeralOf(v.num)>>
      BY <2>2 DEF Encode
    <3>3. QED
      BY <1>1, <2>1, <3>1, <3>2, OneIsSeq
  <2>3. CASE DOMAIN v = {"bool"}
    <3>1. "true" \in STRING /\ "false" \in STRING
      BY LiteralAssumption
    <3>2. (IF v.bool THEN "true" ELSE "false") \in STRING
      BY <3>1, Zenon
    <3>3. Encode(limits, v) = <<IF v.bool THEN "true" ELSE "false">>
      BY <2>3 DEF Encode
    <3>4. QED
      BY <1>1, <2>1, <3>2, <3>3, OneIsSeq
  <2>4. CASE DOMAIN v = {"time"}
    <3>1. FormatTS(limits, v.time) \in STRING
      BY <2>4, NestingAssumption, TimeIsText
    <3>2. Encode(limits, v) = <<FormatTS(limits, v.time)>>
      BY <2>4 DEF Encode
    <3>3. QED
      BY <1>1, <2>1, <3>1, <3>2, OneIsSeq
  <2>5. QED
    BY <1>7, <2>2, <2>3, <2>4
<1>8. QED
  BY <1>3, <1>4, <1>5, <1>6, <1>7, NestingAssumption

(* The lists within a value are nested finitely, so the functions that     *)
(* call each other come to an end on each.                                 *)
PartsOf(v, g) == IF "list" \in DOMAIN v THEN [k \in DOMAIN v.list |-> g[v.list[k]]] ELSE <<>>

Appends(limits, delimiter, element) ==
  /\ \A v \in DOMAIN Nesting :
       /\ element[v] \in Appending
       /\ element[v] = AppendArrayElement(limits, v, delimiter, PartsOf(v, element))
  /\ \A vs : Appended(limits, vs, delimiter) = AppendArray([k \in DOMAIN vs |-> element[vs[k]]])

LEMMA ElementsAreAppended ==
  ASSUME NEW limits, NEW delimiter \in Seq(STRING)
  PROVE  \E element : Appends(limits, delimiter, element)
<1> DEFINE D == DOMAIN Nesting
           C == Appending
           Parts(v, g) == IF "list" \in DOMAIN v THEN [k \in DOMAIN v.list |-> g[v.list[k]]] ELSE <<>>
           Made(v, g) == AppendArrayElement(limits, v, delimiter, Parts(v, g))
           rank == [v \in D |-> Nesting[v]]
           step == [p \in D \X [D -> C] |-> Made(p[1], p[2])]
<1>1. ASSUME NEW v \in D, NEW g, \A k \in DOMAIN v.list : "list" \in DOMAIN v => g[v.list[k]] \in C
      PROVE  Made(v, g) \in C
  <2>1. CASE "list" \in DOMAIN v
    <3>1. v.list \in Seq(D)
      BY <2>1, NestingAssumption
    <3>2. Len(v.list) \in Nat /\ DOMAIN v.list = 1..Len(v.list)
      BY <3>1, LenProperties
    <3>3. Parts(v, g) \in [1..Len(v.list) -> Appending]
      BY <1>1, <2>1, <3>2
    <3>4. QED
      <4> HIDE DEF Parts
      <4>1. QED
        BY <3>2, <3>3, ElementAppends
  <2>2. CASE "list" \notin DOMAIN v
    <3>1. Parts(v, g) = <<>>
      BY <2>2, Zenon
    <3>2. <<>> \in [1..0 -> Appending]
      OBVIOUS
    <3>3. Parts(v, g) \in [1..0 -> Appending]
      BY <3>1, <3>2, Zenon
    <3>4. QED
      <4> HIDE DEF Parts
      <4>1. QED
        BY <2>2, <3>3, ElementAppends
  <2>3. QED
    BY <2>1, <2>2
<1>2. ASSUME NEW v \in D, "list" \in DOMAIN v, NEW k \in DOMAIN v.list
      PROVE  v.list[k] \in D /\ Nesting[v.list[k]] < Nesting[v]
  <2>1. v.list \in Seq(D) /\ Nesting[v.list[k]] < Nesting[v]
    BY <1>2, NestingAssumption
  <2>2. QED
    BY <1>2, <2>1, LenProperties, ElementOfSeq
<1>3. ASSUME NEW v \in D, NEW g \in [D -> C] PROVE Made(v, g) \in C
  <2>1. \A k \in DOMAIN v.list : "list" \in DOMAIN v => g[v.list[k]] \in C
    <3> HIDE DEF C
    <3>1. QED
      BY <1>2
  <2>2. QED
    <3> HIDE DEF Made, C, D
    <3>1. QED
      BY <1>1, <2>1
<1>4. ASSUME NEW v \in D, NEW g \in [D -> C], NEW h \in [D -> C],
             \A w \in D : rank[w] < rank[v] => g[w] = h[w]
      PROVE  Made(v, g) = Made(v, h)
  <2>1. Parts(v, g) = Parts(v, h)
    <3>1. CASE "list" \in DOMAIN v
      <4>1. \A k \in DOMAIN v.list : g[v.list[k]] = h[v.list[k]]
        BY <1>2, <1>4, <3>1
      <4>2. QED
        BY <3>1, <4>1
    <3>2. CASE "list" \notin DOMAIN v
      BY <3>2
    <3>3. QED
      BY <3>1, <3>2
  <2> HIDE DEF Parts
  <2>2. QED
    BY <2>1
<1>5. step \in [D \X [D -> C] -> C]
  <2>1. \A p \in D \X [D -> C] : Made(p[1], p[2]) \in C
    <3> HIDE DEF Made, D, C
    <3>1. QED
      BY <1>3
  <2> HIDE DEF Made
  <2>2. QED
    BY <2>1
<1>6. C # {} /\ rank \in [D -> Nat]
  <2>1. <<>> \in Seq(STRING)
    BY EmptySeq
  <2>2. [ok |-> TRUE, text |-> <<>>, del |-> <<>>] \in C
    BY <2>1 DEF Appending
  <2>3. QED
    BY <2>2, NestingAssumption
<1>7. ASSUME NEW v \in D, NEW g \in [D -> C] PROVE step[<<v, g>>] = Made(v, g)
  <2> HIDE DEF Made, D, C
  <2>1. QED
    BY <1>7
<1>8. Descends(D, C, rank, step)
  <2> HIDE DEF D, C, Made, rank, step
  <2>1. ASSUME NEW v \in D, NEW g \in [D -> C], NEW h \in [D -> C],
               \A w \in D : rank[w] < rank[v] => g[w] = h[w]
        PROVE  step[<<v, g>>] = step[<<v, h>>]
    BY <1>4, <1>7, <2>1
  <2>2. QED
    BY <1>5, <1>6, <2>1 DEF Descends
<1>9. \E f : f = [v \in D |-> Made(v, f)]
  <2> HIDE DEF D, C, Made, rank, step
  <2>1. PICK f \in [D -> C] : \A v \in D : f[v] = step[<<v, f>>]
    BY <1>8, RecursionExists
  <2>2. f = [v \in D |-> Made(v, f)]
    BY <1>7, <2>1
  <2>3. QED
    BY <2>2
<1> DEFINE element == CHOOSE f : f = [v \in D |-> Made(v, f)]
<1>10. element = [v \in D |-> Made(v, element)]
  <2> HIDE DEF D, Made
  <2>1. QED
    BY <1>9
<1>11. \A vs : Appended(limits, vs, delimiter) = AppendArray([k \in DOMAIN vs |-> element[vs[k]]])
  BY Zenon DEF Appended
<1>12. \A v \in D : element[v] = Made(v, element)
  <2> HIDE DEF element, Made
  <2>1. QED
    BY <1>10
<1> HIDE DEF element
<1> DEFINE S == {Nesting[v] : v \in {u \in D : element[u] \notin C}}
<1>13. S = {}
  <2> SUFFICES ASSUME S # {} PROVE FALSE
    OBVIOUS
  <2>1. S \subseteq Nat
    BY NestingAssumption
  <2>2. PICK m \in S : \A k \in S : m <= k
    <3> HIDE DEF S
    <3>1. QED
      BY <2>1, SmallestOf
  <2>3. PICK v \in D : Nesting[v] = m /\ element[v] \notin C
    BY <2>2
  <2>4. ASSUME NEW k \in DOMAIN v.list, "list" \in DOMAIN v PROVE element[v.list[k]] \in C
    <3>1. v.list[k] \in D /\ Nesting[v.list[k]] < m
      BY <1>2, <2>3, <2>4
    <3>2. Nesting[v.list[k]] \in Nat /\ m \in Nat
      BY <2>1, <2>2, <3>1, NestingAssumption
    <3>3. Nesting[v.list[k]] \notin S
      <4> HIDE DEF S
      <4>1. QED
        BY <2>2, <3>1, <3>2
    <3>4. QED
      <4> HIDE DEF C
      <4>1. QED
        BY <3>1, <3>3
  <2>5. Made(v, element) \in C
    <3> HIDE DEF Made, C
    <3>1. QED
      BY <1>1, <2>4
  <2>6. QED
    <3> HIDE DEF Made, C
    <3>1. QED
      BY <1>12, <2>3, <2>5
<1>14. \A v \in D : element[v] \in C
  <2> HIDE DEF C
  <2>1. QED
    BY <1>13
<1>15. \A v \in D : Made(v, element) = AppendArrayElement(limits, v, delimiter, PartsOf(v, element))
  BY Zenon DEF PartsOf
<1>16. QED
  <2> HIDE DEF C, Made
  <2>1. \A v \in D : /\ element[v] \in C
                      /\ element[v] = AppendArrayElement(limits, v, delimiter, PartsOf(v, element))
    BY <1>12, <1>14, <1>15, Zenon
  <2>2. Appends(limits, delimiter, element)
    BY <1>11, <2>1, Zenon DEF Appends, C
  <2>3. QED
    BY <2>2

LEMMA AppendedIsText ==
  ASSUME NEW limits, NEW vs \in Seq(DOMAIN Nesting), vs # <<>>, NEW delimiter \in Seq(STRING)
  PROVE  Appended(limits, vs, delimiter) \in Appending
<1>1. PICK element : Appends(limits, delimiter, element)
  BY ElementsAreAppended
<1>2. /\ \A v \in DOMAIN Nesting : element[v] \in Appending
      /\ Appended(limits, vs, delimiter) = AppendArray([k \in DOMAIN vs |-> element[vs[k]]])
  BY <1>1, Zenon DEF Appends
<1>3. Len(vs) \in Nat \ {0} /\ DOMAIN vs = 1..Len(vs) /\ \A k \in DOMAIN vs : vs[k] \in DOMAIN Nesting
  BY LenProperties, ElementOfSeq, EmptySeq
<1> DEFINE parts == [k \in DOMAIN vs |-> element[vs[k]]]
<1>4. parts \in [1..Len(vs) -> Appending]
  BY <1>2, <1>3
<1>5. QED
  <2> HIDE DEF parts
  <2>1. AppendArray(parts) \in Appending
    BY <1>3, <1>4, ArrayAppends
  <2>2. QED
    BY <1>2, <2>1, Zenon DEF parts

LEMMA GenericHoldsText ==
  ASSUME NEW limits, NEW a, a.items \in Seq(DOMAIN Nesting), NEW delimiter \in Seq(STRING)
  PROVE  HoldsText(GenericValue(limits, a, delimiter))
<1> DEFINE r == Appended(limits, a.items, delimiter)
<1>1. CASE a.nil
  <2>1. GenericValue(limits, a, delimiter) = SqlNull
    BY <1>1, Zenon DEF GenericValue
  <2>2. QED
    BY <2>1 DEF HoldsText, SqlNull
<1>2. CASE ~a.nil /\ a.items = <<>>
  <2>1. GenericValue(limits, a, delimiter) = Text(<<LeftBrace, RightBrace>>)
    BY <1>2, Zenon DEF GenericValue
  <2>2. <<LeftBrace, RightBrace>> \in Seq(STRING)
    BY SpecialsAreStrings, TwoAreSeq, Zenon
  <2>3. Text(<<LeftBrace, RightBrace>>).text = <<LeftBrace, RightBrace>>
    BY DEF Text
  <2>4. QED
    BY <2>1, <2>2, <2>3, Zenon DEF HoldsText
<1>3. CASE ~a.nil /\ a.items # <<>>
  <2>1. GenericValue(limits, a, delimiter) = IF r.ok THEN Text(r.text) ELSE [type |-> "error", text |-> r.text]
    BY <1>3, Zenon DEF GenericValue
  <2>2. r.text \in Seq(STRING)
    <3>1. r \in Appending
      <4> HIDE DEF r
      <4>1. QED
        BY <1>3, AppendedIsText DEF r
    <3>2. QED
      BY <3>1 DEF Appending
  <2> HIDE DEF r
  <2>3. QED
    BY <2>1, <2>2 DEF HoldsText, Text
<1>4. QED
  BY <1>1, <1>2, <1>3

LEMMA ItemsAreNumbers ==
  ASSUME NEW s, NEW S, S \subseteq Numbers, s \in Seq(S)
  PROVE  s \in Seq(Numbers)
<1>1. Len(s) \in Nat /\ s \in [1..Len(s) -> S]
  BY LenProperties, ElementOfSeq
<1>2. s \in [1..Len(s) -> Numbers]
  BY <1>1
<1>3. QED
  BY <1>1, <1>2, ListIsSeq

(* Every array that is stored is written as text.                          *)
LEMMA ValueHoldsText ==
  ASSUME NEW a \in Arrays, NEW delimiter \in Delimiters
  PROVE  HoldsText(Value(Array(a.type), a.value, delimiter))
<1> DEFINE k == Array(a.type)
           v == Value(k, a.value, delimiter)
           items == a.value.items
<1>1. items \in Seq(ElementsOf(a.type))
  BY ArraysAssumption
<1>2. CASE a.type = "[]bool"
  <2>1. items \in Seq(BOOLEAN) /\ v = BoolValue(a.value)
    BY <1>1, <1>2, Zenon DEF ElementsOf, Array, Value
  <2>2. QED
    BY <2>1, BoolHoldsText
<1>3. CASE a.type = "[]float64"
  <2>1. ElementsOf(a.type) = Numbers /\ k = "Float64"
    BY <1>3 DEF ElementsOf, Array
  <2>2. items \in Seq(Numbers) /\ v = Float64Value(a.value)
    BY <1>1, <2>1 DEF Value
  <2>3. QED
    BY <2>2, NumbersHoldText
<1>4. CASE a.type = "[]float32"
  <2>1. ElementsOf(a.type) \subseteq Numbers /\ k = "Float32"
    BY <1>4 DEF ElementsOf, Array
  <2>2. v = Float32Value(a.value)
    BY <2>1 DEF Value
  <2>3. items \in Seq(Numbers)
    BY <1>1, <2>1, ItemsAreNumbers
  <2>4. QED
    BY <2>2, <2>3, NumbersHoldText
<1>5. CASE a.type = "[]int64"
  <2>1. ElementsOf(a.type) = Int64s /\ k = "Int64"
    BY <1>5 DEF ElementsOf, Array
  <2>2. items \in Seq(Int64s) /\ v = Int64Value(a.value)
    BY <1>1, <2>1 DEF Value
  <2>3. items \in Seq(Numbers)
    BY <2>2, ItemsAreNumbers, TextAssumption DEF Numbers
  <2>4. QED
    BY <2>2, <2>3, NumbersHoldText
<1>6. CASE a.type = "[]int32"
  <2>1. ElementsOf(a.type) = Int32s /\ k = "Int32"
    BY <1>6 DEF ElementsOf, Array
  <2>2. items \in Seq(Int32s) /\ v = Int32Value(a.value)
    BY <1>1, <2>1 DEF Value
  <2>3. Int32s \subseteq Numbers
    BY TextAssumption DEF Numbers
  <2>4. items \in Seq(Numbers)
    BY <2>2, <2>3, ItemsAreNumbers
  <2>5. QED
    BY <2>2, <2>4, NumbersHoldText
<1>7. CASE a.type = "[]string"
  <2>1. ElementsOf(a.type) = Seq(STRING) /\ k = "String"
    BY <1>7 DEF ElementsOf, Array
  <2>2. items \in Seq(Seq(STRING)) /\ v = StringValue(a.value)
    BY <1>1, <2>1 DEF Value
  <2>3. QED
    BY <2>2, StringsHoldText
<1>8. CASE a.type = "[][]byte"
  <2>1. ElementsOf(a.type) = Seq(Bytes) /\ k = "Bytea"
    BY <1>8 DEF ElementsOf, Array
  <2>2. items \in Seq(Seq(Bytes)) /\ v = ByteaValue(a.value)
    BY <1>1, <2>1 DEF Value
  <2>3. QED
    BY <2>2, BytesHoldText
<1>9. CASE a.type \notin {"[]bool", "[]float64", "[]float32", "[]int64", "[]int32", "[]string", "[][]byte"}
  <2>1. ElementsOf(a.type) = DOMAIN Nesting /\ k = "Generic"
    BY <1>9 DEF ElementsOf, Array
  <2>2. items \in Seq(DOMAIN Nesting) /\ v = GenericValue(infinity, a.value, delimiter)
    BY <1>1, <2>1 DEF Value
  <2>3. delimiter \in Seq(STRING)
    BY DelimitersAssumption
  <2>4. QED
    BY <2>2, <2>3, GenericHoldsText
<1>10. QED
  BY <1>2, <1>3, <1>4, <1>5, <1>6, <1>7, <1>8, <1>9

(* What the server prints instead is text, too.                            *)
LEMMA ReprintedIsText ==
  ASSUME NEW serverVersion, Reprint(serverVersion), origin \in Arrays, kind = Array(origin.type)
  PROVE  HoldsText(column')
<1> DEFINE items == origin.value.items
           text(k) == IF kind = "String" THEN items[k] ELSE EncodeBytea(serverVersion, items[k])
           pieces == [k \in DOMAIN items |-> Printed(text(k), <<",">>)]
<1>1. items \in Seq(ElementsOf(origin.type))
  BY ArraysAssumption
<1>2. Len(items) \in Nat /\ DOMAIN items = 1..Len(items) /\ \A k \in DOMAIN items : items[k] \in ElementsOf(origin.type)
  BY <1>1, LenProperties, ElementOfSeq
<1>3. ASSUME NEW t \in Seq(STRING) PROVE Printed(t, <<",">>) \in Seq(STRING)
  BY QuotedIsText, Zenon DEF Printed
<1>4. ASSUME NEW k \in DOMAIN items PROVE text(k) \in Seq(STRING)
  <2>1. CASE kind = "String"
    <3>1. ElementsOf(origin.type) = Seq(STRING)
      BY <2>1 DEF Array, ElementsOf
    <3>2. QED
      BY <1>2, <2>1, <3>1
  <2>2. CASE kind = "Bytea"
    <3>1. ElementsOf(origin.type) = Seq(Bytes)
      BY <2>2 DEF Array, ElementsOf
    <3>2. EncodeBytea(serverVersion, items[k]) \in Seq(STRING)
      BY <1>2, <3>1, ByteaIsText
    <3>3. QED
      BY <2>2, <3>2
  <2>3. QED
    BY <2>1, <2>2 DEF Reprint
<1>5. pieces \in [1..Len(items) -> Seq(STRING)]
  <2> HIDE DEF text
  <2>1. QED
    BY <1>2, <1>3, <1>4
<1>6. column' = Text(Braces(pieces, <<",">>))
  BY Zenon DEF Reprint
<1> HIDE DEF pieces
<1>7. column' = IF FALSE THEN SqlNull ELSE Text(Braces(pieces, <<",">>))
  BY <1>6
<1>8. QED
  BY <1>2, <1>5, <1>7, ListsHoldText

-----------------------------------------------------------------------------
(* The scanner at work on a column of the database. *)

(* A step of the column that concerns the scanner gives it a text and one  *)
(* of the delimiters, or is one of its own.                                *)
LEMMA ColumnStep ==
  ASSUME ColumnIsText, del \in Delimiters, [Next]_vars
  PROVE  [BeginAny \/ Parse]_parserVars
<1>1. ASSUME Scan PROVE BeginAny \/ UNCHANGED parserVars
  <2>1. CASE UNCHANGED parserVars
    BY <2>1
  <2>2. CASE column.type = "text" /\ Begin(column.text, Separator)
    <3>1. column.text \in Seq(STRING) /\ Separator \in Delimiters
      BY <2>2, ColumnAssumption DEF ColumnIsText, Separator
    <3>2. src' = column.text /\ del' = Separator
      BY <2>2 DEF Begin
    <3>3. QED
      BY <2>2, <3>1, <3>2 DEF BeginAny
  <2>3. QED
    BY <1>1, <2>1, <2>2, Zenon DEF Scan
<1>2. ASSUME NEW a, Store(a) PROVE UNCHANGED parserVars
  BY <1>2 DEF Store
<1>3. ASSUME NEW l, Insert(l) PROVE UNCHANGED parserVars
  BY <1>3 DEF Insert
<1>4. ASSUME NEW v, Reprint(v) PROVE UNCHANGED parserVars
  BY <1>4 DEF Reprint
<1>5. ASSUME NEW m, NEW n, EnableInfinityTS(m, n) PROVE UNCHANGED parserVars
  BY <1>5 DEF EnableInfinityTS
<1>6. Assign \/ Done \/ UNCHANGED vars => UNCHANGED parserVars
  BY DEF Assign, Done, vars
<1>7. ParseStep => Parse
  BY DEF ParseStep
<1>8. QED
  BY <1>1, <1>2, <1>3, <1>4, <1>5, <1>6, <1>7 DEF Next

(* What is stored is one of the arrays, until something else is.           *)
ColumnInv ==
  /\ ColumnIsText /\ del \in Delimiters
  /\ result = "none" => origin.value.nil
  /\ ~origin.value.nil => origin \in Arrays /\ kind = Array(origin.type)

LEMMA ColumnInvStep ==
  ASSUME ColumnInv, [Next]_vars
  PROVE  ColumnInv'
<1>1. del' \in Delimiters
  <2>1. [BeginAny \/ Parse]_parserVars
    BY ColumnStep DEF ColumnInv
  <2>2. Parse => UNCHANGED del
    BY DEF Parse, Open, Nest, StartElement, Quoted, Plain, After, Close
  <2>3. QED
    BY <2>1, <2>2 DEF BeginAny, parserVars, ColumnInv
<1>2. ASSUME UNCHANGED <<column, origin, kind>>, result' = "none" => result = "none"
      PROVE  ColumnInv'
  BY <1>1, <1>2 DEF ColumnInv, ColumnIsText
<1>3. ASSUME NEW m, NEW n, EnableInfinityTS(m, n) PROVE ColumnInv'
  BY <1>2, <1>3 DEF EnableInfinityTS
<1>4. ASSUME NEW a \in Arrays, Store(a) PROVE ColumnInv'
  <2>1. HoldsText(Value(Array(a.type), a.value, del))
    BY ValueHoldsText DEF ColumnInv
  <2>2. /\ column' = Value(Array(a.type), a.value, del) /\ origin' = a
        /\ kind' = Array(a.type) /\ result' # "none"
    BY <1>4 DEF Store, Destination
  <2>3. ColumnIsText'
    BY <2>1, <2>2 DEF ColumnIsText, HoldsText
  <2>4. QED
    BY <1>1, <2>2, <2>3 DEF ColumnInv
<1>5. ASSUME NEW v, Reprint(v) PROVE ColumnInv'
  <2>1. origin \in Arrays /\ kind = Array(origin.type)
    BY <1>5 DEF Reprint, ColumnInv
  <2>2. HoldsText(column')
    BY <1>5, <2>1, ReprintedIsText
  <2>3. UNCHANGED <<origin, kind, result>>
    BY <1>5 DEF Reprint
  <2>4. ColumnIsText'
    BY <2>2 DEF ColumnIsText, HoldsText
  <2>5. QED
    BY <1>1, <2>3, <2>4 DEF ColumnInv
<1>6. ASSUME NEW l \in Literals, Insert(l) PROVE ColumnInv'
  <2>1. column' = l.column /\ UNCHANGED origin /\ result = "none" /\ result' = "stored"
    BY <1>6 DEF Insert
  <2>2. ColumnIsText'
    BY <2>1, ArraysAssumption DEF ColumnIsText
  <2>3. QED
    BY <1>1, <2>1, <2>2 DEF ColumnInv
<1>7. ASSUME Scan PROVE ColumnInv'
  <2>1. UNCHANGED <<column, origin, kind>> /\ result = "stored"
    BY <1>7, Zenon DEF Scan
  <2>2. UNCHANGED result \/ result' = "error" \/ result' = "ok"
    BY <1>7, Zenon DEF Scan
  <2>3. QED
    BY <1>2, <2>1, <2>2
<1>8. ASSUME Assign PROVE ColumnInv'
  <2>1. UNCHANGED <<column, origin, kind>> /\ result' # "none"
    BY <1>8 DEF Assign
  <2>2. QED
    BY <1>2, <2>1
<1>9. ParseStep \/ Done \/ UNCHANGED vars => ColumnInv'
  BY <1>2 DEF ParseStep, Done, vars
<1>10. QED
  BY <1>3, <1>4, <1>5, <1>6, <1>7, <1>8, <1>9 DEF Next

(* A column holds sequences of characters: every kind of array, nested to  *)
(* any depth, is written as one, and so is what the server prints.         *)
THEOREM ColumnsHoldText == Spec => []ColumnInv
<1>1. Init => ColumnInv
  BY DEF Init, ParserInit, ColumnInv, ColumnIsText, SqlNull, Nothing, Nil
<1>2. ColumnInv /\ [Next]_vars => ColumnInv'
  BY ColumnInvStep
<1>3. QED
  BY <1>1, <1>2, PTL DEF Spec

(* However a column is written and read, the scanner only ever does what   *)
(* ParserSpec allows, so what holds of the scanner holds of every column.  *)
THEOREM ColumnsAreScanned == Spec => ParserSpec
<1>1. Init => ParserInit
  BY DEF Init
<1>2. ColumnInv /\ [Next]_vars => [BeginAny \/ Parse]_parserVars
  BY ColumnStep DEF ColumnInv
<1>3. QED
  BY <1>1, <1>2, ColumnsHoldText, PTL DEF Spec, ParserSpec

(* So the reading of a column never divides by zero, and the slice that    *)
(* GenericArray takes of its elements is in range.                         *)
THEOREM ColumnsAreParsed ==
  ASSUME \A d \in Delimiters : d[1] # LeftBrace
  PROVE  Spec => []NoZeroDivisor /\ []SliceInRange
BY ColumnsAreScanned, NeverDividesByZero, CountsAgree, PTL

-----------------------------------------------------------------------------
(* What a scan leaves in its destination. *)

Kinds == {"Bool", "Bytea", "Float64", "Float32", "Int64", "Int32", "String", "Generic"}

LEMMA ArrayIsKind == ASSUME NEW goType PROVE Array(goType) \in Kinds
BY DEF Array, Kinds

(* A scan that fails returns the destination it was given; one that does   *)
(* not returns a list.                                                     *)
LEMMA ScannedOr ==
  ASSUME kind \in Kinds
  PROVE  \/ Scanned = [ok |-> FALSE, value |-> dest]
         \/ \E s : Scanned = [ok |-> TRUE, value |-> List(s)]
<1>1. ASSUME NEW s PROVE Ok(List(s)) = [ok |-> TRUE, value |-> List(s)]
  BY DEF Ok
<1>2. CASE pc = "failed" \/ (kind # "Generic" /\ Len(dims) > 1)
  BY <1>2 DEF Scanned
<1>3. CASE ~(pc = "failed" \/ (kind # "Generic" /\ Len(dims) > 1))
  <2>1. CASE kind = "Bool"
    BY <1>1, <1>3, <2>1 DEF Scanned, BoolScan, ScanElements
  <2>2. CASE kind = "Bytea"
    BY <1>1, <1>3, <2>2 DEF Scanned, ByteaScan, ScanElements
  <2>3. CASE kind = "Float64"
    BY <1>1, <1>3, <2>3 DEF Scanned, Float64Scan, ScanElements
  <2>4. CASE kind = "Float32"
    BY <1>1, <1>3, <2>4 DEF Scanned, Float32Scan, ScanElements
  <2>5. CASE kind = "Int64"
    BY <1>1, <1>3, <2>5 DEF Scanned, Int64Scan, ScanElements
  <2>6. CASE kind = "Int32"
    BY <1>1, <1>3, <2>6 DEF Scanned, Int32Scan, ScanElements
  <2>7. CASE kind = "String"
    BY <1>1, <1>3, <2>7 DEF Scanned, StringScan, ScanElements
  <2>8. CASE kind = "Generic"
    BY <1>1, <1>3, <2>8 DEF Scanned, GenericScan, ScanElements
  <2>9. QED
    BY <2>1, <2>2, <2>3, <2>4, <2>5, <2>6, <2>7, <2>8 DEF Kinds
<1>4. QED
  BY <1>2, <1>3

(* The destination is the earlier one until a scan has succeeded, and a    *)
(* column is only scanned into a destination of some kind.                 *)
DestinationKept ==
  /\ result \in {"none", "stored", "ok", "error", "panic"}
  /\ result # "ok" => dest = Earlier
  /\ result = "stored" => kind \in Kinds
  /\ dest.nil => dest.items = <<>>

LEMMA DestinationStep ==
  ASSUME DestinationKept, [Next]_vars
  PROVE  DestinationKept'
<1>1. ASSUME NEW m, NEW n, EnableInfinityTS(m, n) PROVE DestinationKept'
  BY <1>1 DEF EnableInfinityTS, DestinationKept
<1>2. ASSUME NEW a, Store(a) PROVE DestinationKept'
  <2>1. result = "none" /\ kind' \in Kinds /\ result' \in {"error", "stored"} /\ UNCHANGED dest
    BY <1>2, ArrayIsKind DEF Store, Destination
  <2>2. QED
    BY <2>1 DEF DestinationKept
<1>3. ASSUME NEW l, Insert(l) PROVE DestinationKept'
  <2>1. result = "none" /\ kind' \in Kinds /\ result' = "stored" /\ UNCHANGED dest
    BY <1>3, ArrayIsKind DEF Insert, Destination
  <2>2. QED
    BY <2>1 DEF DestinationKept
<1>4. ASSUME NEW v, Reprint(v) PROVE DestinationKept'
  BY <1>4 DEF Reprint, DestinationKept
<1>5. ASSUME Scan PROVE DestinationKept'
  <2>1. /\ result = "stored" /\ UNCHANGED kind
        /\ \/ UNCHANGED dest /\ (UNCHANGED result \/ result' = "error")
           \/ dest' = Nil /\ result' = "ok"
    BY <1>5, Zenon DEF Scan
  <2>2. QED
    BY <2>1 DEF DestinationKept, Nil
<1>6. ASSUME Assign PROVE DestinationKept'
  <2>1. /\ kind \in Kinds /\ dest = Earlier /\ dest' = Scanned.value
        /\ result' = IF Scanned.ok THEN "ok" ELSE "error"
    BY <1>6 DEF Assign, DestinationKept
  <2>2. CASE Scanned = [ok |-> FALSE, value |-> dest]
    <3>1. result' = "error" /\ dest' = dest
      BY <2>1, <2>2
    <3>2. QED
      BY <2>1, <3>1 DEF DestinationKept
  <2>3. ASSUME NEW s, Scanned = [ok |-> TRUE, value |-> List(s)] PROVE DestinationKept'
    <3>1. result' = "ok" /\ dest' = List(s) /\ List(s).nil = FALSE
      BY <2>1, <2>3 DEF List
    <3>2. QED
      BY <3>1 DEF DestinationKept
  <2>4. QED
    BY <2>1, <2>2, <2>3, ScannedOr
<1>7. ParseStep \/ Done \/ UNCHANGED vars => DestinationKept'
  BY DEF ParseStep, Done, vars, DestinationKept
<1>8. QED
  BY <1>1, <1>2, <1>3, <1>4, <1>5, <1>6, <1>7 DEF Next

LEMMA DestinationKeptHolds == Spec => []DestinationKept
<1>1. Init => DestinationKept
  BY ColumnAssumption DEF Init, DestinationKept
<1>2. DestinationKept /\ [Next]_vars => DestinationKept'
  BY DestinationStep
<1>3. QED
  BY <1>1, <1>2, PTL DEF Spec

(* A scan that fails has assigned nothing, whatever the column holds, of   *)
(* whatever kind the destination is and however many elements had already  *)
(* been converted.                                                         *)
THEOREM FailedScansAssignNothing == Spec => []FailedScanKeepsDestination
<1>1. DestinationKept => FailedScanKeepsDestination
  BY DEF DestinationKept, FailedScanKeepsDestination
<1>2. QED
  BY <1>1, DestinationKeptHolds, PTL

-----------------------------------------------------------------------------
(* The types of a column. *)

(* A bracket or a count has consumed a character: neither the depth nor a  *)
(* dimension reaches the position.                                         *)
Consumed ==
  /\ depth < i
  /\ \A d \in 1..Len(dims) : dims[d] < i

LEMMA ConsumedStep ==
  ASSUME ParserInv, Consumed, [BeginAny \/ Parse]_parserVars
  PROVE  Consumed'
<1>1. /\ i \in Nat \ {0} /\ depth \in Nat /\ Len(dims) \in Nat
      /\ \A d \in 1..Len(dims) : dims[d] \in Nat
  BY LenProperties, ElementOfSeq DEF ParserInv, ParserTypes
<1>2. ASSUME BeginAny PROVE Consumed'
  <2>1. i' = 1 /\ depth' = 0 /\ dims' = <<>> /\ Len(<<>>) = 0
    BY <1>2, EmptySeq DEF BeginAny, Begin
  <2>2. QED
    BY <2>1 DEF Consumed
<1>3. ASSUME i' \in Nat, i' >= i, depth' <= depth, depth' \in Nat, dims' = dims
      PROVE  Consumed'
  BY <1>1, <1>3 DEF Consumed
<1>4. ASSUME Open PROVE Consumed'
  <2>1. CASE i' = i + 1 /\ depth' = depth + 1 /\ dims' = dims
    BY <1>1, <2>1 DEF Consumed
  <2>2. CASE UNCHANGED <<i, depth>> /\ dims' = [d \in 1..(i - 1) |-> 0]
    <3>1. Len(dims') = i - 1 /\ \A d \in 1..(i - 1) : dims'[d] = 0
      BY <1>1, <2>2, Zeroes
    <3>2. QED
      BY <1>1, <2>2, <3>1 DEF Consumed
  <2>3. CASE UNCHANGED <<i, depth, dims>>
    BY <2>3 DEF Consumed
  <2>4. QED
    BY <1>4, <2>1, <2>2, <2>3 DEF Open
<1>5. ASSUME Nest PROVE Consumed'
  <2>1. depth \in 1..Len(dims) /\ dims \in Seq(Nat)
    BY <1>5 DEF ParserInv, ParserTypes, DepthsCounted, Reading, Nest
  <2>2. CASE UNCHANGED <<i, depth, dims>>
    BY <2>2 DEF Consumed
  <2>3. CASE /\ depth # Len(dims) /\ depth' = depth + 1 /\ i' = i + 1
             /\ dims' = [dims EXCEPT ![depth + 1] = 0]
    <3>1. /\ Len(dims') = Len(dims)
          /\ \A d \in 1..Len(dims) : dims'[d] = IF d = depth + 1 THEN 0 ELSE dims[d]
      BY <1>1, <2>1, <2>3, ExceptSeq
    <3>2. \A d \in 1..Len(dims) : dims'[d] < i + 1
      BY <1>1, <3>1 DEF Consumed
    <3>3. i' = i + 1 /\ depth' = depth + 1
      BY <2>3
    <3>4. QED
      BY <1>1, <3>1, <3>2, <3>3 DEF Consumed
  <2>4. QED
    BY <1>5, <2>2, <2>3 DEF Nest
<1>6. StartElement \/ Quoted \/ Plain => Consumed'
  BY <1>1, <1>3 DEF StartElement, Quoted, Plain
<1>7. ASSUME After PROVE Consumed'
  <2>1. depth \in 0..Len(dims)
    BY <1>7 DEF ParserInv, DepthsCounted, After
  <2>2. ASSUME depth > 0, dims' = Counted(depth), depth' \in Nat, depth' <= depth,
               i' \in Nat, i' > i
        PROVE  Consumed'
    <3>1. /\ Len(dims') = Len(dims)
          /\ \A d \in 1..Len(dims) : dims'[d] = IF d = depth THEN dims[d] + 1 ELSE dims[d]
      BY <1>1, <2>1, <2>2, CountOne DEF ParserInv
    <3>2. QED
      BY <1>1, <2>2, <3>1 DEF Consumed
  <2>3. Len(del) \in Nat \ {0}
    BY DelimitersAssumption, LenProperties, EmptySeq DEF ParserInv, ParserTypes
  <2>4. CASE depth > 0 /\ dims' = Counted(depth) /\ i' = i + Len(del) /\ UNCHANGED depth
    BY <1>1, <2>2, <2>3, <2>4
  <2>5. CASE depth > 0 /\ dims' = Counted(depth) /\ i' = i + 1 /\ depth' = depth - 1
    BY <1>1, <2>2, <2>5
  <2>6. CASE UNCHANGED <<i, depth, dims>>
    BY <2>6 DEF Consumed
  <2>7. QED
    BY <1>7, <2>4, <2>5, <2>6 DEF After
<1>8. Close => Consumed'
  BY <1>1, <1>3 DEF Close
<1>9. UNCHANGED parserVars => Consumed'
  BY <1>1, <1>3 DEF parserVars, locals
<1>10. QED
  BY <1>2, <1>4, <1>5, <1>6, <1>7, <1>8, <1>9 DEF Parse

(* The dimensions and the depth stay within the text: a text cannot ask    *)
(* for more of either than it has characters.  With the destination, the   *)
(* types of the column.                                                    *)
THEOREM ColumnTypes == Spec => []TypeOK
<1>1. ParserInit => Consumed
  <2>1. Len(<<>>) = 0
    BY EmptySeq
  <2>2. QED
    BY <2>1 DEF ParserInit, Consumed
<1>2. ParserInv /\ Consumed /\ [BeginAny \/ Parse]_parserVars => Consumed'
  BY ConsumedStep
<1>3. ParserInv /\ Consumed /\ DestinationKept /\ ColumnIsText => TypeOK
  <2> SUFFICES ASSUME ParserInv, Consumed, DestinationKept, ColumnIsText PROVE TypeOK
    OBVIOUS
  <2>1. /\ Len(src) \in Nat /\ i \in 1..(Len(src) + 1) /\ depth \in Nat
        /\ Len(dims) \in Nat /\ \A d \in 1..Len(dims) : dims[d] \in Nat
    BY LenProperties, ElementOfSeq DEF ParserInv, ParserTypes
  <2>2. depth \in 0..Len(src) /\ \A d \in 1..Len(dims) : dims[d] \in 0..Len(src)
    BY <2>1 DEF Consumed
  <2>3. dims \in Seq(0..Len(src))
    <3>1. dims = [d \in 1..Len(dims) |-> dims[d]]
      BY LenProperties DEF ParserInv, ParserTypes
    <3>2. QED
      BY <2>1, <2>2, <3>1
  <2>4. pc \in {"idle", "open", "element", "quoted", "plain", "after", "close", "parsed", "failed"}
    BY DEF ParserInv, ParserTypes, Labels
  <2>5. QED
    BY <2>1, <2>2, <2>3, <2>4 DEF TypeOK, DestinationKept
<1>4. ColumnInv => ColumnIsText
  BY DEF ColumnInv
<1>5. QED
  BY <1>1, <1>2, <1>3, <1>4, ColumnsHoldText, ColumnsAreScanned, ParserInvHolds, DestinationKeptHolds,
     PTL DEF ParserSpec

-----------------------------------------------------------------------------
(* Timestamps. *)

(* The limits are in order, once they are set.                             *)
LimitsInOrder ==
  /\ infinity.negative \in Int /\ infinity.positive \in Int
  /\ infinity.enabled => infinity.negative < infinity.positive

LEMMA LimitsStep ==
  ASSUME LimitsInOrder, [Next]_vars
  PROVE  LimitsInOrder'
<1>1. ASSUME NEW l \in Limits, EnableInfinityTS(l[1], l[2]) PROVE LimitsInOrder'
  <2>1. l[1] \in Int /\ l[2] \in Int
    BY ColumnAssumption
  <2>2. CASE UNCHANGED infinity
    BY <2>2 DEF LimitsInOrder
  <2>3. CASE infinity' = [enabled |-> TRUE, negative |-> l[1], positive |-> l[2]] /\ l[1] < l[2]
    BY <2>1, <2>3 DEF LimitsInOrder
  <2>4. QED
    BY <1>1, <2>1, <2>2, <2>3 DEF EnableInfinityTS
<1>2. ASSUME UNCHANGED infinity PROVE LimitsInOrder'
  BY <1>2 DEF LimitsInOrder
<1>3. ASSUME NEW a, Store(a) PROVE UNCHANGED infinity
  BY <1>3 DEF Store
<1>4. ASSUME NEW l, Insert(l) PROVE UNCHANGED infinity
  BY <1>4 DEF Insert
<1>5. ASSUME NEW v, Reprint(v) PROVE UNCHANGED infinity
  BY <1>5 DEF Reprint
<1>6. Scan \/ ParseStep \/ Assign \/ Done \/ UNCHANGED vars => UNCHANGED infinity
  BY DEF Scan, ParseStep, Assign, Done, vars
<1>7. QED
  BY <1>1, <1>2, <1>3, <1>4, <1>5, <1>6 DEF Next

(* The days of a year are in order.                                        *)
LEMMA InstantIsInt == ASSUME NEW t \in Times PROVE Instant(t) \in Int
<1>1. t.year \in Int /\ t.day \in ToSet(Days)
  BY ColumnAssumption
<1>2. \E d \in 1..3 : Days[d] = t.day
  BY <1>1 DEF ToSet, Days
<1>3. DOMAIN Days = 1..3
  BY DEF Days
<1>4. (CHOOSE d \in DOMAIN Days : Days[d] = t.day) \in Int
  BY <1>2, <1>3
<1>5. QED
  BY <1>1, <1>4 DEF Instant

(* The minutes and seconds with the sign are the offset, unless it is less *)
(* than a minute to the west.                                              *)
LEMMA OffsetReadBack ==
  ASSUME NEW o \in Int, o \notin -59..-1
  PROVE  (IF Abs(o) \div 60 > 0 /\ o < 0 THEN -1 ELSE 1)
           * (60 * (Abs(o) \div 60) + (Abs(o) % 60)) = o
<1>1. ASSUME NEW n \in Nat
      PROVE  /\ n \div 60 \in Nat /\ 60 * (n \div 60) + (n % 60) = n
             /\ n >= 60 => n \div 60 > 0
  OBVIOUS
<1>2. CASE o < 0
  <2>1. Abs(o) = -o /\ -o \in Nat /\ -o >= 60
    BY <1>2 DEF Abs
  <2>2. (-o) \div 60 > 0 /\ 60 * ((-o) \div 60) + ((-o) % 60) = -o
    BY <1>1, <2>1
  <2>3. QED
    BY <1>2, <2>1, <2>2
<1>3. CASE o >= 0
  <2>1. Abs(o) = o /\ o \in Nat
    BY <1>3 DEF Abs
  <2>2. 60 * (o \div 60) + (o % 60) = o
    BY <1>1, <2>1
  <2>3. QED
    BY <1>3, <2>1, <2>2
<1>4. QED
  BY <1>2, <1>3

(* A time comes back as the date and the offset it had.                    *)
LEMMA TimeReadBack ==
  ASSUME NEW t \in Times, ~(t.year <= 0 /\ t.day = "feb29"), t.offset \notin -59..-1
  PROVE  ReadTimestamp(FormatTimestamp(t)) = t
<1>1. /\ t.year \in Int /\ t.offset \in Int
      /\ t = [year |-> t.year, day |-> t.day, offset |-> t.offset]
      /\ t.day = "feb29" => Leap(t.year)
  BY ColumnAssumption
<1> DEFINE f == FormatTimestamp(t)
           mins == Abs(t.offset) \div 60
<1>2. f.day = t.day
  BY <1>1 DEF FormatTimestamp
<1>3. (IF f.bc THEN 1 - f.year ELSE f.year) = t.year
  <2>1. CASE t.year <= 0
    <3>1. f.bc = TRUE /\ f.year = FlippedYear(t.year)
      BY <2>1 DEF FormatTimestamp
    <3>2. FlippedYear(t.year) = 1 - t.year
      BY <1>1 DEF FlippedYear
    <3>3. QED
      BY <1>1, <3>1, <3>2
  <2>2. CASE ~(t.year <= 0)
    <3>1. (t.year <= 0) = FALSE
      BY <2>2
    <3>2. f.bc = FALSE
      BY <3>1 DEF FormatTimestamp
    <3>3. f.year = t.year
      BY <2>2 DEF FormatTimestamp
    <3>4. QED
      BY <3>2, <3>3
  <2>3. QED
    BY <2>1, <2>2
<1>4. (IF f.sign = "-" THEN -1 ELSE 1) * (60 * f.minutes + f.seconds) = t.offset
  <2>1. /\ f.minutes = mins /\ f.seconds = Abs(t.offset) % 60
        /\ f.sign = IF mins > 0 /\ t.offset < 0 THEN "-" ELSE "+"
    BY DEF FormatTimestamp
  <2>2. (IF f.sign = "-" THEN -1 ELSE 1) = IF mins > 0 /\ t.offset < 0 THEN -1 ELSE 1
    BY <2>1
  <2>3. QED
    BY <1>1, <2>1, <2>2, OffsetReadBack
<1>5. QED
  BY <1>1, <1>2, <1>3, <1>4 DEF ReadTimestamp

(* Every time is written as the infinity it has reached and as no other,   *)
(* and what is not infinite comes back with its year, before year 1 too,   *)
(* its day and its offset to the second.                                   *)
THEOREM TimesReadBack == Spec => []TimestampsReadBack
<1>1. Init => LimitsInOrder
  BY DEF Init, LimitsInOrder
<1>2. LimitsInOrder /\ [Next]_vars => LimitsInOrder'
  BY LimitsStep
<1>3. LimitsInOrder => TimestampsReadBack
  <2> SUFFICES ASSUME LimitsInOrder, NEW t \in Times
               PROVE  LET s == Reached(infinity, t)
                          low == infinity.enabled /\ Instant(t) <= infinity.negative
                          high == infinity.enabled /\ Instant(t) >= infinity.positive
                      IN  /\ (s = "-infinity" <=> low) /\ (s = "infinity" <=> high)
                          /\ ~(t.year <= 0 /\ t.day = "feb29") /\ t.offset \notin -59..-1 =>
                               ReadTimestamp(FormatTimestamp(t)) = t
    BY DEF TimestampsReadBack
  <2>1. Instant(t) \in Int
    BY InstantIsInt
  <2>2. Reached(infinity, t) = "-infinity"
          <=> infinity.enabled /\ Instant(t) <= infinity.negative
    <3>1. CASE infinity.enabled /\ Instant(t) <= infinity.negative
      BY <2>1, <3>1 DEF Reached, LimitsInOrder
    <3>2. CASE infinity.enabled /\ Instant(t) > infinity.negative
      BY <2>1, <3>2 DEF Reached, LimitsInOrder
    <3>3. CASE ~infinity.enabled
      BY <3>3 DEF Reached
    <3>4. QED
      BY <2>1, <3>1, <3>2, <3>3 DEF LimitsInOrder
  <2>3. Reached(infinity, t) = "infinity"
          <=> infinity.enabled /\ Instant(t) >= infinity.positive
    <3>1. CASE infinity.enabled /\ Instant(t) <= infinity.negative
      <4>1. ~(Instant(t) >= infinity.positive)
        BY <2>1, <3>1 DEF LimitsInOrder
      <4>2. QED
        BY <2>2, <3>1, <4>1
    <3>2. CASE infinity.enabled /\ Instant(t) > infinity.negative
      BY <2>1, <3>2 DEF Reached, LimitsInOrder
    <3>3. CASE ~infinity.enabled
      BY <3>3 DEF Reached
    <3>4. QED
      BY <2>1, <3>1, <3>2, <3>3 DEF LimitsInOrder
  <2>4. QED
    BY <2>2, <2>3, TimeReadBack
<1>4. QED
  BY <1>1, <1>2, <1>3, PTL DEF Spec
=============================================================================
