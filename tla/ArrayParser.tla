----------------------------- MODULE ArrayParser -----------------------------
(***************************************************************************)
(* parseArray of package dbarray: the scanner that splits the text form of *)
(* a PostgreSQL array into its dimensions and its elements.  One action is *)
(* one turn of one of its loops; pc is the label it is at.                 *)
(***************************************************************************)
EXTENDS ArrayItems

CONSTANT Delimiters   \* the delimiters an element type may ask for

ASSUME DelimitersAssumption == Delimiters \subseteq Seq(STRING) \ {<<>>}

VARIABLES src, del,    \* the arguments
          pc,
          i, depth,    \* position and number of open brackets
          dims, elems, \* the results
          elem, escape \* the element being read

locals == <<i, depth, dims, elems, elem, escape>>
parserVars == <<src, del, pc, locals>>

AtEnd == i > Len(src)
At(c) == ~AtEnd /\ src[i] = c
AtDelimiter ==
  /\ i + Len(del) - 1 <= Len(src)
  /\ SubSeq(src, i, i + Len(del) - 1) = del

Label(l) == pc' = l

Begin(text, delimiter) ==
  /\ src' = text /\ del' = delimiter
  /\ i' = 1 /\ depth' = 0 /\ dims' = <<>> /\ elems' = <<>>
  /\ elem' = <<>> /\ escape' = FALSE
  /\ Label(IF text # <<>> /\ text[1] = LeftBrace THEN "open" ELSE "failed")

-----------------------------------------------------------------------------
(* Variant of Open: one dimension more than there are brackets. *)
OpenOneMore ==
  /\ pc = "open"
  /\ \/ At(LeftBrace) /\ i' = i + 1 /\ depth' = depth + 1 /\ UNCHANGED <<pc, dims>>
     \/ At(RightBrace) /\ Label("close") /\ UNCHANGED <<i, depth, dims>>
     \/ /\ ~At(LeftBrace) /\ ~At(RightBrace)
        /\ dims' = [d \in 1..i |-> 0]
        /\ Label("element")
        /\ UNCHANGED <<i, depth>>
  /\ UNCHANGED <<src, del, elems, elem, escape>>

(* Open: the leading brackets give the number of dimensions. *)
Open ==
  /\ pc = "open"
  /\ \/ At(LeftBrace) /\ i' = i + 1 /\ depth' = depth + 1 /\ UNCHANGED <<pc, dims>>
     \/ At(RightBrace) /\ Label("close") /\ UNCHANGED <<i, depth, dims>>
     \/ /\ ~At(LeftBrace) /\ ~At(RightBrace)
        /\ dims' = [d \in 1..(i - 1) |-> 0]
        /\ Label("element")
        /\ UNCHANGED <<i, depth>>
  /\ UNCHANGED <<src, del, elems, elem, escape>>

(* Variant of Nest: the dimension goes on counting. *)
NestUnreset ==
  /\ pc = "element" /\ At(LeftBrace)
  /\ IF depth = Len(dims)
     THEN Label("after") /\ UNCHANGED <<i, depth>>
     ELSE depth' = depth + 1 /\ i' = i + 1 /\ UNCHANGED pc
  /\ UNCHANGED <<src, del, dims, elems, elem, escape>>

(* Element: a bracket below the last dimension is left to the next loop,   *)
(* which refuses it; otherwise an element starts.                          *)
Nest ==
  /\ pc = "element" /\ At(LeftBrace)
  /\ IF depth = Len(dims)
     THEN Label("after") /\ UNCHANGED <<i, depth, dims>>
     ELSE /\ depth' = depth + 1
          /\ dims' = [dims EXCEPT ![depth + 1] = 0]
          /\ i' = i + 1
          /\ UNCHANGED pc
  /\ UNCHANGED <<src, del, elems, elem, escape>>

StartElement ==
  /\ pc = "element" /\ ~At(LeftBrace)
  /\ elem' = <<>>
  /\ \/ AtEnd /\ Label("after") /\ UNCHANGED i
     \/ At(Quote) /\ Label("quoted") /\ i' = i + 1
     \/ ~AtEnd /\ ~At(Quote) /\ Label("plain") /\ UNCHANGED i
  /\ UNCHANGED <<src, del, depth, dims, elems, escape>>

Take == elem' = Append(elem, src[i]) /\ UNCHANGED elems

Quoted ==
  /\ pc = "quoted"
  /\ \/ AtEnd /\ Label("after") /\ escape' = FALSE /\ UNCHANGED <<i, elem, elems>>
     \/ ~AtEnd /\ escape /\ Take /\ escape' = FALSE /\ i' = i + 1 /\ UNCHANGED pc
     \/ /\ At(Backslash) /\ ~escape
        /\ escape' = TRUE /\ i' = i + 1 /\ UNCHANGED <<pc, elem, elems>>
     \/ /\ At(Quote) /\ ~escape
        /\ elems' = Append(elems, Item(elem))
        /\ Label("after") /\ i' = i + 1 /\ UNCHANGED <<elem, escape>>
     \/ /\ ~AtEnd /\ ~escape /\ ~At(Backslash) /\ ~At(Quote)
        /\ Take /\ i' = i + 1 /\ UNCHANGED <<pc, escape>>
  /\ UNCHANGED <<src, del, depth, dims>>

(* Variant of Plain: an element without characters is passed over. *)
PlainLenient ==
  /\ pc = "plain"
  /\ \/ AtEnd /\ Label("after") /\ UNCHANGED <<i, elem, elems>>
     \/ /\ ~AtEnd /\ (AtDelimiter \/ At(RightBrace))
        /\ elems' = IF elem = <<>> THEN elems
                    ELSE Append(elems, IF elem = <<"NULL">> THEN Null ELSE Item(elem))
        /\ Label("after")
        /\ UNCHANGED <<i, elem>>
     \/ ~AtEnd /\ ~AtDelimiter /\ ~At(RightBrace) /\ Take /\ i' = i + 1 /\ UNCHANGED pc
  /\ UNCHANGED <<src, del, depth, dims, escape>>

Plain ==
  /\ pc = "plain"
  /\ \/ AtEnd /\ Label("after") /\ UNCHANGED <<i, elem, elems>>
     \/ /\ ~AtEnd /\ (AtDelimiter \/ At(RightBrace))
        /\ IF elem = <<>>
           THEN Label("failed") /\ UNCHANGED elems
           ELSE /\ elems' = Append(elems, IF elem = <<"NULL">> THEN Null ELSE Item(elem))
                /\ Label("after")
        /\ UNCHANGED <<i, elem>>
     \/ ~AtEnd /\ ~AtDelimiter /\ ~At(RightBrace) /\ Take /\ i' = i + 1 /\ UNCHANGED pc
  /\ UNCHANGED <<src, del, depth, dims, escape>>

(* After an element: a delimiter or a closing bracket counts it. *)
Counted(d) == [dims EXCEPT ![d] = @ + 1]

After ==
  /\ pc = "after"
  /\ \/ /\ ~AtEnd /\ AtDelimiter /\ depth > 0
        /\ dims' = Counted(depth) /\ i' = i + Len(del)
        /\ Label("element") /\ UNCHANGED depth
     \/ /\ ~AtDelimiter /\ At(RightBrace) /\ depth > 0
        /\ dims' = Counted(depth) /\ i' = i + 1
        /\ depth' = depth - 1 /\ UNCHANGED pc
     \/ /\ ~AtEnd /\ (depth = 0 \/ ~(AtDelimiter \/ At(RightBrace)))
        /\ Label("failed") /\ UNCHANGED <<i, depth, dims>>
     \/ AtEnd /\ Label("close") /\ UNCHANGED <<i, depth, dims>>
  /\ UNCHANGED <<src, del, elems, elem, escape>>

Mismatch == \E d \in DOMAIN dims : Len(elems) % dims[d] # 0

(* Variant of Close: brackets are not counted down to zero only. *)
CloseUnbalanced ==
  /\ pc = "close"
  /\ \/ At(RightBrace) /\ depth' = depth - 1 /\ i' = i + 1 /\ UNCHANGED pc
     \/ AtEnd /\ Label(IF Mismatch THEN "failed" ELSE "parsed") /\ UNCHANGED <<i, depth>>
     \/ ~AtEnd /\ ~At(RightBrace) /\ Label("failed") /\ UNCHANGED <<i, depth>>
  /\ UNCHANGED <<src, del, dims, elems, elem, escape>>

Close ==
  /\ pc = "close"
  /\ \/ At(RightBrace) /\ depth > 0 /\ depth' = depth - 1 /\ i' = i + 1 /\ UNCHANGED pc
     \/ /\ AtEnd /\ depth = 0
        /\ Label(IF Mismatch THEN "failed" ELSE "parsed") /\ UNCHANGED <<i, depth>>
     \/ /\ IF AtEnd THEN depth > 0 ELSE depth = 0 \/ ~At(RightBrace)
        /\ Label("failed") /\ UNCHANGED <<i, depth>>
  /\ UNCHANGED <<src, del, dims, elems, elem, escape>>

Parse == Open \/ Nest \/ StartElement \/ Quoted \/ Plain \/ After \/ Close

(* The scanner by itself: any text, any delimiter, one text after another. *)
ParserInit ==
  /\ src = <<>> /\ del \in Delimiters /\ pc = "idle"
  /\ i = 1 /\ depth = 0 /\ dims = <<>> /\ elems = <<>> /\ elem = <<>> /\ escape = FALSE

BeginAny == src' \in Seq(STRING) /\ del' \in Delimiters /\ Begin(src', del')

ParserSpec == ParserInit /\ [][BeginAny \/ Parse]_parserVars

-----------------------------------------------------------------------------
(* The divisions of the last check never have a zero divisor, although a   *)
(* dimension starts at zero and is set to zero again by each bracket that  *)
(* opens below it: only the closing bracket makes it positive.             *)
NoZeroDivisor ==
  pc = "close" /\ AtEnd /\ depth = 0 => \A d \in DOMAIN dims : dims[d] > 0

(* In an array of one dimension the dimension is the number of elements:   *)
(* the slice Generic takes of the elements is never out of range.          *)
SliceInRange == pc = "parsed" /\ Len(dims) = 1 => dims[1] = Len(elems)
=============================================================================
