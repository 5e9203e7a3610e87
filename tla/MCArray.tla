------------------------------- MODULE MCArray -------------------------------
(***************************************************************************)
(* Arrays and literals for TLC.  Integers are scaled down: the numerals    *)
(* denote -5..4, of which -4..3 fit 64 bits and -2..1 fit 32 bits; a       *)
(* float32 is an even number.                                              *)
(***************************************************************************)
EXTENDS ArrayColumn

CharCodes == ("a" :> 97) @@ ("x" :> 120) @@ ("{" :> 123) @@ ("}" :> 125) @@ ("," :> 44)
          @@ (";" :> 59) @@ (Quote :> 34) @@ (Backslash :> 92) @@ ("0" :> 48) @@ ("1" :> 49)
          @@ ("3" :> 51) @@ ("7" :> 55) @@ ("nul" :> 0) @@ ("high" :> 255)
          @@ ("t" :> 116) @@ ("f" :> 102) @@ ("NULL" :> 78)
          @@ ("p1" :> 129) @@ ("p2" :> 130) @@ ("p4" :> 132) @@ ("n4" :> 133) @@ ("n5" :> 134)

NumeralNames == ("n5" :> -5) @@ ("n4" :> -4) @@ ("n3" :> -3) @@ ("n2" :> -2) @@ ("n1" :> -1)
             @@ ("p0" :> 0) @@ ("p1" :> 1) @@ ("p2" :> 2) @@ ("p3" :> 3) @@ ("p4" :> 4)

SmallInts == -2..1
LargeInts == -4..3
Nearest32 == [x \in -4..4 |-> 2 * (x \div 2)]

CommaOrSemicolon == {<<",">>, <<";">>}

-----------------------------------------------------------------------------
Of(goType, items) == { [type |-> goType, value |-> List(s)] : s \in items }

Texts2 == BoundedSeq({"a", ",", "}", Quote, Backslash}, 2) \cup {<<"NULL">>, <<"{", Backslash, "a">>}
Bytes2 == BoundedSeq({97, 92, 34, 0, 255}, 2)

Str(t) == [str |-> t]
Num(n) == [num |-> n]
Rows(s) == [list |-> s]
Time(y, d, o) == [time |-> [year |-> y, day |-> d, offset |-> o]]

Elements == {Str(<<>>), Str(<<Quote, ";">>), Num(1), [bool |-> TRUE], [null |-> TRUE], Time(4, "feb29", 0)}

Matrices == { <<Rows(<<Num(1), Num(2)>>), Rows(<<Num(3), [null |-> TRUE]>>)>>,
            <<Rows(<<Str(<<"}">>)>>), Rows(<<Str(<<"a">>)>>), Rows(<<Str(<<>>)>>)>>,
            <<Rows(<<>>), Rows(<<Num(1)>>)>>,
            <<Rows(<<Num(1)>>), Rows(<<Num(1), Num(2)>>)>>,
            <<Num(1), [opaque |-> TRUE]>>,
            <<Rows(<<Rows(<<Num(1)>>), Rows(<<>>)>>)>> }

Depth(v) == IF "list" \notin DOMAIN v THEN 0
            ELSE IF \E k \in DOMAIN v.list : "list" \in DOMAIN v.list[k] THEN 2 ELSE 1

Within(vs) == ToSet(vs) \cup UNION { ToSet(v.list) : v \in {u \in ToSet(vs) : "list" \in DOMAIN u} }

SomeValues ==
  LET top == Elements \cup UNION {Within(vs) : vs \in Matrices}
  IN  top \cup UNION { Within(v.list) : v \in {u \in top : "list" \in DOMAIN u} }

TimeTexts == [f \in {FormatTimestamp(v.time) : v \in {u \in SomeValues : "time" \in DOMAIN u}} |-> ToString(f)]

SomeNesting == [v \in SomeValues |-> Depth(v)]

SomeArrays ==
  Of("[]bool", BoundedSeq(BOOLEAN, 3)) \cup Of("[]int64", BoundedSeq(LargeInts, 2))
  \cup Of("[]int32", BoundedSeq(SmallInts, 2)) \cup Of("[]float64", BoundedSeq({-4, 1, 3}, 2))
  \cup Of("[]float32", BoundedSeq({-4, 0, 2}, 2)) \cup Of("[]string", BoundedSeq(Texts2, 1) \cup
          {<<s, t>> : s \in {<<>>, <<Quote>>, <<"NULL">>}, t \in {<<>>, <<Backslash>>, <<",">>}})
  \cup Of("[][]byte", BoundedSeq(Bytes2, 1) \cup {<<<<97>>, <<0>>>>})
  \cup Of("[]T", BoundedSeq(Elements, 2) \cup Matrices)
  \cup { [type |-> t, value |-> Nil] : t \in GoTypes }

(* Every text of a bracket and up to four characters, and longer ones. *)
Longer == { <<"{", Quote, Backslash, Backslash, "x", "1", "3", Quote, "}">>,
            <<"{", Quote, Backslash, Backslash, "x", "1", Quote, "}">>,
            <<"{", Quote, Backslash, Backslash, "0", "1", "3", Quote, "}">>,
            <<"{", Quote, Backslash, Backslash, "7", "1", "3", Quote, "}">>,
            <<"{", "t", ",", "f", ",", "a", "}">>,
            <<"{", "p1", ",", "p4", "}">>, <<"{", "p1", ",", "n4", "}">>,
            <<"{", "p2", ",", "n5", "}">>,
            <<"{", "{", "a", "}", ",", "{", "a", "}", "}">>,
            <<"{", "{", "a", ",", "a", "}", ",", "{", "a", "}", "}">>,
            <<"{", "{", "{", "a", "}", "}", "}">>,
            <<"{", "{", "a", "}", ",", "{", Quote, "}">> }

Short(n) == { <<"{">> \o t : t \in BoundedSeq({"{", "}", ",", Quote, Backslash, "a"}, n) }

SomeLiterals ==
  { [type |-> "[]string", column |-> Text(t)] : t \in Short(4) }
  \cup { [type |-> g, column |-> Text(t)] : g \in GoTypes,
           t \in Short(2) \cup Longer \cup {<<>>, <<"a">>, <<"{", "NULL", "}">>} }
  \cup { [type |-> g, column |-> c] : g \in GoTypes, c \in {SqlNull, [type |-> "other", text |-> <<>>]} }

SomeTargets == { Slice, [Slice EXCEPT !.scanner = FALSE],
                 [shape |-> "array", len |-> 2, scanner |-> TRUE],
                 [shape |-> "other", len |-> 0, scanner |-> TRUE] }

TwoEarlier == List(<<"earlier", "elements">>)

SomeLimits == {<<-1, 12>>, <<5, 5>>}

SomeTimes == { t \in { [year |-> y, day |-> Days[d], offset |-> o] :
                        y \in -4..5, d \in 1..3, o \in {-3630, -60, 0, 1, 59, 1172} } :
               t.day = "feb29" => Leap(t.year) }
=============================================================================
