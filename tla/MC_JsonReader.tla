--------------------------- MODULE MC_JsonReader ---------------------------
(* Documents for TLC.  A document is built from the values in it, bottom up,  *)
(* so that where each one lies is known without reading the text.             *)
EXTENDS JsonReader, TLC

Leaf(type, whole, content) ==
    [text |-> whole,
     at |-> <<>> :> [type |-> type, start |-> 0, end |-> Len(whole), content |-> content, items |-> <<>>]]

InQuotes(body) == <<"\"">> \o body \o <<"\"">>
PlainString(body) == Leaf("String", InQuotes(body), body)

Number == Leaf("Number", <<"0", "0">>, <<>>)
Literal == Leaf("Literal", <<"n">>, <<>>)
EscapedQuote == Leaf("String", InQuotes(<<"\\", "\"", "t">>), <<"\"", "t">>)
EscapedBackslash == Leaf("String", InQuotes(<<"\\", "\\">>), <<"\\">>)
Newline == Leaf("String", InQuotes(<<"a", "\\", "t">>), <<"a", "\t">>)

(* A part is a value and the selection that leads to it, with its key and     *)
(* what parts them.                                                           *)
Part(key, colon, by, value) == [key |-> key, colon |-> colon, by |-> by, value |-> value]

Moved(spans, n) == [i \in DOMAIN spans |-> [spans[i] EXCEPT !.start = @ + n, !.end = @ + n]]

Shift(written, n) == [written EXCEPT !.start = @ + n, !.end = @ + n, !.items = Moved(@, n)]

Container(type, open, close, parts, space) ==
    LET Written(i) == (IF i = 1 THEN <<>> ELSE <<",">> \o space)
                      \o parts[i].key \o parts[i].colon \o parts[i].value.text
        Upto(i) == <<open>> \o space \o FlattenSeq([j \in 1..i |-> Written(j)])
        whole == Upto(Len(parts)) \o space \o <<close>>
        Offset(i) == Len(Upto(i)) - Len(parts[i].value.text)
        KeyEnd(i) == Offset(i) - Len(parts[i].colon)
        items == [i \in 1..Len(parts) |-> [by |-> parts[i].by,
                                           start |-> KeyEnd(i) - Len(parts[i].key), end |-> KeyEnd(i)]]
        paths == UNION {{<<parts[i].by>> \o p : p \in DOMAIN parts[i].value.at}
                        : i \in 1..Len(parts)}
        PartOf(p) == CHOOSE i \in 1..Len(parts) : parts[i].by = p[1]
    IN [text |-> whole,
        at |-> (<<>> :> [type |-> type, start |-> 0, end |-> Len(whole), content |-> <<>>, items |-> items])
               @@ [p \in paths |-> Shift(parts[PartOf(p)].value.at[Tail(p)], Offset(PartOf(p)))]]

Array(values, space) ==
    Container("Array", "[", "]",
              [i \in 1..Len(values) |-> Part(<<>>, <<>>, [element |-> i - 1], values[i])], space)

Object(members, space) ==
    Container("Object", "{", "}",
              [i \in 1..Len(members) |->
                  Part(InQuotes(members[i][1]), <<":">> \o space,
                       [member |-> members[i][1]], members[i][2])], space)

A == <<"a">>
AB == <<"a", "b">>

Spaces == {<<>>, <<" ">>}
Leaves == {Number, Literal, EscapedQuote, EscapedBackslash, Newline,
           PlainString(<<>>), PlainString(<<"}">>), PlainString(<<"]", "a">>)}

Inner ==
    UNION {{Array(<<>>, sp), Object(<<>>, sp)}
           \cup {Array(<<x>>, sp) : x \in Leaves}
           \cup {Array(<<x, Literal>>, sp) : x \in Leaves}
           \cup {Object(<<<<AB, x>>>>, sp) : x \in Leaves}
           \cup {Object(<<<<AB, x>>, <<A, Number>>>>, sp) : x \in Leaves} : sp \in Spaces}

Outer ==
    UNION {{Object(<<<<AB, x>>, <<A, Newline>>>>, sp) : x \in Inner}
           \cup {Object(<<<<AB, Number>>, <<A, x>>>>, sp) : x \in Inner}
           \cup {Array(<<x, Literal, Number>>, sp) : x \in Inner}
           \cup {Array(<<Literal, x>>, sp) : x \in Inner} : sp \in Spaces}

MCDocuments == Leaves \cup Inner \cup Outer
(* What the strings alone make of an array. *)
MCStringArrays == {Array(<<x>>, <<>>) : x \in Leaves}

MCKeys == {A, AB}
=============================================================================
