----------------------------- MODULE JsonReader -----------------------------
(* solana::json: values are views into the response text, and every access    *)
(* scans it again from the start of the value.  One loop iteration of         *)
(* operator[] or arraySize() per action; the scanners they call are           *)
(* operators.  Positions count from 0, as in the code.                        *)
(*                                                                            *)
(* A character is itself, except that "n" is a whole true, false or null, "x" *)
(* a part of one or any other character no rule consumes, "t" what an escape  *)
(* like \n is written with, and "0" whatever a number may contain.            *)
EXTENDS JsonDocument, FiniteSetsExt

CONSTANTS
    Documents,     \* what a server may write
    Keys,          \* the keys the callers look up
    MaxSelections, \* how deep the callers go
    SizeRange      \* number of values a size_t has

ASSUME DocumentAssumption == \A doc \in Documents : IsDocument(doc)

(* A size_t can count the elements of any document. *)
ASSUME SizeAssumption ==
    /\ SizeRange \in Nat
    /\ \A doc \in Documents : Len(doc.text) < SizeRange

ASSUME KeyAssumption == Keys \subseteq Seq(STRING)

VARIABLES
    doc,    \* the document the server wrote
    text,   \* what the client got of it
    val,    \* the JsonValue the caller holds
    path,   \* how the caller came to it
    op,     \* the function that runs on it
    pos,    \* its cursor
    count   \* elements it has gone past

vars == <<doc, text, val, path, op, pos, count>>

NoValue == [type |-> "Null", src |-> FALSE, start |-> 0, end |-> 0]
Value(type, start, end) == [type |-> type, src |-> TRUE, start |-> start, end |-> end]

-----------------------------------------------------------------------------
(* The scanners.  len is where the caller's view ends: a scan that reaches it *)
(* stops, wherever the text ends.                                             *)

At(p) == text[p + 1]

(* Where a run of the character c that may begin at p is over. *)
AfterRun(c, p, len) == IF p >= len THEN p ELSE Min({q \in p..(len - 1) : At(q) # c} \cup {len})

SkipWhitespace(p, len) == AfterRun(Space, p, len)

(* A separator is looked for at one place, and is passed over if there. *)
SkipSeparator(p, len, c) ==
    LET q == SkipWhitespace(p, len)
    IN IF q < len /\ At(q) = c THEN q + 1 ELSE q

(* The closing quote of a string whose content starts at p; past len if the   *)
(* text ends in an escape.                                                    *)
ClosingQuote(p, len) ==
    LET from[q \in Nat] == IF q >= len \/ At(q) = Quote THEN q
                           ELSE from[IF At(q) = Backslash THEN q + 2 ELSE q + 1]
    IN from[p]

(* A missing quote is passed over, too. *)
AfterQuote_Unchecked(quote, len) == quote + 1

AfterQuote(quote, len) == IF quote < len THEN quote + 1 ELSE quote

(* The first of these braces where as many have closed as opened, counting    *)
(* the one before them all, or len.                                           *)
FirstBalanced(braces, close, len) ==
    LET closing == {p \in braces : At(p) = close}
        UpTo(places, p) == Cardinality({q \in places : q <= p})
    IN Min({p \in closing : 2 * UpTo(closing, p) = UpTo(braces, p) + 1} \cup {len})

(* Braces count wherever they are. *)
FindMatchingBrace_InStrings(start, len, open, close) ==
    FirstBalanced({p \in start..(len - 1) : At(p) \in {open, close}}, close, len)

(* Within strings braces do not count.  A quote begins or ends one, unless a  *)
(* backslash comes just before it.                                            *)
FindMatchingBrace(start, len, open, close) ==
    LET quotes == {p \in start..(len - 1) : At(p) = Quote /\ At(p - 1) # Backslash}
    IN FirstBalanced({p \in start..(len - 1) :
                         /\ At(p) \in {open, close}
                         /\ Cardinality({q \in quotes : q <= p}) % 2 = 0}, close, len)

(* The value at p, or none.  The cursor is left at its end. *)
ParseValue(p, len) ==
    LET start == SkipWhitespace(p, len)
        View(type, end) == Value(type, start, end)
    IN IF start >= len THEN NoValue
       ELSE CASE At(start) = Quote -> View("String", AfterQuote(ClosingQuote(start + 1, len), len))
              [] At(start) = OpenBrace -> View("Object", FindMatchingBrace(start + 1, len, OpenBrace,
                                                                             CloseBrace) + 1)
              [] At(start) = OpenBracket -> View("Array", FindMatchingBrace(start + 1, len, OpenBracket,
                                                                              CloseBracket) + 1)
              [] At(start) = "n" -> View("Literal", start + 1)
              [] At(start) = "0" -> View("Number", AfterRun("0", start, len))
              [] OTHER -> View("Null", start)

CursorAfter(v, p, len) == IF v.src THEN v.end ELSE SkipWhitespace(p, len)

Unescape(c) == IF c = "t" THEN "\t" ELSE c

(* asString(): what is between the quotes, the last character of the view     *)
(* being taken for the closing one.  reserve() throws for a view of one.      *)
AsString(v) ==
    LET end == v.end - 1
        from[p \in Nat] ==
            IF p >= end THEN <<>>
            ELSE IF At(p) = Backslash /\ p + 1 < end
                 THEN <<Unescape(At(p + 1))>> \o from[p + 2]
                 ELSE <<At(p)>> \o from[p + 1]
    IN IF v.start + 1 > end THEN <<"throws">> ELSE from[v.start + 1]

-----------------------------------------------------------------------------
(* The callers.                                                               *)

(* The whole text or the first n characters, the last one a part of a token   *)
(* if the cut falls inside.                                                   *)
Received(whole, n) ==
    LET cut == SubSeq(whole, 1, n)
    IN {cut} \cup (IF n > 0 /\ cut[n] = "n" THEN {[cut EXCEPT ![n] = "x"]} ELSE {})

Init ==
    /\ doc \in Documents
    /\ \E n \in 0..Len(doc.text) : text \in Received(doc.text, n)
    /\ val = ParseValue(0, Len(text))
    /\ path = <<>>
    /\ op = "none" /\ pos = 0 /\ count = 0

End == val.end - 1

(* operator[] and arraySize() on a value of another type say nothing or 0. *)
Begin(name, type) ==
    /\ op \in {"none", "counted"} /\ val.src
    /\ op' = IF val.type = type THEN name ELSE "none"
    /\ pos' = IF val.type = type THEN val.start + 1 ELSE pos
    /\ count' = 0
    /\ UNCHANGED <<doc, text>>

Lookup(key) ==
    /\ Len(path) < MaxSelections
    /\ Begin("member", "Object")
    /\ path' = Append(path, Member(key))
    /\ val' = IF val.type = "Object" THEN val ELSE NoValue

Index(index) ==
    /\ Len(path) < MaxSelections
    /\ Begin("element", "Array")
    /\ path' = Append(path, Element(index))
    /\ val' = IF val.type = "Array" THEN val ELSE NoValue

ArraySize == op = "none" /\ Begin("size", "Array") /\ UNCHANGED <<val, path>>

Return(v) == val' = v /\ op' = "none" /\ UNCHANGED <<doc, text, path, pos, count>>

(* A longer key that begins like the one looked up matches. *)
Matches_Prefix(keyStart, keyEnd, key) ==
    keyEnd <= Len(text) /\ IsPrefix(key, SubSeq(text, keyStart + 1, keyEnd))

Matches(keyStart, keyEnd, key) ==
    keyEnd <= Len(text) /\ SubSeq(text, keyStart + 1, keyEnd) = key

(* The key, and what comes between it and the value. *)
ReadKey ==
    /\ op = "member"
    /\ LET start == SkipWhitespace(pos, End)
           keyEnd == ClosingQuote(start + 1, End)
       IN IF start >= End \/ At(start) # Quote
          THEN Return(NoValue)
          ELSE /\ op' = IF Matches(start + 1, keyEnd, Last(path).member) THEN "found" ELSE "other"
               /\ pos' = SkipSeparator(AfterQuote(keyEnd, End), End, Colon)
               /\ UNCHANGED <<doc, text, val, path, count>>

FoundMember == op = "found" /\ Return(ParseValue(pos, End))

PassMember ==
    /\ op = "other"
    /\ pos' = SkipSeparator(CursorAfter(ParseValue(pos, End), pos, End), End, Comma)
    /\ op' = "member"
    /\ UNCHANGED <<doc, text, val, path, count>>

(* An element is passed over: the cursor moves on, or stays where no rule     *)
(* consumes what is there.                                                    *)
PassElement(v) ==
    /\ pos' = SkipSeparator(CursorAfter(v, pos, End), End, Comma)
    /\ count' = (count + 1) % SizeRange
    /\ UNCHANGED <<doc, text, val, path, op>>

NextElement ==
    /\ op = "element"
    /\ LET v == ParseValue(pos, End)
       IN IF SkipWhitespace(pos, End) >= End THEN Return(NoValue)
          ELSE IF count = Last(path).element THEN Return(v)
          ELSE PassElement(v)

Counted == op' = "counted" /\ UNCHANGED <<doc, text, val, path, pos, count>>

(* The comma after an element is taken for the next one. *)
CountElement_NoComma ==
    /\ op = "size"
    /\ IF SkipWhitespace(pos, End) >= End THEN Counted
       ELSE /\ pos' = CursorAfter(ParseValue(pos, End), pos, End)
            /\ count' = (count + 1) % SizeRange
            /\ UNCHANGED <<doc, text, val, path, op>>

(* An element is counted before the end is looked for. *)
CountElement_First ==
    /\ op = "size"
    /\ IF pos >= End THEN Counted
       ELSE PassElement(ParseValue(pos, End))

CountElement ==
    /\ op = "size"
    /\ IF SkipWhitespace(pos, End) >= End THEN Counted
       ELSE PassElement(ParseValue(pos, End))

Step == ReadKey \/ FoundMember \/ PassMember \/ NextElement \/ CountElement

Next ==
    \/ \E key \in Keys : Lookup(key)
    \/ \E index \in 0..1 : Index(index)
    \/ ArraySize
    \/ Step

(* A function that was called runs. *)
Spec == Init /\ [][Next]_vars /\ WF_vars(Step)

-----------------------------------------------------------------------------
(* Properties.                                                                *)

Whole == text = doc.text

Running == op \in {"member", "found", "other", "element", "size"}

(* A document where no string ends in a backslash.  findMatchingBrace takes   *)
(* the quote after it for an escaped one, and looks for the brace as if the   *)
(* string went on (json.cpp:67).                                              *)
Plain == \A p \in 3..Len(doc.text) : SubSeq(doc.text, p - 2, p) # <<Backslash, Backslash, Quote>>

(* Views stay within the text and its terminator, and so does the cursor of   *)
(* the function that scans one, even where the text ends within an escape     *)
(* (json.cpp:96-106, 251-261).                                                *)
TypeOK ==
    /\ val.type \in {"Null", "String", "Object", "Array", "Literal", "Number"}
    /\ val.src => val.start < Len(text) /\ val.start <= val.end /\ val.end <= Len(text) + 1
    /\ Running \/ op \in {"none", "counted"}
    /\ Running => pos \in (val.start + 1)..(Len(text) + 1)
    /\ count \in 0..(SizeRange - 1)

(* What a path leads to in a whole document is the value that is written      *)
(* there, and nothing if there is none: not a member of a member, nor what a  *)
(* string only quotes (json.cpp:61-78, 239-308).                              *)
FindsValue ==
    Whole /\ Plain /\ op = "none" =>
        IF path \in DOMAIN doc.at
        THEN LET written == doc.at[path]
             IN /\ val = Value(written.type, written.start, written.end)
                /\ val.type = "String" => AsString(val) = written.content
        ELSE ~val.src

(* A response that was cut, which the transport hands on as if it were whole, *)
(* leads nowhere the whole one does not: what is found begins where the value *)
(* asked for does and ends no later, and a string is the beginning of the one *)
(* written, if not an exception or with half an escape at its end.            *)
CutNeverMisleads ==
    ~Whole /\ Plain /\ op = "none" /\ val.type # "Null" =>
        /\ path \in DOMAIN doc.at
        /\ val.start = doc.at[path].start /\ val.end <= doc.at[path].end
        /\ val.type = "String" =>
               LET read == AsString(val)
                   written == doc.at[path].content
               IN \/ read = <<"throws">>
                  \/ IsPrefix(read, written)
                  \/ Last(read) = Backslash /\ IsPrefix(Front(read), written)

(* arraySize() is the number of elements there are to index, and never more   *)
(* for a document that was cut (json.cpp:310-328).                            *)
CountsElements ==
    Plain /\ op = "counted" =>
        LET elements == {i \in 0..(SizeRange - 1) : Append(path, Element(i)) \in DOMAIN doc.at}
        IN IF Whole THEN count = Cardinality(elements) ELSE count <= Cardinality(elements)

(* Every access returns, cut or not, unless the text breaks off within a      *)
(* literal, or a string ends in a backslash: each iteration consumes          *)
(* something (json.cpp:246-277, 293-306, 317-326).                            *)
Returns == Running /\ Plain /\ "x" \notin Range(text) ~> ~Running

(* "handles nested objects, null checks, and arrays robustly"                 *)
(* (rpc_client.cpp:238-239): every access to a whole document returns.        *)
WholeReturns == Running /\ Whole ~> ~Running
=============================================================================
