---------------------------- MODULE JsonDocument ----------------------------
(* The JSON a server may write: a text and where its values lie in it, as far *)
(* as a reader depends on it.  Nothing here is read off the reader.           *)
(*                                                                            *)
(* A document is [text, at].  at[path] is the value that a path of selections *)
(* leads to: its type, the places [start, end) it takes in the text, for a    *)
(* string what it says, and for an object or an array its items in the order  *)
(* they are written, each with the selection that leads to it and the places  *)
(* of its key, which are none in an array.                                    *)
EXTENDS SequencesExt, Integers

Member(key) == [member |-> key]
Element(index) == [element |-> index]

Selections == [member : Seq(STRING)] \cup [element : Nat]

Types == {"String", "Object", "Array", "Literal", "Number"}
Space == " "
Quote == "\""
Backslash == "\\"
Comma == ","
Colon == ":"
OpenBrace == "{"
CloseBrace == "}"
OpenBracket == "["
CloseBracket == "]"

Opening == [Object |-> OpenBrace, Array |-> OpenBracket]
Closing == [Object |-> CloseBrace, Array |-> CloseBracket]
Braces == {OpenBrace, CloseBrace, OpenBracket, CloseBracket}

Char(d, p) == d.text[p + 1]

(* Nothing is written from p up to q. *)
Blank(d, p, q) == p <= q /\ \A r \in p..(q - 1) : Char(d, r) = Space

(* Nothing but a separator is. *)
Parted(d, p, q, c) == \E m \in p..(q - 1) : Blank(d, p, m) /\ Char(d, m) = c /\ Blank(d, m + 1, q)

-----------------------------------------------------------------------------
(* Strings.  Between the quotes each character is itself or an escape of two. *)

Means(c) == IF c = "t" THEN "\t" ELSE c

OneCharacter(d, p, q) ==
    \/ q = p + 1 /\ Char(d, p) \notin {Quote, Backslash, "n"}
    \/ q = p + 2 /\ Char(d, p) = Backslash /\ Char(d, p + 1) # "n"

Said(d, p) == IF Char(d, p) = Backslash THEN Means(Char(d, p + 1)) ELSE Char(d, p)

(* marks are the places of the characters, and of the closing quote. *)
Quoted(d, start, end, marks) ==
    LET n == Len(marks)
    IN /\ Char(d, start) = Quote /\ Char(d, end - 1) = Quote
       /\ marks[1] = start + 1 /\ marks[n] = end - 1
       /\ \A k \in 1..(n - 1) : OneCharacter(d, marks[k], marks[k + 1])

Marks(start, end) == UNION {[1..n -> (start + 1)..(end - 1)] : n \in 1..(end - start - 1)}

-----------------------------------------------------------------------------
(* Values.                                                                    *)

(* Where the item after the first i begins, or the container closes. *)
Ahead(w, i) == IF i < Len(w.items) THEN w.items[i + 1].start ELSE w.end - 1

(* The items of the value a path leads to are apart from one another and from *)
(* its brackets, and the path leads on to them alone.                         *)
HoldsItems(d, path) ==
    LET w == d.at[path]
        n == Len(w.items)
        Item(i) == d.at[Append(path, w.items[i].by)]
    IN /\ Blank(d, w.start + 1, Ahead(w, 0))
       /\ \A i \in 1..n :
              /\ Append(path, w.items[i].by) \in DOMAIN d.at
              /\ IF i < n THEN Parted(d, Item(i).end, Ahead(w, i), Comma)
                          ELSE Blank(d, Item(i).end, Ahead(w, i))
              /\ IF w.type = "Array"
                 THEN w.items[i].by = Element(i - 1) /\ w.items[i].start = Item(i).start
                 ELSE /\ w.items[i].by = Member(SubSeq(d.text, w.items[i].start + 2, w.items[i].end - 1))
                      /\ Parted(d, w.items[i].end, Item(i).start, Colon)
       /\ \A i, j \in 1..n : w.items[i].by = w.items[j].by => i = j

IsValue(d, path) ==
    LET w == d.at[path]
    IN /\ w.type \in Types /\ w.start \in 0..(w.end - 1) /\ w.end \in 1..Len(d.text)
       /\ w.items \in Seq([by : Selections, start : Nat, end : Nat])
       /\ CASE w.type = "String" ->
                   \E marks \in Marks(w.start, w.end) :
                       /\ Quoted(d, w.start, w.end, marks)
                       /\ w.content = [k \in 1..(Len(marks) - 1) |-> Said(d, marks[k])]
            [] w.type = "Number" -> \A p \in w.start..(w.end - 1) : Char(d, p) = "0"
            [] w.type = "Literal" -> Char(d, w.start) = "n" /\ w.end = w.start + 1
            [] OTHER -> /\ Char(d, w.start) = Opening[w.type] /\ Char(d, w.end - 1) = Closing[w.type]
                        /\ HoldsItems(d, path)
       /\ w.type \in {"Object", "Array"} \/ w.items = <<>>
       /\ path = <<>> \/ \E from \in DOMAIN d.at : \E i \in 1..Len(d.at[from].items) :
                             path = Append(from, d.at[from].items[i].by)

-----------------------------------------------------------------------------
(* Documents.                                                                 *)

Span(type, start, end) == [type |-> type, start |-> start, end |-> end]

Names(d) ==
    {Span("String", item.start, item.end) :
        item \in UNION {Range(d.at[path].items) : path \in {q \in DOMAIN d.at : d.at[q].type = "Object"}}}

Spans(d) == {Span(d.at[path].type, d.at[path].start, d.at[path].end) : path \in DOMAIN d.at} \cup Names(d)

(* What begins within another ends within it, and not within a string, a      *)
(* number or a literal.                                                       *)
Nested(d) ==
    \A s, t \in Spans(d) :
        /\ s.start = t.start => s = t
        /\ s.start < t.start /\ t.start < s.end => s.type \in {"Object", "Array"} /\ t.end < s.end

InString(d, p) == \E s \in Spans(d) : s.type = "String" /\ s.start <= p /\ p < s.end

(* What is a quote, a backslash or a brace belongs to a string or a container. *)
Accounted(d) ==
    \A p \in 0..(Len(d.text) - 1) :
        /\ Char(d, p) \in {Quote, Backslash} => InString(d, p)
        /\ Char(d, p) \in Braces =>
               \/ InString(d, p)
               \/ \E s \in Spans(d) :
                      /\ s.type \in {"Object", "Array"}
                      /\ \/ p = s.start /\ Char(d, p) = Opening[s.type]
                         \/ p = s.end - 1 /\ Char(d, p) = Closing[s.type]

IsDocument(d) ==
    /\ d.text \in Seq(STRING)
    /\ DOMAIN d.at \subseteq Seq(Selections)
    /\ <<>> \in DOMAIN d.at
    /\ Blank(d, 0, d.at[<<>>].start) /\ Blank(d, d.at[<<>>].end, Len(d.text))
    /\ \A path \in DOMAIN d.at : IsValue(d, path)
    /\ \A s \in Names(d) :
           /\ s.start \in 0..(s.end - 1) /\ s.end \in 1..Len(d.text)
           /\ \E marks \in Marks(s.start, s.end) : Quoted(d, s.start, s.end, marks)
    /\ Nested(d)
    /\ Accounted(d)
=============================================================================
