-------------------------- MODULE JsonReaderProofs --------------------------
(* Proofs about JsonReader for every set of documents, every cut of them and  *)
(* every path of selections: the cursor and the views stay within the text.   *)
EXTENDS JsonReader, ListProofs, FiniteSetTheorems

-----------------------------------------------------------------------------
(* The scanners.                                                              *)

(* Passing over a run of characters does not leave the view. *)
LEMMA AfterRunStays ==
    ASSUME NEW p \in Nat, NEW len \in Nat, NEW c
    PROVE  /\ AfterRun(c, p, len) \in Nat /\ AfterRun(c, p, len) >= p
           /\ p <= len => AfterRun(c, p, len) <= len
           /\ p >= len => AfterRun(c, p, len) = p
  <1>1. CASE p >= len
    BY <1>1 DEF AfterRun
  <1>2. CASE ~(p >= len)
    <2> DEFINE ends == {q \in p..(len - 1) : At(q) # c} \cup {len}
    <2>1. ends \in SUBSET Nat /\ len \in ends /\ \A q \in ends : p <= q /\ q <= len
      BY <1>2
    <2>2. AfterRun(c, p, len) = Min(ends)
      BY <1>2 DEF AfterRun
    <2> HIDE DEF ends
    <2>3. \E x \in ends : \A y \in ends : x <= y
      BY <2>1, LeastNumber
    <2>4. Min(ends) \in ends
      BY <2>3 DEF Min
    <2> QED
      BY <1>2, <2>1, <2>2, <2>4
  <1> QED
    BY <1>1, <1>2

(* Nor does passing over blanks and a separator. *)
LEMMA SkipSeparatorStays ==
    ASSUME NEW p \in Nat, NEW len \in Nat, NEW c, NEW top \in Nat, p <= top, len <= top
    PROVE  SkipSeparator(p, len, c) \in p..top
  <1> DEFINE q == SkipWhitespace(p, len)
  <1>1. q \in Nat /\ q >= p /\ (p <= len => q <= len) /\ (p >= len => q = p)
    BY AfterRunStays DEF SkipWhitespace
  <1> QED
    BY <1>1 DEF SkipSeparator

(* The search for a closing quote, step by step.                              *)
LEMMA ClosingQuoteSteps ==
    ASSUME NEW len \in Nat
    PROVE  \A q \in Nat :
               ClosingQuote(q, len) = IF q >= len \/ At(q) = Quote THEN q
                                      ELSE ClosingQuote(IF At(q) = Backslash THEN q + 2 ELSE q + 1, len)
  <1> DEFINE closes(q) == At(q) = Quote
             escapes(q) == At(q) = Backslash
             Ends(q) == q >= len \/ closes(q)
             After(q) == IF escapes(q) THEN q + 2 ELSE q + 1
             Scans(f) == f = [q \in Nat |-> IF Ends(q) THEN q ELSE f[After(q)]]
             D == Nat
             T == Nat
             size == [q \in Nat |-> IF q >= len THEN 0 ELSE len - q]
             stop == {q \in Nat : Ends(q)}
             base == [q \in Nat |-> q]
             prev == [q \in Nat |-> After(q)]
  <1> HIDE DEF closes, escapes
  <1>1. /\ size \in [D -> Nat] /\ stop \in SUBSET D /\ base \in [D -> T] /\ prev \in [D -> D]
        /\ \A q \in D : q \notin stop => size[prev[q]] < size[q]
    OBVIOUS
  <1>2. PICK g \in [D -> T] : IsSearch(g, D, stop, base, prev)
    <2> HIDE DEF size, stop, base, prev, D, T
    <2> QED
      BY <1>1, SearchExists
  <1>3. Scans(g)
    <2>1. ASSUME NEW q \in Nat
          PROVE  g[q] = IF Ends(q) THEN q ELSE g[After(q)]
      <3>1. (q \in stop <=> Ends(q)) /\ base[q] = q /\ prev[q] = After(q)
        OBVIOUS
      <3> HIDE DEF After, Ends, stop, base, prev
      <3> QED
        BY <1>2, <3>1 DEF IsSearch
    <2> HIDE DEF Ends, After
    <2> QED
      BY <1>2, <2>1
  <1> DEFINE from == CHOOSE f : Scans(f)
  <1>4. \A q : ClosingQuote(q, len) = from[q]
    BY DEF ClosingQuote, closes, escapes
  <1>5. Scans(from)
    <2> HIDE DEF Scans
    <2> QED
      BY <1>3
  <1>6. \A q \in Nat : from[q] = IF Ends(q) THEN q ELSE from[After(q)]
    <2> HIDE DEF from, Ends, After
    <2> QED
      BY <1>5
  <1> HIDE DEF from, Scans
  <1> QED
    BY <1>4, <1>6 DEF closes, escapes

(* It ends no more than one place behind the view, which is where an escape   *)
(* at its end leads.                                                          *)
LEMMA ClosingQuoteStays ==
    ASSUME NEW p \in Nat, NEW len \in Nat, p <= len + 1
    PROVE  ClosingQuote(p, len) \in p..(len + 1)
  <1> DEFINE Stays == {n \in Nat : \A q \in Nat : q <= len + 1 /\ len + 1 - q <= n
                                                  => ClosingQuote(q, len) \in q..(len + 1)}
  <1>1. 0 \in Stays
    BY ClosingQuoteSteps
  <1>2. ASSUME NEW n \in Nat, n \in Stays
        PROVE  n + 1 \in Stays
    <2> SUFFICES ASSUME NEW q \in Nat, q <= len + 1, len + 1 - q <= n + 1
                 PROVE  ClosingQuote(q, len) \in q..(len + 1)
      OBVIOUS
    <2>1. CASE q >= len \/ At(q) = Quote
      BY <2>1, ClosingQuoteSteps
    <2>2. CASE ~(q >= len \/ At(q) = Quote)
      <3> DEFINE r == IF At(q) = Backslash THEN q + 2 ELSE q + 1
      <3>1. r \in Nat /\ r > q /\ r <= len + 1 /\ len + 1 - r <= n
        BY <2>2
      <3>2. ClosingQuote(q, len) = ClosingQuote(r, len)
        BY <2>2, ClosingQuoteSteps
      <3> HIDE DEF r
      <3>3. ClosingQuote(r, len) \in r..(len + 1)
        BY <1>2, <3>1
      <3> QED
        BY <3>1, <3>2, <3>3
    <2> QED
      BY <2>1, <2>2
  <1>3. len + 1 - p \in Stays
    <2> HIDE DEF Stays
    <2> QED
      BY <1>1, <1>2, AllNumbers
  <1> QED
    BY <1>3

(* The search for a closing brace ends within the view, or at its end. *)
LEMMA FindMatchingBraceStays ==
    ASSUME NEW start \in Nat, NEW len \in Nat, start <= len, NEW open, NEW close
    PROVE  FindMatchingBrace(start, len, open, close) \in start..len
  <1>1. ASSUME NEW braces \in SUBSET (start..(len - 1))
        PROVE  FirstBalanced(braces, close, len) \in start..len
    <2> DEFINE closing == {p \in braces : At(p) = close}
               UpTo(places, p) == Cardinality({q \in places : q <= p})
               balanced(p) == 2 * UpTo(closing, p) = UpTo(braces, p) + 1
               ends == {p \in closing : balanced(p)} \cup {len}
    <2>1. ends \in SUBSET Nat /\ ends # {} /\ \A p \in ends : p \in start..len
      <3>1. \A p \in closing : p \in start..(len - 1)
        OBVIOUS
      <3> HIDE DEF closing, balanced
      <3> QED
        BY <3>1
    <2>2. FirstBalanced(braces, close, len) = Min(ends)
      BY DEF FirstBalanced
    <2> HIDE DEF ends
    <2>3. Min(ends) \in ends
      BY <2>1, LeastNumber DEF Min
    <2> QED
      BY <2>1, <2>2, <2>3
  <1> DEFINE quotes == {p \in start..(len - 1) : At(p) = Quote /\ At(p - 1) # Backslash}
             braces == {p \in start..(len - 1) :
                         /\ At(p) \in {open, close}
                         /\ Cardinality({q \in quotes : q <= p}) % 2 = 0}
  <1>2. FindMatchingBrace(start, len, open, close) = FirstBalanced(braces, close, len)
    BY DEF FindMatchingBrace
  <1>3. braces \in SUBSET (start..(len - 1))
    OBVIOUS
  <1> HIDE DEF braces
  <1> QED
    BY <1>1, <1>2, <1>3

(* A value that is found begins before the end of the view and ends no more   *)
(* than one place behind it; an object or an array is at least two long,      *)
(* or one if the text ends there.                                             *)
LEMMA ParseValueStays ==
    ASSUME NEW p \in Nat, NEW len \in Nat
    PROVE  LET v == ParseValue(p, len)
           IN /\ v.type \in {"Null", "String", "Object", "Array", "Literal", "Number"}
              /\ v.src \in BOOLEAN /\ v.start \in Nat /\ v.end \in Nat
              /\ v.type \in {"Object", "Array"} => v.src /\ v.end >= v.start + 2
              /\ v.src => p <= v.start /\ v.start < len /\ v.start <= v.end /\ v.end <= len + 1
  <1> DEFINE start == SkipWhitespace(p, len)
             View(type, end) == Value(type, start, end)
             v == ParseValue(p, len)
  <1>1. start \in Nat /\ p <= start
    BY AfterRunStays DEF SkipWhitespace
  <1>2. CASE start >= len
    BY <1>2 DEF ParseValue, NoValue
  <1>3. CASE start < len
    <2> DEFINE quoted == AfterQuote(ClosingQuote(start + 1, len), len)
               object == FindMatchingBrace(start + 1, len, OpenBrace, CloseBrace) + 1
               array == FindMatchingBrace(start + 1, len, OpenBracket, CloseBracket) + 1
               number == AfterRun("0", start, len)
    <2>1. quoted \in start..(len + 1)
      <3> DEFINE first == start + 1
      <3>1. first \in Nat /\ first > start /\ first <= len + 1
        BY <1>1, <1>3
      <3> HIDE DEF first
      <3>2. ClosingQuote(first, len) \in first..(len + 1)
        BY <3>1, ClosingQuoteStays
      <3>3. ClosingQuote(start + 1, len) \in (start + 1)..(len + 1)
        BY <3>2 DEF first
      <3> HIDE DEF start
      <3> QED
        BY <1>1, <3>3 DEF AfterQuote
    <2>2. object \in (start + 2)..(len + 1) /\ array \in (start + 2)..(len + 1)
      <3>1. ASSUME NEW open, NEW close
            PROVE  FindMatchingBrace(start + 1, len, open, close) \in (start + 1)..len
        <4> DEFINE first == start + 1
        <4>1. first \in Nat /\ first <= len
          BY <1>1, <1>3
        <4> HIDE DEF first
        <4>2. FindMatchingBrace(first, len, open, close) \in first..len
          BY <4>1, FindMatchingBraceStays
        <4> QED
          BY <4>2 DEF first
      <3>2. \A end : end \in (start + 1)..len => end + 1 \in (start + 2)..(len + 1)
        <4> HIDE DEF start
        <4> QED
          BY <1>1
      <3> QED
        BY <3>1, <3>2
    <2>3. number \in start..len
      BY <1>1, <1>3, AfterRunStays
    <2>4. \/ v = View("String", quoted)
          \/ v = View("Object", object)
          \/ v = View("Array", array)
          \/ v = View("Literal", start + 1)
          \/ v = View("Number", number)
          \/ v = View("Null", start)
      <3>1. ~(start >= len)
        BY <1>1, <1>3
      <3> DEFINE at == At(start)
      <3>2. v = CASE at = Quote -> View("String", quoted)
                  [] at = OpenBrace -> View("Object", object)
                  [] at = OpenBracket -> View("Array", array)
                  [] at = "n" -> View("Literal", start + 1)
                  [] at = "0" -> View("Number", number)
                  [] OTHER -> View("Null", start)
        BY <3>1, Zenon DEF ParseValue
      <3> HIDE DEF v, at, View, quoted, object, array, number, start
      <3> QED
        BY <3>2
    <2> DEFINE Stays(u) ==
                   /\ u.type \in {"Null", "String", "Object", "Array", "Literal", "Number"}
                   /\ u.src \in BOOLEAN /\ u.start \in Nat /\ u.end \in Nat
                   /\ u.type \in {"Object", "Array"} => u.src /\ u.end >= u.start + 2
                   /\ u.src => p <= u.start /\ u.start < len /\ u.start <= u.end /\ u.end <= len + 1
    <2> HIDE DEF start, quoted, object, array, number, v
    <2>5. ASSUME NEW type \in {"Null", "String", "Object", "Array", "Literal", "Number"},
                 NEW end \in start..(len + 1),
                 type \in {"Object", "Array"} => end >= start + 2
          PROVE  Stays(View(type, end))
      BY <1>1, <1>3, <2>5 DEF Value
    <2>6. start \in start..(len + 1) /\ start + 1 \in start..(len + 1)
      BY <1>1, <1>3
    <2> HIDE DEF View, Stays
    <2>7. /\ Stays(View("String", quoted)) /\ Stays(View("Literal", start + 1))
          /\ Stays(View("Number", number)) /\ Stays(View("Null", start))
      BY <1>1, <1>3, <2>1, <2>3, <2>5, <2>6
    <2>8. Stays(View("Object", object)) /\ Stays(View("Array", array))
      BY <1>1, <1>3, <2>2, <2>5
    <2>9. Stays(v)
      BY <2>4, <2>7, <2>8
    <2> QED
      BY <2>9 DEF Stays, v
  <1> QED
    BY <1>1, <1>2, <1>3

-----------------------------------------------------------------------------
(* The inductive invariant.                                                   *)

(* A function that runs has a value to scan, and its last character is not    *)
(* its first.                                                                 *)
Viewed ==
    /\ doc \in Documents
    /\ Len(text) \in Nat
    /\ val.src \in BOOLEAN /\ val.start \in Nat /\ val.end \in Nat
    /\ val.type \in {"Object", "Array"} => val.src /\ val.end >= val.start + 2
    /\ Running => val.type \in {"Object", "Array"}

IInv == TypeOK /\ Viewed

LEMMA SizeIsPositive == ASSUME doc \in Documents PROVE SizeRange \in Nat /\ SizeRange > 0
  <1>1. Len(doc.text) \in Nat /\ Len(doc.text) < SizeRange /\ SizeRange \in Nat
    BY DocumentAssumption, SizeAssumption DEF IsDocument
  <1> QED
    BY <1>1

(* However much of a document was received has a length.                      *)
LEMMA ReceivedHasLength ==
    ASSUME NEW whole \in Seq(STRING), NEW n \in 0..Len(whole), NEW got \in Received(whole, n)
    PROVE  Len(got) = n /\ Len(got) \in Nat
  <1> DEFINE cut == SubSeq(whole, 1, n)
  <1>1. cut \in Seq(STRING) /\ Len(cut) = n /\ n \in Nat
    OBVIOUS
  <1>2. got = cut \/ got = [cut EXCEPT ![n] = "x"]
    BY DEF Received
  <1> HIDE DEF cut
  <1>3. Len([cut EXCEPT ![n] = "x"]) = n
    BY <1>1
  <1> QED
    BY <1>1, <1>2, <1>3

LEMMA InitIInv == Init => IInv
  <1> SUFFICES ASSUME Init
               PROVE  IInv
    OBVIOUS
  <1>1. doc \in Documents /\ op = "none" /\ count = 0
    BY DEF Init
  <1>2. Len(text) \in Nat
    <2>1. doc.text \in Seq(STRING)
      BY <1>1, DocumentAssumption DEF IsDocument
    <2>2. PICK n \in 0..Len(doc.text) : text \in Received(doc.text, n)
      BY DEF Init
    <2> QED
      BY <2>1, <2>2, ReceivedHasLength
  <1>3. val = ParseValue(0, Len(text))
    BY DEF Init
  <1>4. Viewed
    BY <1>1, <1>2, <1>3, ParseValueStays DEF Viewed, Running
  <1>5. TypeOK
    BY <1>1, <1>2, <1>3, ParseValueStays, SizeIsPositive DEF TypeOK, Running
  <1> QED
    BY <1>4, <1>5 DEF IInv

(* Where the cursor of a function that runs may be. *)
LEMMA CursorStays ==
    ASSUME IInv, Running
    PROVE  /\ End \in Nat /\ End >= val.start + 1 /\ End <= Len(text)
           /\ pos \in Nat /\ pos >= val.start + 1 /\ pos <= Len(text) + 1
           /\ val.start \in Nat /\ Len(text) \in Nat
  BY DEF IInv, TypeOK, Viewed, End

(* What a function returns is a view of the text.                             *)
LEMMA ReturnIInv ==
    ASSUME IInv, NEW v, Return(v),
           v = NoValue \/ (Running /\ v = ParseValue(pos, End))
    PROVE  IInv'
  <1>1. /\ v.type \in {"Null", "String", "Object", "Array", "Literal", "Number"}
        /\ v.src \in BOOLEAN /\ v.start \in Nat /\ v.end \in Nat
        /\ v.type \in {"Object", "Array"} => v.src /\ v.end >= v.start + 2
        /\ v.src => v.start < Len(text) /\ v.start <= v.end /\ v.end <= Len(text) + 1
    <2>1. CASE v = NoValue
      BY <2>1 DEF NoValue
    <2>2. CASE Running /\ v = ParseValue(pos, End)
      <3>1. pos \in Nat /\ End \in Nat /\ Len(text) \in Nat /\ End <= Len(text)
        BY <2>2, CursorStays
      <3>2. /\ v.type \in {"Null", "String", "Object", "Array", "Literal", "Number"}
            /\ v.src \in BOOLEAN /\ v.start \in Nat /\ v.end \in Nat
            /\ v.type \in {"Object", "Array"} => v.src /\ v.end >= v.start + 2
            /\ v.src => pos <= v.start /\ v.start < End
                       /\ v.start <= v.end /\ v.end <= End + 1
        BY <2>2, <3>1, ParseValueStays
      <3> QED
        BY <3>1, <3>2
    <2> QED
      BY <2>1, <2>2
  <1>2. val' = v /\ op' = "none" /\ UNCHANGED <<doc, text, count>>
    BY DEF Return
  <1> QED
    BY <1>1, <1>2 DEF IInv, TypeOK, Viewed, Running

(* A function goes on, with its cursor where it was or further.               *)
LEMMA GoesOnIInv ==
    ASSUME IInv, Running, Running', pos' \in pos..(Len(text) + 1),
           count' \in 0..(SizeRange - 1), UNCHANGED <<doc, text, val>>
    PROVE  IInv'
  <1>1. pos' \in (val.start + 1)..(Len(text) + 1)
    BY CursorStays
  <1> QED
    BY <1>1 DEF IInv, TypeOK, Viewed, Running

(* The cursor passes over a value and the separator behind it.                *)
LEMMA PassesOver ==
    ASSUME IInv, Running, NEW c
    PROVE  SkipSeparator(CursorAfter(ParseValue(pos, End), pos, End), End, c)
               \in pos..(Len(text) + 1)
  <1> DEFINE v == ParseValue(pos, End)
             after == CursorAfter(v, pos, End)
             top == Len(text) + 1
  <1>1. pos \in Nat /\ End \in Nat /\ top \in Nat /\ pos <= top /\ End + 1 <= top
    BY CursorStays
  <1>2. after \in Nat /\ pos <= after /\ after <= top
    <2>1. v.src \in BOOLEAN /\ v.start \in Nat /\ v.end \in Nat
          /\ (v.src => pos <= v.start /\ v.start <= v.end /\ v.end <= End + 1)
      BY <1>1, ParseValueStays
    <2>2. /\ SkipWhitespace(pos, End) \in Nat /\ SkipWhitespace(pos, End) >= pos
          /\ SkipWhitespace(pos, End) <= top
      <3> DEFINE spaces == AfterRun(Space, pos, End)
      <3>1. /\ spaces \in Nat /\ spaces >= pos
            /\ pos <= End => spaces <= End
            /\ pos >= End => spaces = pos
        BY <1>1, AfterRunStays
      <3> HIDE DEF spaces, top
      <3>2. spaces <= top
        BY <1>1, <3>1
      <3> QED
        BY <3>1, <3>2 DEF spaces, SkipWhitespace
    <2> HIDE DEF v, top
    <2> QED
      BY <1>1, <2>1, <2>2 DEF CursorAfter
  <1> HIDE DEF after, v, top
  <1>3. SkipSeparator(after, End, c) \in after..top
    BY <1>1, <1>2, SkipSeparatorStays
  <1> QED
    BY <1>1, <1>2, <1>3 DEF after, v, top

LEMMA PassElementIInv ==
    ASSUME IInv, Running, PassElement(ParseValue(pos, End))
    PROVE  IInv'
  <1>1. pos' \in pos..(Len(text) + 1)
    BY PassesOver DEF PassElement
  <1>2. count \in Nat /\ SizeRange \in Nat /\ SizeRange > 0
    BY SizeIsPositive DEF IInv, TypeOK, Viewed
  <1>3. (count + 1) % SizeRange \in 0..(SizeRange - 1)
    BY <1>2
  <1>4. count' = (count + 1) % SizeRange /\ UNCHANGED <<doc, text, val, op>>
    BY DEF PassElement
  <1>5. Running'
    BY <1>4 DEF Running
  <1> QED
    BY <1>1, <1>3, <1>4, <1>5, GoesOnIInv

LEMMA BeginIInv ==
    ASSUME IInv, NEW name \in {"member", "element", "size"}, NEW type \in {"Object", "Array"},
           Begin(name, type), val' = IF val.type = type THEN val ELSE NoValue
    PROVE  IInv'
  <1>1. doc' = doc /\ text' = text /\ count' = 0 /\ val.src
    BY DEF Begin
  <1>2. 0 \in 0..(SizeRange - 1)
    BY SizeIsPositive DEF IInv, Viewed
  <1>3. CASE val.type = type
    <2>1. val' = val /\ op' = name /\ pos' = val.start + 1
      BY <1>3 DEF Begin
    <2>2. pos' \in (val.start + 1)..(Len(text) + 1)
      BY <1>1, <2>1 DEF IInv, TypeOK, Viewed
    <2> QED
      BY <1>1, <1>2, <1>3, <2>1, <2>2 DEF IInv, TypeOK, Viewed, Running
  <1>4. CASE val.type # type
    <2>1. val' = NoValue /\ op' = "none" /\ ~Running'
      BY <1>4 DEF Begin, Running
    <2>2. val'.type = "Null" /\ val'.src = FALSE /\ val'.start = 0 /\ val'.end = 0
      BY <2>1 DEF NoValue
    <2>3. TypeOK'
      BY <1>1, <1>2, <2>1, <2>2 DEF IInv, TypeOK, Viewed
    <2>4. Viewed'
      <3>1. val'.src \in BOOLEAN
        BY <2>2, Zenon
      <3>2. val'.start \in Nat /\ val'.end \in Nat /\ val'.type \notin {"Object", "Array"}
        BY <2>2
      <3>3. doc' \in Documents /\ Len(text)' \in Nat
        BY <1>1 DEF IInv, Viewed
      <3> QED
        BY <2>1, <3>1, <3>2, <3>3 DEF Viewed
    <2> QED
      BY <2>3, <2>4 DEF IInv
  <1> QED
    BY <1>3, <1>4

LEMMA ReadKeyIInv ==
    ASSUME IInv, ReadKey
    PROVE  IInv'
  <1> DEFINE start == SkipWhitespace(pos, End)
             keyEnd == ClosingQuote(start + 1, End)
             quote == AfterQuote(keyEnd, End)
             top == Len(text) + 1
  <1>1. Running
    BY DEF ReadKey, Running
  <1>2. pos \in Nat /\ End \in Nat /\ top \in Nat /\ pos <= top /\ End + 1 <= top
    BY <1>1, CursorStays
  <1>3. start \in Nat /\ pos <= start
    BY <1>2, AfterRunStays DEF SkipWhitespace
  <1>4. CASE Return(NoValue)
    BY <1>4, ReturnIInv
  <1>5. CASE start < End /\ ~Return(NoValue)
    <2>1. keyEnd \in (start + 1)..(End + 1)
      <3> DEFINE first == start + 1
      <3>1. first \in Nat /\ first <= End + 1
        BY <1>2, <1>3, <1>5
      <3> HIDE DEF first
      <3>2. ClosingQuote(first, End) \in first..(End + 1)
        BY <1>2, <3>1, ClosingQuoteStays
      <3> QED
        BY <3>2 DEF first
    <2>2. quote \in Nat /\ pos <= quote /\ quote <= top
      <3> HIDE DEF start, keyEnd, top
      <3> QED
        BY <1>2, <1>3, <2>1 DEF AfterQuote
    <2>3. SkipSeparator(quote, End, Colon) \in quote..top
      <3> HIDE DEF quote, top
      <3> QED
        BY <1>2, <2>2, SkipSeparatorStays
    <2>4. /\ op' \in {"found", "other"}
          /\ pos' = SkipSeparator(quote, End, Colon)
          /\ UNCHANGED <<doc, text, val, path, count>>
      <3> HIDE DEF start, keyEnd, quote
      <3> QED
        BY <1>5, Zenon DEF ReadKey, start, keyEnd, quote
    <2>5. Running'
      BY <2>4 DEF Running
    <2>6. pos' \in pos..top
      <3> HIDE DEF quote, top
      <3> QED
        BY <1>2, <2>2, <2>3, <2>4
    <2>7. count' \in 0..(SizeRange - 1)
      BY <2>4 DEF IInv, TypeOK
    <2> QED
      BY <1>1, <2>4, <2>5, <2>6, <2>7, GoesOnIInv
  <1>6. start < End \/ Return(NoValue)
    <2>1. start >= End \/ start < End
      BY <1>2, <1>3
    <2> HIDE DEF start, keyEnd
    <2> QED
      BY <2>1, Zenon DEF ReadKey, start, keyEnd
  <1> QED
    BY <1>4, <1>5, <1>6

(* Every iteration and every call keeps the invariant. *)
LEMMA StepIInv == IInv /\ [Next]_vars => IInv'
  <1> SUFFICES ASSUME IInv, [Next]_vars
               PROVE  IInv'
    OBVIOUS
  <1>1. ASSUME NEW key \in Keys, Lookup(key)
        PROVE  IInv'
    BY <1>1, BeginIInv DEF Lookup
  <1>2. ASSUME NEW index \in 0..1, Index(index)
        PROVE  IInv'
    BY <1>2, BeginIInv DEF Index
  <1>3. CASE ArraySize
    <2>1. CASE val.type = "Array"
      BY <1>3, <2>1, BeginIInv DEF ArraySize
    <2>2. CASE val.type # "Array"
      <3>1. op' = "none" /\ count' = 0 /\ UNCHANGED <<doc, text, val>>
        BY <1>3, <2>2 DEF ArraySize, Begin
      <3>2. 0 \in 0..(SizeRange - 1)
        BY SizeIsPositive DEF IInv, Viewed
      <3> QED
        BY <3>1, <3>2 DEF IInv, TypeOK, Viewed, Running
    <2> QED
      BY <2>1, <2>2
  <1>4. CASE ReadKey
    BY <1>4, ReadKeyIInv
  <1>5. CASE FoundMember
    BY <1>5, ReturnIInv DEF FoundMember, Running
  <1>6. CASE PassMember
    <2>1. Running /\ Running' /\ UNCHANGED <<doc, text, val, count>>
      BY <1>6 DEF PassMember, Running
    <2>2. pos' \in pos..(Len(text) + 1)
      BY <1>6, <2>1, PassesOver DEF PassMember
    <2>3. count' \in 0..(SizeRange - 1)
      BY <2>1 DEF IInv, TypeOK
    <2> QED
      BY <2>1, <2>2, <2>3, GoesOnIInv
  <1>7. CASE NextElement
    <2>1. Running
      BY <1>7 DEF NextElement, Running
    <2>2. Return(NoValue) \/ Return(ParseValue(pos, End)) \/ PassElement(ParseValue(pos, End))
      BY <1>7 DEF NextElement
    <2> QED
      BY <2>1, <2>2, ReturnIInv, PassElementIInv
  <1>8. CASE CountElement
    <2>1. Running
      BY <1>8 DEF CountElement, Running
    <2>2. CASE Counted
      BY <2>2 DEF Counted, IInv, TypeOK, Viewed, Running
    <2>3. CASE PassElement(ParseValue(pos, End))
      BY <2>1, <2>3, PassElementIInv
    <2> QED
      BY <1>8, <2>2, <2>3 DEF CountElement
  <1>9. CASE UNCHANGED vars
    BY <1>9 DEF vars, IInv, TypeOK, Viewed, Running
  <1> QED
    BY <1>1, <1>2, <1>3, <1>4, <1>5, <1>6, <1>7, <1>8, <1>9 DEF Next, Step

(* The cursor and every view stay within the text and its terminator, for     *)
(* every document, wherever it was cut, and however deep the caller goes      *)
(* (json.cpp:96-106, 251-261).                                                *)
THEOREM CursorStaysInText == Spec => []TypeOK
  <1>1. IInv => TypeOK
    BY DEF IInv
  <1> QED
    BY <1>1, InitIInv, StepIInv, PTL DEF Spec

-----------------------------------------------------------------------------
(* What was received, against the document.                                   *)

(* What a text or a string that is read from it may hold: also what stands    *)
(* for a part of a literal, and what an escape is replaced by.                *)
Letter == STRING \cup {"x", "\t"}

(* The text is the beginning of the document, but for a literal that it may   *)
(* break off in.                                                              *)
FromDocument ==
    /\ doc \in Documents
    /\ text \in Seq(Letter) /\ Len(text) <= Len(doc.text)
    /\ \A p \in 0..(Len(text) - 1) :
           \/ At(p) = Char(doc, p)
           \/ At(p) = "x" /\ Char(doc, p) = "n" /\ ~Whole

(* What a response is cut from is a document. *)
LEMMA ADocument == ASSUME FromDocument PROVE IsDocument(doc) /\ doc.text \in Seq(STRING)
  BY DocumentAssumption DEF FromDocument, IsDocument

(* A response is no longer than the document it is cut from. *)
LEMMA Lengths ==
    ASSUME FromDocument
    PROVE  /\ Len(text) \in Nat /\ Len(doc.text) \in Nat /\ Len(text) <= Len(doc.text)
           /\ Whole => Len(text) = Len(doc.text)
  BY ADocument DEF FromDocument, Whole

(* No two of these characters are the same.                                   *)
LEMMA Characters ==
    /\ Quote \notin {Backslash, Space, Comma, Colon, OpenBrace, CloseBrace, OpenBracket, CloseBracket, "n", "x", "0"}
    /\ Backslash \notin {Space, Comma, Colon, OpenBrace, CloseBrace, OpenBracket, CloseBracket, "n", "x", "0"}
    /\ Space \notin {Comma, Colon, OpenBrace, CloseBrace, OpenBracket, CloseBracket, "n", "x", "0"}
    /\ Comma \notin {Colon, OpenBrace, CloseBrace, OpenBracket, CloseBracket, "n", "x", "0"}
    /\ Colon \notin {OpenBrace, CloseBrace, OpenBracket, CloseBracket, "n", "x", "0"}
    /\ OpenBrace \notin {CloseBrace, OpenBracket, CloseBracket, "n", "x", "0"}
    /\ CloseBrace \notin {OpenBracket, CloseBracket, "n", "x", "0"}
    /\ OpenBracket \notin {CloseBracket, "n", "x", "0"}
    /\ CloseBracket \notin {"n", "x", "0"}
  BY Zenon DEF Quote, Backslash, Space, Comma, Colon, OpenBrace, CloseBrace, OpenBracket, CloseBracket

(* A character with a meaning of its own is the same in both. *)
LEMMA SameCharacter ==
    ASSUME FromDocument, NEW p \in Nat, p < Len(text), NEW c, c \notin {"n", "x"}
    PROVE  At(p) = c <=> Char(doc, p) = c
  <1>1. p \in 0..(Len(text) - 1)
    BY Lengths
  <1> QED
    BY <1>1 DEF FromDocument

(* A run is over at the first place that has another character. *)
LEMMA AfterRunEnds ==
    ASSUME NEW p \in Nat, NEW q \in Nat, NEW len \in Nat, NEW c, p <= q, q <= len,
           \A r \in p..(q - 1) : At(r) = c, q < len => At(q) # c
    PROVE  AfterRun(c, p, len) = q
  <1>1. CASE p >= len
    BY <1>1 DEF AfterRun
  <1>2. CASE ~(p >= len)
    <2> DEFINE ends == {r \in p..(len - 1) : At(r) # c} \cup {len}
    <2>1. ends \in SUBSET Nat /\ q \in ends /\ \A r \in ends : q <= r
      BY <1>2
    <2>2. AfterRun(c, p, len) = Min(ends)
      BY <1>2 DEF AfterRun
    <2> HIDE DEF ends
    <2>3. Min(ends) \in ends /\ \A r \in ends : Min(ends) <= r
      BY <2>1 DEF Min
    <2>4. Min(ends) = q
      <3>1. Min(ends) <= q /\ q <= Min(ends) /\ Min(ends) \in Nat
        BY <2>1, <2>3
      <3> QED
        BY <3>1
    <2> QED
      BY <2>2, <2>4
  <1> QED
    BY <1>1, <1>2

(* Where the blanks in front of a place lead, or the end of the view.         *)
LEMMA BlanksEnd ==
    ASSUME FromDocument, NEW p \in Nat, NEW q \in Nat, NEW len \in Nat, len <= Len(text),
           Blank(doc, p, q), q < len => Char(doc, q) # Space
    PROVE  SkipWhitespace(p, len) = IF p >= len THEN p ELSE IF q < len THEN q ELSE len
  <1>1. p <= q /\ \A r \in p..(q - 1) : Char(doc, r) = Space
    BY DEF Blank
  <1>2. CASE p >= len
    BY <1>2 DEF SkipWhitespace, AfterRun
  <1>3. CASE p < len
    <2> DEFINE end == IF q < len THEN q ELSE len
    <2>1. end \in Nat /\ p <= end /\ end <= len
      BY <1>1, <1>3
    <2>2. ASSUME NEW r \in p..(end - 1)
          PROVE  At(r) = Space
      <3>1. r \in Nat /\ r < Len(text) /\ r \in p..(q - 1)
        BY Lengths
      <3> QED
        BY <1>1, <3>1, SameCharacter, Characters
    <2>3. end < len => At(end) # Space
      <3>1. end < len => end < Len(text) /\ end = q
        BY Lengths, <2>1
      <3> QED
        BY <2>1, <3>1, SameCharacter, Characters
    <2> HIDE DEF end
    <2>4. AfterRun(Space, p, len) = end
      BY <2>1, <2>2, <2>3, AfterRunEnds
    <2> QED
      BY <1>3, <2>4 DEF end, SkipWhitespace
  <1> QED
    BY <1>2, <1>3

(* A separator is passed over with the blanks before it. *)
LEMMA SeparatorPassed ==
    ASSUME FromDocument, NEW p \in Nat, NEW q \in Nat, NEW len \in Nat, len <= Len(text),
           NEW c \in {Comma, Colon}, Parted(doc, p, q, c)
    PROVE  LET r == SkipSeparator(p, len, c)
           IN r \in Nat /\ (Blank(doc, r, q) \/ (r >= len /\ len < q))
  <1>1. PICK m \in p..(q - 1) : Blank(doc, p, m) /\ Char(doc, m) = c /\ Blank(doc, m + 1, q)
    BY DEF Parted
  <1> DEFINE blanks == SkipWhitespace(p, len)
  <1>2. m \in Nat /\ m < q /\ p <= m /\ c # Space /\ c \notin {"n", "x"}
    BY Characters
  <1>3. blanks = IF p >= len THEN p ELSE IF m < len THEN m ELSE len
    BY <1>1, <1>2, BlanksEnd
  <1>4. m < len => At(m) = c
    <2>1. m < len => m < Len(text)
      BY <1>2, Lengths
    <2> QED
      BY <1>1, <1>2, <2>1, SameCharacter
  <1> HIDE DEF blanks
  <1>5. SkipSeparator(p, len, c) = IF blanks < len /\ At(blanks) = c THEN blanks + 1 ELSE blanks
    BY DEF SkipSeparator, blanks
  <1>6. CASE m < len
    <2>1. blanks = m
      BY <1>2, <1>3, <1>6
    <2> QED
      BY <1>1, <1>2, <1>4, <1>5, <1>6, <2>1
  <1>7. CASE ~(m < len)
    <2>1. blanks \in Nat /\ blanks >= len /\ len < q
      BY <1>2, <1>3, <1>7
    <2> QED
      BY <1>5, <2>1
  <1> QED
    BY <1>6, <1>7

(* Where there is none the cursor passes over the blanks alone.               *)
LEMMA SeparatorAbsent ==
    ASSUME FromDocument, NEW p \in Nat, NEW q \in Nat, NEW len \in Nat, len <= Len(text),
           NEW c \in {Comma, Colon}, Blank(doc, p, q), q < len => Char(doc, q) \notin {Space, c}
    PROVE  LET r == SkipSeparator(p, len, c)
           IN r \in Nat /\ (Blank(doc, r, q) \/ (r >= len /\ len < q))
  <1> DEFINE blanks == SkipWhitespace(p, len)
  <1>1. p <= q /\ c \notin {"n", "x"}
    BY Characters DEF Blank
  <1>2. blanks = IF p >= len THEN p ELSE IF q < len THEN q ELSE len
    BY BlanksEnd
  <1>3. q < len => At(q) # c
    BY <1>1, Lengths, SameCharacter
  <1> HIDE DEF blanks
  <1>4. SkipSeparator(p, len, c) = IF blanks < len /\ At(blanks) = c THEN blanks + 1 ELSE blanks
    BY DEF SkipSeparator, blanks
  <1>5. SkipSeparator(p, len, c) = blanks /\ blanks \in Nat
    BY <1>1, <1>2, <1>3, <1>4
  <1>6. Blank(doc, q, q)
    BY DEF Blank
  <1>7. CASE p > len
    BY <1>1, <1>2, <1>5, <1>7
  <1>8. CASE p <= len /\ q <= len
    <2>1. blanks = q
      BY <1>1, <1>2, <1>8
    <2> QED
      BY <1>5, <1>6, <2>1
  <1>9. CASE p <= len /\ q > len
    BY <1>1, <1>2, <1>5, <1>9
  <1> QED
    BY <1>7, <1>8, <1>9

-----------------------------------------------------------------------------
(* Strings.                                                                   *)

(* The marks of a string lie between its quotes. *)
LEMMA MarksInString ==
    ASSUME NEW start \in Nat, NEW end \in Nat, NEW marks \in Marks(start, end)
    PROVE  /\ Len(marks) \in Nat /\ Len(marks) >= 1 /\ Len(marks) <= end - start - 1
           /\ \A k \in 1..Len(marks) : marks[k] \in Nat /\ start < marks[k] /\ marks[k] < end
           /\ marks \in Seq(Nat)
  <1>1. PICK n \in 1..(end - start - 1) : marks \in [1..n -> (start + 1)..(end - 1)]
    BY DEF Marks
  <1>2. marks \in Seq((start + 1)..(end - 1)) /\ Len(marks) = n
    BY <1>1
  <1> QED
    BY <1>1, <1>2

(* Each place between the quotes belongs to a character.                      *)
LEMMA InACharacter ==
    ASSUME NEW d, NEW start \in Nat, NEW end \in Nat, NEW marks \in Marks(start, end),
           Quoted(d, start, end, marks), NEW p \in Nat, start < p, p < end - 1
    PROVE  \/ Char(d, p) \notin {Quote, Backslash, "n"}
           \/ Char(d, p) = Backslash /\ p + 2 < end /\ Char(d, p + 1) # "n"
           \/ Char(d, p - 1) = Backslash /\ p - 1 > start /\ Char(d, p) # "n"
  <1> DEFINE n == Len(marks)
             T == {k \in 1..n : marks[k] > p}
  <1>1. /\ n \in Nat /\ n >= 1
        /\ \A k \in 1..n : marks[k] \in Nat /\ start < marks[k] /\ marks[k] < end
    BY MarksInString
  <1>2. /\ marks[1] = start + 1 /\ marks[n] = end - 1
        /\ \A k \in 1..(n - 1) : OneCharacter(d, marks[k], marks[k + 1])
    BY DEF Quoted
  <1>3. n \in T /\ T \in SUBSET Nat
    BY <1>1, <1>2
  <1> HIDE DEF T
  <1>4. PICK k \in T : \A j \in T : k <= j
    BY <1>3, LeastNumber
  <1> HIDE DEF n
  <1>5. k \in 2..n /\ marks[k] > p
    BY <1>1, <1>2, <1>4 DEF T
  <1> DEFINE i == k - 1
  <1>6. i \in 1..(n - 1) /\ i + 1 = k /\ i \in 1..n
    BY <1>1, <1>5
  <1>7. ~(marks[i] > p)
    <2>1. i \notin T
      BY <1>4, <1>5, <1>6
    <2> QED
      BY <1>6, <2>1 DEF T
  <1> HIDE DEF i
  <1> DEFINE a == marks[i]
             b == marks[k]
  <1>8. OneCharacter(d, a, b)
    BY <1>2, <1>6
  <1>9. a \in Nat /\ b \in Nat /\ a <= p /\ p < b /\ b < end /\ start < a
    BY <1>1, <1>5, <1>6, <1>7
  <1> HIDE DEF a, b
  <1>10. CASE b = a + 1 /\ Char(d, a) \notin {Quote, Backslash, "n"}
    <2>1. a = p
      BY <1>9, <1>10
    <2> QED
      BY <1>10, <2>1
  <1>11. CASE b = a + 2 /\ Char(d, a) = Backslash /\ Char(d, a + 1) # "n"
    <2>1. a = p \/ a = p - 1
      BY <1>9, <1>11
    <2>2. CASE a = p
      BY <1>9, <1>11, <2>2
    <2>3. CASE a = p - 1
      <3>1. a + 1 = p /\ p - 1 > start
        BY <1>9, <2>3
      <3> QED
        BY <1>11, <2>3, <3>1
    <2> QED
      BY <2>1, <2>2, <2>3
  <1> QED
    BY <1>8, <1>10, <1>11 DEF OneCharacter

(* A quote within a string comes after a backslash.                           *)
LEMMA QuoteInString ==
    ASSUME NEW d, NEW start \in Nat, NEW end \in Nat, NEW marks \in Marks(start, end),
           Quoted(d, start, end, marks), NEW p \in Nat, start < p, p < end - 1, Char(d, p) = Quote
    PROVE  Char(d, p - 1) = Backslash
  BY InACharacter, Characters

(* Three characters in a row are the end of a prefix. *)
LEMMA LastThree ==
    ASSUME NEW K, NEW s \in Seq(K), NEW e \in 3..Len(s), NEW a, NEW b, NEW c,
           s[e - 2] = a, s[e - 1] = b, s[e] = c
    PROVE  SubSeq(s, e - 2, e) = <<a, b, c>>
  <1> DEFINE part == SubSeq(s, e - 2, e)
             all == <<a, b, c>>
             m == e - 2
  <1>1. /\ m \in 1..(Len(s) + 1) /\ e \in (m - 1)..Len(s) /\ e - m + 1 = 3
    OBVIOUS
  <1>2. part \in Seq(K) /\ Len(part) = e - m + 1 /\ \A i \in 1..(e - m + 1) : part[i] = s[m + i - 1]
    BY <1>1, SubSeqProperties
  <1>3. all \in Seq(K) /\ Len(all) = 3 /\ all[1] = a /\ all[2] = b /\ all[3] = c
    <2>1. a \in K /\ b \in K /\ c \in K
      OBVIOUS
    <2> QED
      BY <2>1
  <1>4. part[1] = a /\ part[2] = b /\ part[3] = c /\ Len(part) = 3
    <2> HIDE DEF part
    <2>1. m + 1 - 1 = e - 2 /\ m + 2 - 1 = e - 1 /\ m + 3 - 1 = e
      OBVIOUS
    <2>2. 1 \in 1..(e - m + 1) /\ 2 \in 1..(e - m + 1) /\ 3 \in 1..(e - m + 1)
      OBVIOUS
    <2> HIDE DEF m
    <2>3. part[1] = s[m + 1 - 1] /\ part[2] = s[m + 2 - 1] /\ part[3] = s[m + 3 - 1]
      BY <1>2, <2>2
    <2> QED
      BY <1>1, <1>2, <2>1, <2>3
  <1> HIDE DEF part, all
  <1>5. \A i \in 1..3 : i = 1 \/ i = 2 \/ i = 3
    OBVIOUS
  <1>6. \A i \in 1..Len(part) : part[i] = all[i]
    BY <1>3, <1>4, <1>5
  <1>7. part = all
    BY <1>2, <1>3, <1>4, <1>6, SeqEqual
  <1> QED
    BY <1>7 DEF part, all

(* In a plain document the one that closes it does not.                       *)
LEMMA ClosedByQuote ==
    ASSUME FromDocument, Plain, NEW start \in Nat, NEW end \in Nat, end <= Len(doc.text),
           NEW marks \in Marks(start, end), Quoted(doc, start, end, marks)
    PROVE  end - 2 \in Nat /\ Char(doc, end - 2) # Backslash
  <1>1. Len(marks) >= 1 /\ Len(marks) <= end - start - 1 /\ Len(marks) \in Nat
    BY MarksInString
  <1>2. end - 2 \in Nat /\ end - 2 >= start
    BY <1>1
  <1>3. CASE end - 2 = start
    <2>1. Char(doc, start) = Quote
      BY DEF Quoted
    <2> QED
      BY <1>2, <1>3, <2>1, Characters
  <1>4. CASE end - 2 > start
    <2> SUFFICES ASSUME Char(doc, end - 2) = Backslash
                 PROVE  FALSE
      BY <1>2
    <2> DEFINE p == end - 2
    <2>1. p \in Nat /\ start < p /\ p < end - 1 /\ ~(p + 2 < end)
      BY <1>2, <1>4
    <2>2. Char(doc, p - 1) = Backslash /\ p - 1 > start
      <3> HIDE DEF p
      <3>1. Char(doc, p) = Backslash
        BY DEF p
      <3> QED
        BY <2>1, <3>1, InACharacter
    <2>3. Char(doc, end - 1) = Quote
      BY DEF Quoted
    <2>4. /\ doc.text[end - 2] = Backslash /\ doc.text[end - 1] = Backslash /\ doc.text[end] = Quote
          /\ end >= 3
      BY <2>1, <2>2, <2>3 DEF Char
    <2>5. SubSeq(doc.text, end - 2, end) = <<Backslash, Backslash, Quote>>
      <3>1. doc.text \in Seq(STRING) /\ end \in 3..Len(doc.text)
        BY <2>4, ADocument
      <3> QED
        BY <2>4, <3>1, LastThree
    <2> QED
      BY <2>4, <2>5, Lengths DEF Plain
  <1> QED
    BY <1>2, <1>3, <1>4

(* What the character it begins with makes of a value. *)
LEMMA ParsedAs ==
    ASSUME NEW p, NEW len
    PROVE  LET start == SkipWhitespace(p, len)
               v == ParseValue(p, len)
           IN /\ start >= len => v = NoValue
              /\ ~(start >= len) =>
                    /\ At(start) = Quote =>
                           v = Value("String", start, AfterQuote(ClosingQuote(start + 1, len), len))
                    /\ At(start) = OpenBrace =>
                           v = Value("Object", start,
                                     FindMatchingBrace(start + 1, len, OpenBrace, CloseBrace) + 1)
                    /\ At(start) = OpenBracket =>
                           v = Value("Array", start,
                                     FindMatchingBrace(start + 1, len, OpenBracket, CloseBracket) + 1)
                    /\ At(start) = "n" => v = Value("Literal", start, start + 1)
                    /\ At(start) = "0" => v = Value("Number", start, AfterRun("0", start, len))
                    /\ At(start) \notin {Quote, OpenBrace, OpenBracket, "n", "0"} =>
                           v = Value("Null", start, start)
  <1> DEFINE start == SkipWhitespace(p, len)
             quoted == Value("String", start, AfterQuote(ClosingQuote(start + 1, len), len))
             object == Value("Object", start, FindMatchingBrace(start + 1, len, OpenBrace, CloseBrace) + 1)
             array == Value("Array", start, FindMatchingBrace(start + 1, len, OpenBracket, CloseBracket) + 1)
             literal == Value("Literal", start, start + 1)
             number == Value("Number", start, AfterRun("0", start, len))
             none == Value("Null", start, start)
             at == At(start)
             v == ParseValue(p, len)
  <1>1. v = IF start >= len THEN NoValue
            ELSE CASE at = Quote -> quoted
                   [] at = OpenBrace -> object
                   [] at = OpenBracket -> array
                   [] at = "n" -> literal
                   [] at = "0" -> number
                   [] OTHER -> none
    BY Zenon DEF ParseValue
  <1> HIDE DEF start, quoted, object, array, literal, number, none, at, v
  <1>2. /\ start >= len => v = NoValue
        /\ ~(start >= len) =>
              /\ at = Quote => v = quoted
              /\ at = OpenBrace => v = object
              /\ at = OpenBracket => v = array
              /\ at = "n" => v = literal
              /\ at = "0" => v = number
              /\ at \notin {Quote, OpenBrace, OpenBracket, "n", "0"} => v = none
    BY <1>1, Characters
  <1> QED
    BY <1>2, Zenon DEF start, quoted, object, array, literal, number, none, at, v

(* A string that was received to its end is closed there; one that was not is *)
(* taken to go on as far as the view.                                         *)
LEMMA QuoteFound ==
    ASSUME FromDocument, NEW start \in Nat, NEW end \in Nat, NEW marks \in Marks(start, end),
           Quoted(doc, start, end, marks), end <= Len(doc.text),
           NEW len \in Nat, len <= Len(text), start < len
    PROVE  IF end - 1 < len THEN ClosingQuote(start + 1, len) = end - 1
           ELSE ClosingQuote(start + 1, len) \in {len, len + 1}
  <1> DEFINE n == Len(marks)
             Right(q) == IF end - 1 < len THEN ClosingQuote(q, len) = end - 1
                         ELSE ClosingQuote(q, len) \in {len, len + 1}
             Done == {j \in Nat : \A k \in 1..n : n - k <= j /\ marks[k] <= len + 1 => Right(marks[k])}
  <1>1. /\ n \in Nat /\ n >= 1
        /\ \A k \in 1..n : marks[k] \in Nat /\ start < marks[k] /\ marks[k] < end
    BY MarksInString
  <1>2. /\ marks[1] = start + 1 /\ marks[n] = end - 1 /\ Char(doc, end - 1) = Quote
        /\ \A k \in 1..(n - 1) : OneCharacter(doc, marks[k], marks[k + 1])
    BY DEF Quoted
  <1> HIDE DEF n
  <1>3. ASSUME NEW k \in 1..n, marks[k] >= len, marks[k] <= len + 1
        PROVE  Right(marks[k])
    <2> DEFINE q == marks[k]
    <2>1. q \in Nat /\ q < end
      BY <1>1
    <2> HIDE DEF q
    <2>2. ClosingQuote(q, len) = q
      BY <1>3, <2>1, ClosingQuoteSteps DEF q
    <2>3. ~(end - 1 < len) /\ q \in {len, len + 1}
      BY <1>3, <2>1 DEF q
    <2> QED
      BY <2>2, <2>3 DEF q
  <1>4. ASSUME marks[n] < len
        PROVE  Right(marks[n])
    <2> DEFINE q == end - 1
    <2>1. q \in Nat /\ q < len /\ q = marks[n]
      BY <1>1, <1>2, <1>4
    <2> HIDE DEF q
    <2>2. At(q) = Quote
      BY <1>2, <2>1, Lengths, SameCharacter, Characters DEF q
    <2>3. ClosingQuote(q, len) = q
      BY <2>1, <2>2, ClosingQuoteSteps
    <2> QED
      BY <2>1, <2>3 DEF q
  <1>5. ASSUME NEW k \in 1..(n - 1), marks[k] < len
        PROVE  marks[k + 1] <= len + 1 /\ ClosingQuote(marks[k], len) = ClosingQuote(marks[k + 1], len)
    <2> DEFINE a == marks[k]
               b == marks[k + 1]
    <2>1. k \in 1..n /\ k + 1 \in 1..n
      BY <1>1
    <2>2. a \in Nat /\ b \in Nat /\ a < len /\ OneCharacter(doc, a, b)
      BY <1>1, <1>2, <1>5, <2>1
    <2> HIDE DEF a, b
    <2>3. a < Len(text)
      BY <2>2, Lengths
    <2>4. b = IF At(a) = Backslash THEN a + 2 ELSE a + 1
      BY <2>2, <2>3, SameCharacter, Characters DEF OneCharacter
    <2>5. At(a) # Quote
      BY <2>2, <2>3, SameCharacter, Characters DEF OneCharacter
    <2>6. b <= len + 1
      BY <2>2, <2>4
    <2>7. ClosingQuote(a, len) = ClosingQuote(IF At(a) = Backslash THEN a + 2 ELSE a + 1, len)
      <3>1. ~(a >= len \/ At(a) = Quote)
        BY <2>2, <2>5
      <3> QED
        BY <2>2, <3>1, ClosingQuoteSteps
    <2> QED
      BY <2>4, <2>6, <2>7 DEF a, b
  <1> HIDE DEF Right
  <1>6. 0 \in Done
    BY <1>1, <1>3, <1>4
  <1>7. ASSUME NEW j \in Nat, j \in Done
        PROVE  j + 1 \in Done
    <2> SUFFICES ASSUME NEW k \in 1..n, n - k <= j + 1, marks[k] <= len + 1
                 PROVE  Right(marks[k])
      OBVIOUS
    <2>1. CASE marks[k] >= len
      BY <1>3, <2>1
    <2>2. CASE k = n /\ marks[k] < len
      BY <1>4, <2>2
    <2>3. CASE k # n /\ marks[k] < len
      <3>1. k \in 1..(n - 1) /\ k + 1 \in 1..n /\ n - (k + 1) <= j
        BY <1>1, <2>3
      <3>2. marks[k + 1] <= len + 1 /\ ClosingQuote(marks[k], len) = ClosingQuote(marks[k + 1], len)
        BY <1>5, <2>3, <3>1
      <3>3. Right(marks[k + 1])
        BY <1>7, <3>1, <3>2
      <3> QED
        BY <3>2, <3>3 DEF Right
    <2>4. marks[k] \in Nat
      BY <1>1
    <2> QED
      BY <2>1, <2>2, <2>3, <2>4
  <1>8. n \in Done
    <2> HIDE DEF Done
    <2> QED
      BY <1>1, <1>6, <1>7, AllNumbers
  <1>9. 1 \in 1..n /\ n - 1 <= n /\ marks[1] <= len + 1
    BY <1>1, <1>2
  <1>10. Right(marks[1])
    BY <1>8, <1>9
  <1> QED
    BY <1>2, <1>10 DEF Right

-----------------------------------------------------------------------------
(* Spans.                                                                     *)

(* Every value of a document is a span of its text. *)
LEMMA AValue ==
    ASSUME FromDocument, NEW way \in DOMAIN doc.at
    PROVE  LET w == doc.at[way]
           IN /\ IsValue(doc, way) /\ w.type \in Types
              /\ w.start \in Nat /\ w.end \in Nat /\ w.start < w.end /\ w.end <= Len(doc.text)
              /\ Span(w.type, w.start, w.end) \in Spans(doc)
  <1>1. IsValue(doc, way)
    BY ADocument DEF IsDocument
  <1>2. Span(doc.at[way].type, doc.at[way].start, doc.at[way].end) \in Spans(doc)
    BY DEF Spans
  <1>3. /\ doc.at[way].type \in Types
        /\ doc.at[way].start \in 0..(doc.at[way].end - 1) /\ doc.at[way].end \in 1..Len(doc.text)
    BY <1>1, Zenon DEF IsValue
  <1> DEFINE a == doc.at[way].start
             b == doc.at[way].end
  <1>4. a \in Nat /\ b \in Nat /\ a < b /\ b <= Len(doc.text)
    <2> HIDE DEF a, b
    <2>1. a \in 0..(b - 1) /\ b \in 1..Len(doc.text)
      BY <1>3 DEF a, b
    <2> QED
      BY <2>1, Lengths
  <1> QED
    BY <1>1, <1>2, <1>3, <1>4, Zenon

(* Every span begins and ends as its type does, whether a value or a key. *)
LEMMA ASpan ==
    ASSUME FromDocument, NEW s \in Spans(doc)
    PROVE  /\ s.start \in Nat /\ s.end \in Nat /\ s.start < s.end /\ s.end <= Len(doc.text)
           /\ s.type \in Types
           /\ s.type = "String" => \E marks \in Marks(s.start, s.end) : Quoted(doc, s.start, s.end, marks)
           /\ s.type \in {"Object", "Array"} =>
                  Char(doc, s.start) = Opening[s.type] /\ Char(doc, s.end - 1) = Closing[s.type]
           /\ s.type = "Number" => Char(doc, s.start) = "0"
           /\ s.type = "Literal" => Char(doc, s.start) = "n"
  <1>1. CASE s \in Names(doc)
    <2>1. s.type = "String"
      BY <1>1 DEF Names, Span
    <2>2. /\ s.start \in 0..(s.end - 1) /\ s.end \in 1..Len(doc.text)
          /\ \E marks \in Marks(s.start, s.end) : Quoted(doc, s.start, s.end, marks)
      BY <1>1, ADocument DEF IsDocument
    <2> QED
      BY <2>1, <2>2, Lengths DEF Types
  <1>2. CASE s \notin Names(doc)
    <2>1. PICK way \in DOMAIN doc.at :
              s = Span(doc.at[way].type, doc.at[way].start, doc.at[way].end)
      BY <1>2 DEF Spans
    <2>2. s.type = doc.at[way].type /\ s.start = doc.at[way].start /\ s.end = doc.at[way].end
      BY <2>1 DEF Span
    <2>3. /\ IsValue(doc, way)
          /\ s.start \in Nat /\ s.end \in Nat /\ s.start < s.end /\ s.end <= Len(doc.text) /\ s.type \in Types
      BY <2>2, AValue
    <2>4. s.type = "String" => \E marks \in Marks(s.start, s.end) : Quoted(doc, s.start, s.end, marks)
      BY <2>2, <2>3 DEF IsValue
    <2>5. s.type \in {"Object", "Array"} =>
              Char(doc, s.start) = Opening[s.type] /\ Char(doc, s.end - 1) = Closing[s.type]
      BY <2>2, <2>3 DEF IsValue
    <2>6. s.type = "Number" => Char(doc, s.start) = "0"
      BY <2>2, <2>3 DEF IsValue
    <2>7. s.type = "Literal" => Char(doc, s.start) = "n"
      BY <2>2, <2>3 DEF IsValue
    <2> QED
      BY <2>3, <2>4, <2>5, <2>6, <2>7
  <1> QED
    BY <1>1, <1>2

(* No two spans begin together, and one that begins in another ends in it. *)
LEMMA SpansNest ==
    ASSUME FromDocument
    PROVE  \A s, t \in Spans(doc) :
               /\ s.start = t.start => s = t
               /\ s.start < t.start /\ t.start < s.end => s.type \in {"Object", "Array"} /\ t.end < s.end
  BY ADocument DEF IsDocument, Nested

(* A string of quotes begins and ends with different ones.                    *)
LEMMA AStringSpan ==
    ASSUME FromDocument, NEW s \in Spans(doc), s.type = "String"
    PROVE  /\ Char(doc, s.start) = Quote /\ Char(doc, s.end - 1) = Quote
           /\ s.start < s.end - 1
           /\ \A p \in Nat : s.start < p /\ p < s.end - 1 /\ Char(doc, p) = Quote
                                 => Char(doc, p - 1) = Backslash
           /\ Plain => Char(doc, s.end - 2) # Backslash
  <1>1. s.start \in Nat /\ s.end \in Nat /\ s.end <= Len(doc.text)
    BY ASpan
  <1>2. PICK marks \in Marks(s.start, s.end) : Quoted(doc, s.start, s.end, marks)
    BY ASpan
  <1> DEFINE a == s.start
             b == s.end
  <1> HIDE DEF a, b
  <1>3. a \in Nat /\ b \in Nat /\ b <= Len(doc.text) /\ marks \in Marks(a, b) /\ Quoted(doc, a, b, marks)
    BY <1>1, <1>2 DEF a, b
  <1>4. a < b - 1
    BY <1>3, MarksInString
  <1>5. \A p \in Nat : a < p /\ p < b - 1 /\ Char(doc, p) = Quote => Char(doc, p - 1) = Backslash
    BY <1>3, QuoteInString
  <1>6. Plain => Char(doc, b - 2) # Backslash
    BY <1>3, ClosedByQuote
  <1>7. Char(doc, a) = Quote /\ Char(doc, b - 1) = Quote
    BY <1>3 DEF Quoted
  <1> QED
    BY <1>4, <1>5, <1>6, <1>7 DEF a, b

-----------------------------------------------------------------------------
(* Pairs.                                                                     *)

(* There are as many of what is matched one to one. *)
LEMMA Matched ==
    ASSUME NEW S, NEW T, IsFiniteSet(T), NEW f \in [S -> T],
           \A a, b \in S : f[a] = f[b] => a = b
    PROVE  /\ IsFiniteSet(S) /\ Cardinality(S) \in Nat /\ Cardinality(T) \in Nat
           /\ Cardinality(S) <= Cardinality(T)
           /\ (\A t \in T : \E s \in S : f[s] = t) => Cardinality(S) = Cardinality(T)
  <1>1. f \in Injection(S, T)
    BY DEF Injection, IsInjective
  <1>2. (\A t \in T : \E s \in S : f[s] = t) => f \in Surjection(S, T)
    BY DEF Surjection
  <1>3. /\ IsFiniteSet(S) /\ Cardinality(S) <= Cardinality(T)
        /\ Cardinality(S) = Cardinality(T) <=> f \in Surjection(S, T)
    BY <1>1, FS_Injection
  <1> QED
    BY <1>2, <1>3, FS_CardinalityType

(* Places up to a bound are finitely many. *)
LEMMA FiniteUpTo ==
    ASSUME NEW S, NEW p \in Nat, \A q \in S : q \in Nat /\ q <= p
    PROVE  IsFiniteSet(S) /\ Cardinality(S) \in Nat
  <1>1. S \in SUBSET Nat /\ \A q \in S : q <= p
    OBVIOUS
  <1>2. IsFiniteSet(S)
    BY <1>1, FS_BoundedSetOfNaturals
  <1> QED
    BY <1>2, FS_CardinalityType

(* What two sets hold in common is nothing: their sizes add up. *)
LEMMA Apart ==
    ASSUME NEW S, NEW T, IsFiniteSet(S), IsFiniteSet(T), S \cap T = {}
    PROVE  Cardinality(S \cup T) = Cardinality(S) + Cardinality(T)
  <1>1. Cardinality(S \cap T) = 0
    BY FS_EmptySet
  <1>2. Cardinality(S) \in Nat /\ Cardinality(T) \in Nat
    BY FS_CardinalityType
  <1>3. Cardinality(S \cup T) = Cardinality(S) + Cardinality(T) - Cardinality(S \cap T)
    BY FS_Union
  <1> QED
    BY <1>1, <1>2, <1>3

(* A number twice is even, and one more is odd. *)
LEMMA Doubled == \A k \in Nat : (k + k) % 2 = 0 /\ (k + 1 + k) % 2 = 1
  OBVIOUS

(* Within an object or an array an even number of quotes, not counting those  *)
(* behind a backslash, comes up to a place unless it is in a string.          *)
LEMMA QuotesEven ==
    ASSUME FromDocument, Plain, NEW w \in Spans(doc), w.type \in {"Object", "Array"},
           NEW len \in Nat, len <= Len(text),
           NEW p \in Nat, w.start < p, p < w.end, p < len,
           NEW Q, Q = {q \in (w.start + 1)..(len - 1) : At(q) = Quote /\ At(q - 1) # Backslash /\ q <= p}
    PROVE  Cardinality(Q) % 2 = 0 <=>
               ~ \E s \in Spans(doc) : s.type = "String" /\ s.start <= p /\ p < s.end - 1
  <1> DEFINE Strings == {s \in Spans(doc) : s.type = "String"}
             S1 == {q \in Q : \E s \in Strings : q = s.start}
             S2 == {q \in Q : \E s \in Strings : q = s.end - 1}
             Crossing == {s \in Strings : s.start <= p /\ p < s.end - 1}
  <1>1. \A s, t \in Spans(doc) :
            /\ s.start = t.start => s = t
            /\ s.start < t.start /\ t.start < s.end => s.type \in {"Object", "Array"} /\ t.end < s.end
    BY SpansNest
  <1>2. \A s \in Spans(doc) : s.start \in Nat /\ s.end \in Nat /\ s.start < s.end /\ s.end <= Len(doc.text)
    BY ASpan
  <1>3. \A s \in Strings :
            /\ s \in Spans(doc) /\ s.type = "String"
            /\ Char(doc, s.start) = Quote /\ Char(doc, s.end - 1) = Quote /\ s.start < s.end - 1
            /\ \A q \in Nat : s.start < q /\ q < s.end - 1 /\ Char(doc, q) = Quote
                                  => Char(doc, q - 1) = Backslash
            /\ Char(doc, s.end - 2) # Backslash
    BY AStringSpan
  <1>4. Len(text) \in Nat /\ Len(doc.text) \in Nat /\ Len(text) <= Len(doc.text)
    BY Lengths
  <1>5. \A q \in Nat : q < Len(text) =>
            (At(q) = Quote <=> Char(doc, q) = Quote) /\ (At(q) = Backslash <=> Char(doc, q) = Backslash)
    BY SameCharacter, Characters
  <1>6. \A q \in Nat : q < Len(doc.text) /\ Char(doc, q) \in {Quote, Backslash} =>
            \E s \in Strings : s.start <= q /\ q < s.end
    <2>1. Accounted(doc)
      BY ADocument DEF IsDocument
    <2>2. \A q \in Nat : q < Len(doc.text) => q \in 0..(Len(doc.text) - 1)
      BY <1>4
    <2> QED
      BY <2>1, <2>2 DEF Accounted, InString
  <1>7. \A s \in Strings : s.type \notin {"Object", "Array"}
    BY <1>3
  <1> DEFINE a == w.start
  <1>8. a \in Nat /\ a < p /\ w \in Spans(doc)
    BY <1>2
  <1>9. \A q : q \in Q <=> q \in Nat /\ a < q /\ q <= p /\ At(q) = Quote /\ At(q - 1) # Backslash
    BY <1>8
  <1> HIDE DEF Strings, a
  <1>10. ASSUME NEW s \in Strings, a < s.start, s.start <= p
         PROVE  s.start \in S1
    <2> DEFINE q == s.start
    <2>1. q \in Nat /\ a < q /\ q <= p /\ q < Len(text) /\ q - 1 \in Nat /\ q - 1 < Len(text)
      BY <1>2, <1>3, <1>4, <1>8, <1>10
    <2>2. At(q) = Quote
      BY <1>3, <1>5, <2>1
    <2>3. At(q - 1) # Backslash
      <3> SUFFICES ASSUME At(q - 1) = Backslash
                   PROVE  FALSE
        OBVIOUS
      <3>1. Char(doc, q - 1) = Backslash /\ q - 1 < Len(doc.text)
        BY <1>4, <1>5, <2>1
      <3>2. PICK t \in Strings : t.start <= q - 1 /\ q - 1 < t.end
        BY <1>6, <2>1, <3>1
      <3>3. t.start \in Nat /\ t.end \in Nat /\ t.start < q
        BY <1>2, <1>3, <2>1, <3>2
      <3>4. ~(q < t.end)
        BY <1>1, <1>3, <1>7, <3>3
      <3>5. t.end - 1 = q - 1
        BY <2>1, <3>2, <3>3, <3>4
      <3>6. Char(doc, q - 1) = Quote
        BY <1>3, <3>5
      <3> QED
        BY <3>1, <3>6, Characters
    <2> QED
      BY <1>9, <2>1, <2>2, <2>3
  <1>11. ASSUME NEW s \in Strings, a < s.end - 1, s.end - 1 <= p
         PROVE  s.end - 1 \in S2 /\ a < s.start /\ s.start <= p
    <2> DEFINE q == s.end - 1
    <2>1. q \in Nat /\ a < q /\ q <= p /\ q < Len(text) /\ q - 1 \in Nat /\ q - 1 < Len(text)
      BY <1>2, <1>3, <1>4, <1>8, <1>11
    <2>2. At(q) = Quote
      BY <1>3, <1>5, <2>1
    <2>3. At(q - 1) # Backslash
      <3>1. q - 1 = s.end - 2
        BY <1>2, <1>3
      <3>2. Char(doc, q - 1) # Backslash
        BY <1>3, <3>1
      <3> QED
        BY <1>5, <2>1, <3>2
    <2>4. a < s.start /\ s.start <= p
      <3>1. s.start \in Nat /\ s.end \in Nat /\ s.start < s.end - 1
        BY <1>2, <1>3
      <3>2. s.start # a
        BY <1>1, <1>3, <1>7 DEF a
      <3>3. ~(s.start < a)
        BY <1>1, <1>3, <1>7, <1>8, <1>11, <3>1 DEF a
      <3> QED
        BY <1>8, <1>11, <3>1, <3>2, <3>3
    <2> QED
      BY <1>9, <2>1, <2>2, <2>3, <2>4
  <1>12. Q = S1 \cup S2
    <2> SUFFICES ASSUME NEW q \in Q
                 PROVE  q \in S1 \cup S2
      OBVIOUS
    <2>1. q \in Nat /\ a < q /\ q <= p /\ At(q) = Quote /\ At(q - 1) # Backslash
      BY <1>9
    <2>2. q < Len(text) /\ q < Len(doc.text) /\ q - 1 \in Nat /\ q - 1 < Len(text)
      BY <1>4, <1>8, <2>1
    <2>3. Char(doc, q) = Quote /\ Char(doc, q - 1) # Backslash
      BY <1>5, <2>1, <2>2
    <2>4. PICK s \in Strings : s.start <= q /\ q < s.end
      BY <1>6, <2>1, <2>2, <2>3
    <2>5. q = s.start \/ q = s.end - 1
      BY <1>2, <1>3, <2>1, <2>3, <2>4
    <2> QED
      BY <2>4, <2>5
  <1>13. S1 \cap S2 = {}
    <2> SUFFICES ASSUME NEW s \in Strings, NEW t \in Strings, s.start = t.end - 1
                 PROVE  FALSE
      OBVIOUS
    <2>1. t.start < s.start /\ s.start < t.end
      BY <1>2, <1>3
    <2> QED
      BY <1>1, <1>3, <1>7, <2>1
  <1> DEFINE X == {s.start : s \in Crossing}
             f == [q \in S2 |-> (CHOOSE s \in Strings : s.end - 1 = q).start]
  <1>14. ASSUME NEW q \in S2
         PROVE  \E s \in Strings : s.end - 1 = q /\ f[q] = s.start /\ s.start \in S1 \ X
    <2> DEFINE s == CHOOSE t \in Strings : t.end - 1 = q
    <2>1. s \in Strings /\ s.end - 1 = q
      <3>1. \E t \in Strings : t.end - 1 = q
        OBVIOUS
      <3> QED
        BY <3>1
    <2>2. f[q] = s.start
      OBVIOUS
    <2> HIDE DEF s
    <2>3. a < q /\ q <= p
      BY <1>9
    <2>4. a < s.start /\ s.start <= p
      BY <1>11, <2>1, <2>3
    <2>5. s.start \in S1
      BY <1>10, <2>1, <2>4
    <2>6. s.start \notin X
      <3> SUFFICES ASSUME NEW t \in Crossing, s.start = t.start
                   PROVE  FALSE
        OBVIOUS
      <3>1. s = t
        BY <1>1, <1>3, <2>1
      <3> QED
        BY <1>2, <1>3, <2>1, <2>3, <3>1
    <2> QED
      BY <2>1, <2>2, <2>5, <2>6
  <1>15. f \in [S2 -> S1 \ X]
    BY <1>14
  <1>16. \A q, r \in S2 : f[q] = f[r] => q = r
    <2> HIDE DEF f
    <2> QED
      BY <1>1, <1>3, <1>14
  <1>17. \A t \in S1 \ X : \E q \in S2 : f[q] = t
    <2> SUFFICES ASSUME NEW t \in S1 \ X
                 PROVE  \E q \in S2 : f[q] = t
      OBVIOUS
    <2>1. PICK s \in Strings : t = s.start
      OBVIOUS
    <2>2. t \in Nat /\ a < t /\ t <= p
      BY <1>9
    <2>3. s \notin Crossing
      BY <2>1
    <2>4. s.end - 1 <= p /\ a < s.end - 1
      BY <1>2, <1>3, <1>8, <2>1, <2>2, <2>3
    <2>5. s.end - 1 \in S2
      BY <1>11, <2>4
    <2> DEFINE q == s.end - 1
    <2>6. PICK r \in Strings : r.end - 1 = q /\ f[q] = r.start
      <3> HIDE DEF f, q
      <3>1. q \in S2
        BY <2>5 DEF q
      <3> QED
        BY <1>14, <3>1
    <2>7. r = s
      <3>1. r.end = s.end
        <4>1. r.end \in Nat /\ s.end \in Nat
          BY <1>2, <1>3
        <4>2. r.end - 1 = s.end - 1
          BY <2>6
        <4> QED
          BY <4>1, <4>2
      <3>2. r.start < s.end /\ s.start < r.end
        BY <1>2, <1>3, <3>1
      <3>3. ~(r.start < s.start) /\ ~(s.start < r.start)
        BY <1>1, <1>3, <1>7, <3>2
      <3>4. r.start = s.start
        BY <1>2, <1>3, <3>3
      <3> QED
        BY <1>1, <1>3, <3>4
    <2> QED
      BY <2>1, <2>5, <2>6, <2>7
  <1>18. IsFiniteSet(S1) /\ IsFiniteSet(S2) /\ IsFiniteSet(S1 \ X)
    <2>1. \A q \in S1 \cup S2 : q \in Nat /\ q <= p
      BY <1>9
    <2> QED
      BY <2>1, FiniteUpTo
  <1> HIDE DEF f
  <1>19. Cardinality(S2) = Cardinality(S1 \ X) /\ Cardinality(S2) \in Nat
    <2> HIDE DEF S1, S2, X
    <2> QED
      BY <1>15, <1>16, <1>17, <1>18, Matched
  <1>20. Cardinality(Q) = Cardinality(S1) + Cardinality(S2)
    <2> HIDE DEF S1, S2
    <2> QED
      BY <1>12, <1>13, <1>18, Apart
  <1>21. CASE Crossing = {}
    <2>1. S1 \ X = S1
      BY <1>21
    <2>2. Cardinality(Q) % 2 = 0
      BY <1>19, <1>20, <2>1, Doubled
    <2> QED
      BY <1>21, <2>2 DEF Strings
  <1>22. CASE Crossing # {}
    <2>1. PICK s \in Strings : s.start <= p /\ p < s.end - 1
      BY <1>22
    <2>2. a < s.start
      <3>1. s.start # a
        BY <1>1, <1>3, <1>7 DEF a
      <3>2. ~(s.start < a)
        BY <1>1, <1>2, <1>3, <1>7, <1>8, <2>1 DEF a
      <3> QED
        BY <1>2, <1>3, <1>8, <3>1, <3>2
    <2>3. s.start \in S1
      BY <1>10, <2>1, <2>2
    <2>4. X = {s.start}
      <3>1. s.start \in X
        BY <2>1
      <3>2. ASSUME NEW t \in Crossing
            PROVE  t.start = s.start
        <4>1. t.start < s.end /\ s.start < t.end
          BY <1>2, <1>3, <2>1
        <4>2. ~(t.start < s.start) /\ ~(s.start < t.start)
          BY <1>1, <1>3, <1>7, <4>1
        <4> QED
          BY <1>2, <1>3, <4>2
      <3> QED
        BY <3>1, <3>2
    <2>5. Cardinality(S1 \ X) = Cardinality(S1) - 1 /\ Cardinality(S1) \in Nat
      <3> HIDE DEF S1, X
      <3> QED
        BY <1>18, <2>3, <2>4, FS_RemoveElement, FS_CardinalityType
    <2> DEFINE k == Cardinality(S2)
    <2>6. k \in Nat /\ Cardinality(Q) = k + 1 + k
      <3> HIDE DEF S1, S2, X
      <3> QED
        BY <1>19, <1>20, <2>5
    <2>7. Cardinality(Q) % 2 = 1
      <3> HIDE DEF k
      <3> QED
        BY <2>6, Doubled
    <2> QED
      BY <2>1, <2>7 DEF Strings
  <1> QED
    BY <1>21, <1>22

(* What begins within an object or an array up to a place, of its own type,   *)
(* with the places of the braces.                                             *)
Inner(w, p) == {s \in Spans(doc) : s.type = w.type /\ w.start < s.start /\ s.start <= p}
Opens(w, p) == {q \in Nat : \E s \in Inner(w, p) : q = s.start}
Closes(w, p) == {q \in Nat : q <= p /\ \E s \in Inner(w, p) : q = s.end - 1}

(* The braces that close an object or an array, for every prefix of what is   *)
(* between: as many as open, or fewer, until its own.                         *)
LEMMA BracesMatch ==
    ASSUME FromDocument, NEW w \in Spans(doc), w.type \in {"Object", "Array"},
           NEW p \in Nat, w.start < p, p < w.end
    PROVE  /\ IsFiniteSet(Opens(w, p)) /\ IsFiniteSet(Closes(w, p))
           /\ Cardinality(Opens(w, p)) \in Nat /\ Cardinality(Closes(w, p)) \in Nat
           /\ Cardinality(Closes(w, p)) <= Cardinality(Opens(w, p))
           /\ p = w.end - 1 => Cardinality(Closes(w, p)) = Cardinality(Opens(w, p))
  <1> DEFINE I == Inner(w, p)
             O == Opens(w, p)
             C == Closes(w, p)
  <1>1. \A s, t \in Spans(doc) :
            /\ s.start = t.start => s = t
            /\ s.start < t.start /\ t.start < s.end => s.type \in {"Object", "Array"} /\ t.end < s.end
    BY SpansNest
  <1>2. \A s \in Spans(doc) : s.start \in Nat /\ s.end \in Nat /\ s.start < s.end
    BY ASpan
  <1>3. /\ \A s \in I : s \in Spans(doc) /\ w.start < s.start /\ s.start <= p
        /\ O = {q \in Nat : \E s \in I : q = s.start}
        /\ C = {q \in Nat : q <= p /\ \E s \in I : q = s.end - 1}
    BY DEF Inner, Opens, Closes
  <1> DEFINE f == [q \in C |-> (CHOOSE s \in I : s.end - 1 = q).start]
  <1>4. ASSUME NEW q \in C
        PROVE  \E s \in I : s.end - 1 = q /\ f[q] = s.start
    <2> DEFINE s == CHOOSE t \in I : t.end - 1 = q
    <2>1. s \in I /\ s.end - 1 = q
      <3>1. \E t \in I : t.end - 1 = q
        BY <1>3
      <3> QED
        BY <3>1
    <2> QED
      BY <2>1
  <1>5. \A s \in I : s.start \in O
    BY <1>2, <1>3
  <1>6. f \in [C -> O]
    BY <1>4, <1>5
  <1> HIDE DEF f, I, O, C
  <1>7. \A q, r \in C : f[q] = f[r] => q = r
    BY <1>1, <1>3, <1>4
  <1>8. IsFiniteSet(O)
    <2>1. \A q \in O : q \in Nat /\ q <= p
      BY <1>3
    <2> QED
      BY <2>1, FiniteUpTo
  <1>9. p = w.end - 1 => \A t \in O : \E q \in C : f[q] = t
    <2> SUFFICES ASSUME p = w.end - 1, NEW s \in I
                 PROVE  \E q \in C : f[q] = s.start
      BY <1>3
    <2> DEFINE q == s.end - 1
    <2>1. s.end < w.end
      BY <1>1, <1>2, <1>3
    <2>2. q \in C
      <3>1. s.start \in Nat /\ s.end \in Nat /\ s.start < s.end /\ w.end \in Nat
        BY <1>2, <1>3
      <3>2. q \in Nat /\ q <= p
        BY <2>1, <3>1
      <3> QED
        BY <1>3, <3>2
    <2>3. PICK r \in I : r.end - 1 = q /\ f[q] = r.start
      <3> HIDE DEF q
      <3> QED
        BY <1>4, <2>2
    <2>4. r = s
      <3>1. r.end = s.end
        <4>1. r.end \in Nat /\ s.end \in Nat
          BY <1>2, <1>3
        <4>2. r.end - 1 = s.end - 1
          BY <2>3
        <4> QED
          BY <4>1, <4>2
      <3>2. r.start < s.end /\ s.start < r.end
        BY <1>2, <1>3, <3>1
      <3>3. ~(r.start < s.start) /\ ~(s.start < r.start)
        BY <1>1, <1>2, <1>3, <3>1, <3>2
      <3>4. r.start = s.start
        BY <1>2, <1>3, <3>3
      <3> QED
        BY <1>1, <1>3, <3>4
    <2> QED
      BY <2>2, <2>3, <2>4
  <1>10. /\ IsFiniteSet(O) /\ IsFiniteSet(C) /\ Cardinality(O) \in Nat /\ Cardinality(C) \in Nat
         /\ Cardinality(C) <= Cardinality(O)
         /\ p = w.end - 1 => Cardinality(C) = Cardinality(O)
    BY <1>6, <1>7, <1>8, <1>9, Matched
  <1> QED
    BY <1>10 DEF O, C

(* The brace that closes an object or an array is found, wherever other       *)
(* braces and quotes are, or the end of the view if it was not received.      *)
LEMMA BraceFound ==
    ASSUME FromDocument, Plain, NEW w \in Spans(doc), w.type \in {"Object", "Array"},
           NEW len \in Nat, len <= Len(text), w.start < len
    PROVE  FindMatchingBrace(w.start + 1, len, Opening[w.type], Closing[w.type])
               = IF w.end - 1 < len THEN w.end - 1 ELSE len
  <1> DEFINE open == Opening[w.type]
             close == Closing[w.type]
             a == w.start
             b == w.end
             quotes == {q \in (a + 1)..(len - 1) : At(q) = Quote /\ At(q - 1) # Backslash}
             braces == {q \in (a + 1)..(len - 1) :
                         /\ At(q) \in {open, close}
                         /\ Cardinality({r \in quotes : r <= q}) % 2 = 0}
             Starts(q) == \E s \in Spans(doc) : s.type = w.type /\ a < s.start /\ s.start <= b - 1 /\ q = s.start
             Stops(q) == \E s \in Spans(doc) : s.type = w.type /\ a < s.start /\ s.start <= b - 1 /\ q = s.end - 1
  <1>1. \A s, t \in Spans(doc) :
            /\ s.start = t.start => s = t
            /\ s.start < t.start /\ t.start < s.end => s.type \in {"Object", "Array"} /\ t.end < s.end
    BY SpansNest
  <1>2. \A s \in Spans(doc) : s.start \in Nat /\ s.end \in Nat /\ s.start < s.end /\ s.end <= Len(doc.text)
    BY ASpan
  <1>3. Len(text) \in Nat /\ Len(doc.text) \in Nat /\ Len(text) <= Len(doc.text)
    BY Lengths
  <1>4. /\ a \in Nat /\ b \in Nat /\ a < b - 1 /\ a < len
        /\ open # close /\ open \in Braces /\ close \in Braces /\ Char(doc, a) = open /\ Char(doc, b - 1) = close
    <2>1. open # close /\ open \in Braces /\ close \in Braces
      BY Characters DEF Opening, Closing, Braces
    <2>2. Char(doc, a) = open /\ Char(doc, b - 1) = close
      BY ASpan
    <2>3. a # b - 1
      BY <2>1, <2>2
    <2> QED
      BY <1>2, <2>1, <2>2, <2>3
  <1>5. /\ open \notin {Quote, "n", "x"} /\ close \notin {Quote, "n", "x"}
        /\ \A s \in Spans(doc) : s.type = w.type => Char(doc, s.start) = open /\ Char(doc, s.end - 1) = close
    <2>1. \A s \in Spans(doc) : s.type = w.type => Char(doc, s.start) = open /\ Char(doc, s.end - 1) = close
      BY ASpan
    <2>2. open \notin {Quote, "n", "x"} /\ close \notin {Quote, "n", "x"}
      BY <1>4, Characters DEF Braces
    <2> QED
      BY <2>1, <2>2
  <1>6. \A q \in Nat : q < len => (At(q) = open <=> Char(doc, q) = open)
                                  /\ (At(q) = close <=> Char(doc, q) = close)
    BY <1>3, <1>5, SameCharacter
  <1>7. ASSUME NEW q \in Nat, a < q, q < b, q < len
        PROVE  Cardinality({r \in quotes : r <= q}) % 2 = 0 <=>
                   ~ \E s \in Spans(doc) : s.type = "String" /\ s.start <= q /\ q < s.end - 1
    <2> DEFINE Q == {r \in (a + 1)..(len - 1) : At(r) = Quote /\ At(r - 1) # Backslash /\ r <= q}
    <2>1. {r \in quotes : r <= q} = Q
      OBVIOUS
    <2> HIDE DEF quotes
    <2>2. Cardinality(Q) % 2 = 0 <=>
              ~ \E s \in Spans(doc) : s.type = "String" /\ s.start <= q /\ q < s.end - 1
      BY <1>7, QuotesEven
    <2> QED
      BY <2>1, <2>2
  <1> DEFINE Even(q) == Cardinality({r \in quotes : r <= q}) % 2 = 0
  <1>8. \A q : q \in braces <=> q \in (a + 1)..(len - 1) /\ (At(q) = open \/ At(q) = close) /\ Even(q)
    OBVIOUS
  <1> HIDE DEF Even, quotes, braces
  <1>9. ASSUME NEW s \in Spans(doc), s.type = w.type, NEW q \in {s.start, s.end - 1}, a < q, q < b, q < len
        PROVE  q \in braces /\ (q = s.start => At(q) = open) /\ (q = s.end - 1 => At(q) = close)
    <2>1. q \in Nat /\ q < s.end /\ s.start <= q
      BY <1>2
    <2>2. (q = s.start => At(q) = open) /\ (q = s.end - 1 => At(q) = close)
      BY <1>5, <1>6, <1>9, <2>1
    <2>3. ASSUME NEW t \in Spans(doc), t.type = "String", t.start <= q, q < t.end - 1
          PROVE  FALSE
      <3>1. t.start # s.start
        BY <1>1, <1>9, <2>3
      <3>2. s.start < t.end
        BY <1>2, <2>1, <2>3
      <3>3. ~(t.start < s.start)
        BY <1>1, <2>3, <3>2
      <3>4. s.start < t.start /\ t.start < s.end
        BY <1>2, <2>1, <2>3, <3>1, <3>3
      <3>5. t.end < s.end
        BY <1>1, <3>4
      <3>6. q = s.end - 1
        BY <1>2, <2>3, <3>4
      <3> QED
        BY <1>2, <2>3, <3>5, <3>6
    <2>4. Even(q)
      BY <1>7, <1>9, <2>1, <2>3 DEF Even
    <2>5. q \in (a + 1)..(len - 1)
      BY <1>4, <1>9, <2>1
    <2> QED
      BY <1>8, <2>2, <2>4, <2>5
  <1>10. ASSUME NEW q \in braces, q < b, q < len
         PROVE  \/ Starts(q) /\ At(q) = open
                \/ Stops(q) /\ At(q) = close
                \/ q = b - 1
    <2>1. q \in Nat /\ a < q /\ q < Len(doc.text) /\ (At(q) = open \/ At(q) = close) /\ Even(q)
      BY <1>3, <1>4, <1>8, <1>10
    <2>2. Char(doc, q) = At(q)
      BY <1>6, <1>10, <2>1
    <2>3. \A s \in Spans(doc) : s.type = "String" => ~(s.start <= q /\ q < s.end - 1)
      BY <1>7, <1>10, <2>1 DEF Even
    <2>4. ~InString(doc, q)
      <3> SUFFICES ASSUME NEW s \in Spans(doc), s.type = "String", s.start <= q, q < s.end
                   PROVE  FALSE
        BY DEF InString
      <3>1. q = s.end - 1
        BY <1>2, <2>1, <2>3
      <3>2. Char(doc, q) = Quote
        BY <3>1, AStringSpan
      <3> QED
        BY <1>5, <2>1, <2>2, <3>2
    <2>5. PICK s \in Spans(doc) :
              /\ s.type \in {"Object", "Array"}
              /\ \/ q = s.start /\ Char(doc, q) = Opening[s.type]
                 \/ q = s.end - 1 /\ Char(doc, q) = Closing[s.type]
      <3>1. q \in 0..(Len(doc.text) - 1) /\ Char(doc, q) \in Braces
        BY <1>3, <1>4, <2>1, <2>2
      <3>2. Accounted(doc)
        BY ADocument DEF IsDocument
      <3> QED
        BY <2>4, <3>1, <3>2 DEF Accounted
    <2>6. \A t, u \in {"Object", "Array"} : /\ Opening[t] # Closing[u]
                                           /\ (Opening[t] = Opening[u] => t = u)
                                           /\ (Closing[t] = Closing[u] => t = u)
      BY Characters DEF Opening, Closing
    <2>7. CASE q = s.start /\ Char(doc, q) = Opening[s.type]
      <3>1. At(q) = open /\ s.type = w.type
        BY <2>1, <2>2, <2>5, <2>6, <2>7
      <3>2. s.start <= b - 1
        BY <1>4, <1>10, <2>1, <2>7
      <3> QED
        BY <2>1, <2>7, <3>1, <3>2
    <2>8. CASE q = s.end - 1 /\ Char(doc, q) = Closing[s.type]
      <3>1. At(q) = close /\ s.type = w.type
        BY <2>1, <2>2, <2>5, <2>6, <2>8
      <3>2. s.start <= q /\ a < s.end
        BY <1>2, <1>4, <2>1, <2>8
      <3>3. ~(s.start < a)
        <4>1. s.start < a => b < s.end
          BY <1>1, <3>2
        <4> QED
          BY <1>2, <1>4, <1>10, <2>8, <4>1
      <3>4. CASE s.start = a
        <4>1. s = w
          BY <1>1, <3>4
        <4> QED
          BY <2>8, <4>1
      <3>5. CASE s.start # a
        <4>1. a < s.start /\ s.start <= b - 1
          BY <1>2, <1>4, <1>10, <2>1, <3>2, <3>3, <3>5
        <4> QED
          BY <2>8, <3>1, <4>1
      <3> QED
        BY <3>4, <3>5
    <2> QED
      BY <2>5, <2>7, <2>8
  <1> DEFINE closing == {q \in braces : At(q) = close}
             UpTo(places, p) == Cardinality({q \in places : q <= p})
             balanced(p) == 2 * UpTo(closing, p) = UpTo(braces, p) + 1
             ends == {p \in closing : balanced(p)} \cup {len}
  <1>90. ASSUME NEW p, NEW s \in Inner(w, p)
         PROVE  s \in Spans(doc) /\ s.type = w.type /\ a < s.start /\ s.start <= p
    BY DEF Inner
  <1>11. ASSUME NEW p \in Nat, a < p, p < b, p < len
         PROVE  /\ {q \in closing : q <= p} \ {b - 1} = Closes(w, p)
                /\ {q \in braces : q <= p} \ {b - 1} = Opens(w, p) \cup Closes(w, p)
                /\ Opens(w, p) \cap Closes(w, p) = {}
    <2>1. ASSUME NEW q \in braces, q <= p, q # b - 1
          PROVE  \/ q \in Opens(w, p) /\ At(q) = open
                 \/ q \in Closes(w, p) /\ At(q) = close
      <3>1. q \in Nat /\ q < b /\ q < len
        BY <1>4, <1>8, <1>11, <2>1
      <3>2. CASE Starts(q) /\ At(q) = open
        BY <2>1, <3>1, <3>2 DEF Opens, Inner
      <3>3. CASE Stops(q) /\ At(q) = close
        <4>1. PICK s \in Spans(doc) : s.type = w.type /\ a < s.start /\ s.start <= b - 1 /\ q = s.end - 1
          BY <3>3
        <4>2. s.start <= p
          BY <1>2, <1>11, <2>1, <4>1
        <4> QED
          BY <2>1, <3>1, <3>3, <4>1, <4>2 DEF Closes, Inner
      <3> QED
        BY <1>10, <2>1, <3>1, <3>2, <3>3
    <2>2. ASSUME NEW q \in Opens(w, p)
          PROVE  q \in braces /\ q <= p /\ At(q) = open /\ q # b - 1
      <3>1. PICK s \in Inner(w, p) : q = s.start
        BY <2>2 DEF Opens
      <3>2. q \in Nat /\ a < q /\ q <= p /\ q < b /\ q < len
        BY <1>2, <1>11, <1>90, <3>1
      <3>3. q \in braces /\ At(q) = open
        BY <1>9, <1>90, <3>1, <3>2
      <3>4. q # b - 1
        <4> SUFFICES ASSUME q = b - 1
                     PROVE  FALSE
          OBVIOUS
        <4>1. w.start < s.start /\ s.start < w.end
          BY <3>1, <3>2
        <4>2. s.end < w.end
          BY <1>1, <1>90, <3>1, <4>1
        <4>3. s.start \in Nat /\ s.end \in Nat /\ s.start < s.end
          BY <1>2, <1>90, <3>1
        <4> QED
          BY <1>4, <3>1, <4>2, <4>3
      <3> QED
        BY <3>2, <3>3, <3>4
    <2>3. ASSUME NEW q \in Closes(w, p)
          PROVE  q \in braces /\ q <= p /\ At(q) = close /\ q # b - 1
      <3>1. PICK s \in Inner(w, p) : q = s.end - 1
        BY <2>3 DEF Closes
      <3>2. s.start \in Nat /\ s.end \in Nat /\ s.start < s.end
        BY <1>2, <1>90, <3>1
      <3>3. q \in Nat /\ a < q /\ q <= p /\ q < b /\ q < len
        BY <1>4, <1>11, <1>90, <2>3, <3>1, <3>2 DEF Closes
      <3>4. q \in braces /\ At(q) = close
        BY <1>9, <1>90, <3>1, <3>3
      <3>5. q # b - 1
        <4>1. w.start < s.start /\ s.start < w.end
          BY <1>4, <1>11, <1>90, <3>1, <3>2
        <4>2. s.end < w.end
          BY <1>1, <1>90, <3>1, <4>1
        <4> QED
          BY <1>4, <3>1, <3>2, <4>2
      <3> QED
        BY <2>3, <3>3, <3>4, <3>5
    <2> QED
      BY <1>4, <2>1, <2>2, <2>3
  <1>12. ASSUME NEW p \in Nat, a < p, p < b, p < len
         PROVE  /\ IsFiniteSet(Opens(w, p)) /\ IsFiniteSet(Closes(w, p))
                /\ Cardinality(Opens(w, p)) \in Nat /\ Cardinality(Closes(w, p)) \in Nat
                /\ Cardinality(Closes(w, p)) <= Cardinality(Opens(w, p))
                /\ p = b - 1 => Cardinality(Closes(w, p)) = Cardinality(Opens(w, p))
                /\ Cardinality(Opens(w, p) \cup Closes(w, p)) = Cardinality(Opens(w, p)) + Cardinality(Closes(w, p))
    <2>1. /\ IsFiniteSet(Opens(w, p)) /\ IsFiniteSet(Closes(w, p))
          /\ Cardinality(Opens(w, p)) \in Nat /\ Cardinality(Closes(w, p)) \in Nat
          /\ Cardinality(Closes(w, p)) <= Cardinality(Opens(w, p))
          /\ p = b - 1 => Cardinality(Closes(w, p)) = Cardinality(Opens(w, p))
      BY <1>12, BracesMatch
    <2>2. Opens(w, p) \cap Closes(w, p) = {}
      BY <1>11, <1>12
    <2>3. Cardinality(Opens(w, p) \cup Closes(w, p)) = Cardinality(Opens(w, p)) + Cardinality(Closes(w, p))
      BY <2>1, <2>2, Apart
    <2> QED
      BY <2>1, <2>3
  <1> HIDE DEF closing
  <1>13. ASSUME NEW p \in Nat, a < p, p < b - 1, p < len
         PROVE  ~balanced(p)
    <2>1. p < b
      BY <1>4, <1>13
    <2>2. {q \in closing : q <= p} = Closes(w, p) /\ {q \in braces : q <= p} = Opens(w, p) \cup Closes(w, p)
      <3>1. b - 1 \notin {q \in closing : q <= p} /\ b - 1 \notin {q \in braces : q <= p}
        BY <1>4, <1>13
      <3> QED
        BY <1>11, <1>13, <2>1, <3>1
    <2> DEFINE m == Cardinality(Opens(w, p))
               n == Cardinality(Closes(w, p))
    <2>3. UpTo(closing, p) = n /\ UpTo(braces, p) = m + n
      BY <1>12, <1>13, <2>1, <2>2
    <2>4. m \in Nat /\ n \in Nat /\ n <= m
      BY <1>12, <1>13, <2>1
    <2> HIDE DEF m, n, UpTo
    <2> QED
      BY <2>3, <2>4
  <1>14. ASSUME b - 1 < len
         PROVE  b - 1 \in closing /\ balanced(b - 1)
    <2> DEFINE p == b - 1
    <2>1. p \in Nat /\ a < p /\ p < b /\ p < len
      BY <1>4, <1>14
    <2>2. p \in braces /\ At(p) = close
      BY <1>9, <2>1
    <2>3. p \in closing
      BY <2>2 DEF closing
    <2>4. /\ {q \in closing : q <= p} \ {p} = Closes(w, p)
          /\ {q \in braces : q <= p} \ {p} = Opens(w, p) \cup Closes(w, p)
      BY <1>11, <2>1
    <2> DEFINE m == Cardinality(Opens(w, p))
               n == Cardinality(Closes(w, p))
    <2>5. /\ IsFiniteSet(Opens(w, p)) /\ IsFiniteSet(Closes(w, p)) /\ m \in Nat /\ n = m
          /\ Cardinality(Opens(w, p) \cup Closes(w, p)) = m + n
      BY <1>12, <2>1
    <2> DEFINE C == {q \in closing : q <= p}
               B == {q \in braces : q <= p}
               O == Opens(w, p) \cup Closes(w, p)
    <2>6. p \in C /\ p \in B /\ C \ {p} = Closes(w, p) /\ B \ {p} = O /\ IsFiniteSet(O)
      <3>1. IsFiniteSet(O)
        BY <2>5, FS_Union
      <3> QED
        BY <2>1, <2>2, <2>3, <2>4, <3>1
    <2> HIDE DEF C, B, O
    <2>7. Cardinality(C) = n + 1
      <3>1. C = Closes(w, p) \cup {p} /\ p \notin Closes(w, p)
        BY <2>6
      <3> QED
        BY <2>5, <3>1, FS_AddElement
    <2>8. Cardinality(B) = m + n + 1
      <3>1. B = O \cup {p} /\ p \notin O
        BY <2>6
      <3> QED
        BY <2>5, <2>6, <3>1, FS_AddElement DEF O
    <2>9. UpTo(closing, p) = n + 1 /\ UpTo(braces, p) = m + n + 1
      BY <2>7, <2>8 DEF C, B
    <2> HIDE DEF m, n, UpTo, p
    <2>10. balanced(p)
      BY <2>5, <2>9
    <2> QED
      BY <2>3, <2>10 DEF p
  <1>15. \A q \in closing : q \in Nat /\ a < q /\ q < len
    BY <1>4, <1>8 DEF closing
  <1>16. FindMatchingBrace(a + 1, len, open, close) = Min(ends)
    BY Zenon DEF FindMatchingBrace, FirstBalanced, closing, braces, quotes
  <1> HIDE DEF balanced, open, close
  <1>17. CASE b - 1 < len
    <2>1. b - 1 \in ends /\ \A q \in ends : b - 1 <= q /\ q \in Nat
      BY <1>4, <1>13, <1>14, <1>15, <1>17
    <2> HIDE DEF ends
    <2>2. Min(ends) \in ends /\ Min(ends) <= b - 1
      BY <2>1 DEF Min
    <2>3. Min(ends) = b - 1
      BY <1>4, <2>1, <2>2
    <2> QED
      BY <1>16, <1>17, <2>3 DEF open, close
  <1>18. CASE ~(b - 1 < len)
    <2>1. ends = {len}
      BY <1>4, <1>13, <1>15, <1>18
    <2> HIDE DEF ends
    <2>2. Min(ends) = len
      BY <2>1 DEF Min
    <2> QED
      BY <1>16, <1>18, <2>2 DEF open, close
  <1> QED
    BY <1>17, <1>18

-----------------------------------------------------------------------------
(* What the reader makes of a value that is written.                          *)

(* v is a view of the written value w, as far as w was received.              *)
Views(v, w) ==
    /\ v.src /\ v.type = w.type /\ v.start = w.start /\ w.start < Len(text)
    /\ w.end <= Len(text) => v.end = w.end
    /\ w.end > Len(text) => v.end \in {Len(text), Len(text) + 1}
    /\ w.end > Len(text) /\ w.type \in {"Object", "Array"} => v.end = Len(text) + 1

(* v is nothing, because the text breaks off within the literal w.            *)
BreaksOff(v, w) ==
    ~Whole /\ v.type = "Null" /\ v.src /\ v.start = w.start /\ v.end = w.start /\ At(w.start) = "x"

(* The first character of a value tells its type. *)
LEMMA FirstCharacter ==
    ASSUME FromDocument, NEW way \in DOMAIN doc.at
    PROVE  LET w == doc.at[way]
           IN Char(doc, w.start) = CASE w.type = "String" -> Quote
                                     [] w.type = "Object" -> OpenBrace
                                     [] w.type = "Array" -> OpenBracket
                                     [] w.type = "Number" -> "0"
                                     [] w.type = "Literal" -> "n"
  <1> DEFINE w == doc.at[way]
             s == Span(w.type, w.start, w.end)
  <1>1. s \in Spans(doc) /\ s.type = w.type /\ s.start = w.start /\ w.type \in Types
    BY AValue DEF Span
  <1> HIDE DEF w, s
  <1>2. Char(doc, w.start) = CASE w.type = "String" -> Quote
                               [] w.type = "Object" -> OpenBrace
                               [] w.type = "Array" -> OpenBracket
                               [] w.type = "Number" -> "0"
                               [] w.type = "Literal" -> "n"
    <2>1. CASE w.type = "String"
      BY <1>1, <2>1, AStringSpan
    <2>2. CASE w.type = "Object"
      BY <1>1, <2>2, ASpan DEF Opening
    <2>3. CASE w.type = "Array"
      BY <1>1, <2>3, ASpan DEF Opening
    <2>4. CASE w.type = "Number"
      BY <1>1, <2>4, ASpan
    <2>5. CASE w.type = "Literal"
      BY <1>1, <2>5, ASpan
    <2> QED
      BY <1>1, <2>1, <2>2, <2>3, <2>4, <2>5 DEF Types
  <1> QED
    BY <1>2 DEF w

(* No value begins with a blank, a separator or a closing brace. *)
LEMMA BeginsAValue ==
    ASSUME FromDocument, NEW way \in DOMAIN doc.at
    PROVE  Char(doc, doc.at[way].start) \notin {Space, Comma, Colon, CloseBrace, CloseBracket}
  BY FirstCharacter, AValue, Characters DEF Types

(* The items of an object or an array, as they are written. *)
LEMMA Items ==
    ASSUME FromDocument, NEW way \in DOMAIN doc.at
    PROVE  /\ doc.at[way].type \in {"Object", "Array"} => HoldsItems(doc, way)
           /\ doc.at[way].items \in Seq([by : Selections, start : Nat, end : Nat])
           /\ doc.at[way].type \in {"Object", "Array"} \/ doc.at[way].items = <<>>
           /\ way = <<>> \/ \E from \in DOMAIN doc.at : \E i \in 1..Len(doc.at[from].items) :
                                way = Append(from, doc.at[from].items[i].by)
  <1>1. IsValue(doc, way)
    BY AValue
  <1> QED
    BY <1>1 DEF IsValue

(* A number does not go on where it ends. *)
LEMMA AfterAValue ==
    ASSUME FromDocument, NEW way \in DOMAIN doc.at, doc.at[way].end < Len(doc.text)
    PROVE  Char(doc, doc.at[way].end) # "0"
  <1> DEFINE e == doc.at[way].end
  <1>1. e \in Nat /\ Len(doc.text) \in Nat
    BY AValue, Lengths
  <1> HIDE DEF e
  <1>2. CASE way = <<>>
    <2>1. Blank(doc, e, Len(doc.text))
      BY <1>2, ADocument DEF IsDocument, e
    <2>2. e \in e..(Len(doc.text) - 1)
      BY <1>1 DEF e
    <2> QED
      BY <2>1, <2>2, Characters DEF Blank, e
  <1>3. ASSUME NEW from \in DOMAIN doc.at, NEW i \in 1..Len(doc.at[from].items),
               way = Append(from, doc.at[from].items[i].by)
        PROVE  Char(doc, e) # "0"
    <2> DEFINE w == doc.at[from]
               q == Ahead(w, i)
    <2>1. HoldsItems(doc, from)
      <3>1. w.items # <<>>
        BY <1>3
      <3> QED
        BY <3>1, Items
    <2>2. IF i < Len(w.items) THEN Parted(doc, e, q, Comma) ELSE Blank(doc, e, q)
      BY <1>3, <2>1 DEF HoldsItems, e
    <2>3. CASE i < Len(w.items)
      <3>1. PICK m \in e..(q - 1) : Blank(doc, e, m) /\ Char(doc, m) = Comma
        BY <2>2, <2>3 DEF Parted
      <3> HIDE DEF q
      <3>2. m = e \/ e \in e..(m - 1)
        BY <1>1, <3>1 DEF Blank
      <3> QED
        BY <3>1, <3>2, Characters DEF Blank
    <2>4. CASE ~(i < Len(w.items))
      <3>1. Blank(doc, e, q)
        BY <2>2, <2>4
      <3>2. q = w.end - 1 /\ w.end \in Nat
        BY <2>4, AValue DEF Ahead
      <3>3. q = e \/ e \in e..(q - 1)
        BY <1>1, <3>1, <3>2 DEF Blank
      <3>4. Char(doc, w.end - 1) \in {CloseBrace, CloseBracket}
        <4> DEFINE s == Span(w.type, w.start, w.end)
        <4>1. w.type \in {"Object", "Array"}
          <5>1. w.items # <<>>
            BY <1>3
          <5> QED
            BY <5>1, Items
        <4>2. s \in Spans(doc) /\ s.type = w.type /\ s.end = w.end
          BY AValue DEF Span
        <4> HIDE DEF s
        <4>3. Char(doc, s.end - 1) = Closing[s.type]
          BY <4>1, <4>2, ASpan
        <4> QED
          BY <4>1, <4>2, <4>3 DEF Closing
      <3>5. Char(doc, q) # "0"
        BY <3>2, <3>4, Characters
      <3> HIDE DEF q, w
      <3> QED
        BY <3>1, <3>3, <3>5, Characters DEF Blank
    <2> QED
      BY <2>3, <2>4
  <1> QED
    BY <1>2, <1>3, Items DEF e

(* A value is read as it is written, or as far as it was received.            *)
LEMMA ValueRead ==
    ASSUME FromDocument, Plain, NEW way \in DOMAIN doc.at,
           NEW p \in Nat, Blank(doc, p, doc.at[way].start),
           NEW len \in Nat, len <= Len(text), doc.at[way].end <= len \/ len = Len(text)
    PROVE  LET w == doc.at[way]
               v == ParseValue(p, len)
           IN /\ ~(w.start < len) => /\ v = NoValue /\ len = Len(text)
                                     /\ SkipWhitespace(p, len) >= len
              /\ w.start < len => /\ Views(v, w) \/ BreaksOff(v, w)
                                  /\ SkipWhitespace(p, len) = w.start
  <1> DEFINE w == doc.at[way]
             v == ParseValue(p, len)
             a == w.start
             b == w.end
             n == Len(text)
             s == Span(w.type, a, b)
  <1>1. /\ a \in Nat /\ b \in Nat /\ a < b /\ b <= Len(doc.text) /\ w.type \in Types
        /\ IsValue(doc, way) /\ s \in Spans(doc)
        /\ s.type = w.type /\ s.start = a /\ s.end = b
    BY AValue DEF Span
  <1>2. n \in Nat /\ Len(doc.text) \in Nat /\ n <= Len(doc.text)
    BY Lengths
  <1>3. /\ Char(doc, a) # Space
        /\ Char(doc, a) = CASE w.type = "String" -> Quote
                            [] w.type = "Object" -> OpenBrace
                            [] w.type = "Array" -> OpenBracket
                            [] w.type = "Number" -> "0"
                            [] w.type = "Literal" -> "n"
    BY FirstCharacter, BeginsAValue
  <1>4. SkipWhitespace(p, len) = IF p >= len THEN p ELSE IF a < len THEN a ELSE len
    BY <1>1, <1>3, BlanksEnd
  <1>5. p <= a
    BY DEF Blank
  <1> HIDE DEF a, b, n, s, v
  <1>6. CASE ~(a < len)
    <2>1. SkipWhitespace(p, len) >= len
      BY <1>1, <1>4, <1>5, <1>6
    <2>2. v = NoValue
      BY <2>1, ParsedAs DEF v
    <2>3. len = n
      BY <1>1, <1>6 DEF n, b
    <2> QED
      BY <1>6, <2>1, <2>2, <2>3 DEF n, v, a
  <1>7. CASE a < len
    <2>1. SkipWhitespace(p, len) = a /\ ~(a >= len) /\ a < n
      BY <1>1, <1>2, <1>4, <1>5, <1>7 DEF n
    <2>2. b <= len \/ len = n
      BY DEF b, n
    <2>3. CASE w.type = "String"
      <3>1. At(a) = Quote
        BY <1>1, <1>3, <2>1, <2>3, SameCharacter, Characters DEF n
      <3> DEFINE c == ClosingQuote(a + 1, len)
      <3>2. v = Value("String", a, AfterQuote(c, len))
        BY <2>1, <3>1, ParsedAs DEF v
      <3>3. PICK marks \in Marks(a, b) : Quoted(doc, a, b, marks)
        BY <1>1, <2>3, ASpan
      <3>4. IF b - 1 < len THEN c = b - 1 ELSE c \in {len, len + 1}
        BY <1>1, <1>7, <3>3, QuoteFound
      <3> HIDE DEF c
      <3>5. b <= n => AfterQuote(c, len) = b
        <4>1. b <= n => b - 1 < len
          BY <1>1, <1>2, <2>2
        <4> QED
          BY <1>1, <3>4, <4>1 DEF AfterQuote
      <3>6. b > n => AfterQuote(c, len) \in {n, n + 1}
        <4>1. b > n => ~(b - 1 < len) /\ len = n
          BY <1>1, <1>2, <2>2 DEF n
        <4> QED
          BY <1>2, <3>4, <4>1 DEF AfterQuote
      <3>7. Views(v, w)
        BY <2>1, <2>3, <3>2, <3>5, <3>6 DEF Views, Value, a, b, n
      <3> QED
        BY <1>7, <2>1, <3>7 DEF v, a
    <2>4. CASE w.type \in {"Object", "Array"}
      <3> DEFINE c == FindMatchingBrace(a + 1, len, Opening[w.type], Closing[w.type])
      <3>1. At(a) = Opening[w.type]
        <4>1. Char(doc, a) = Opening[w.type]
          BY <1>1, <2>4, ASpan
        <4>2. Opening[w.type] \notin {"n", "x"}
          BY <2>4, Characters DEF Opening
        <4> QED
          BY <1>1, <2>1, <4>1, <4>2, SameCharacter DEF n
      <3>2. v = Value(w.type, a, c + 1)
        <4>1. CASE w.type = "Object"
          <5>1. Opening[w.type] = OpenBrace /\ Closing[w.type] = CloseBrace
            BY <4>1 DEF Opening, Closing
          <5> QED
            BY <2>1, <3>1, <4>1, <5>1, ParsedAs DEF v
        <4>2. CASE w.type = "Array"
          <5>1. Opening[w.type] = OpenBracket /\ Closing[w.type] = CloseBracket
            BY <4>2 DEF Opening, Closing
          <5> QED
            BY <2>1, <3>1, <4>2, <5>1, ParsedAs DEF v
        <4> QED
          BY <2>4, <4>1, <4>2
      <3>3. c = IF b - 1 < len THEN b - 1 ELSE len
        BY <1>1, <1>7, <2>4, BraceFound
      <3> HIDE DEF c
      <3>4. b <= n => c + 1 = b
        BY <1>1, <1>2, <2>2, <3>3
      <3>5. b > n => c + 1 = n + 1
        BY <1>1, <1>2, <2>2, <3>3 DEF n
      <3>6. Views(v, w)
        BY <2>1, <2>4, <3>2, <3>4, <3>5 DEF Views, Value, a, b, n
      <3> QED
        BY <1>7, <2>1, <3>6 DEF v, a
    <2>5. CASE w.type = "Number"
      <3>1. At(a) = "0"
        BY <1>1, <1>3, <2>1, <2>5, SameCharacter DEF n
      <3> DEFINE c == AfterRun("0", a, len)
      <3>2. v = Value("Number", a, c)
        BY <2>1, <3>1, ParsedAs DEF v
      <3> DEFINE e == IF b <= len THEN b ELSE len
      <3>3. e \in Nat /\ a <= e /\ e <= len
        BY <1>1, <1>7
      <3>4. \A r \in a..(e - 1) : At(r) = "0"
        <4> SUFFICES ASSUME NEW r \in a..(e - 1)
                     PROVE  At(r) = "0"
          OBVIOUS
        <4>1. r \in Nat /\ r < n /\ r \in a..(b - 1)
          BY <1>1, <1>2, <3>3 DEF n
        <4>2. Char(doc, r) = "0"
          BY <1>1, <2>5, <4>1 DEF IsValue, a, b
        <4> QED
          BY <4>1, <4>2, SameCharacter DEF n
      <3>5. e < len => At(e) # "0"
        <4> SUFFICES ASSUME e < len
                     PROVE  At(e) # "0"
          OBVIOUS
        <4>1. e = b /\ b < n /\ b < Len(doc.text)
          BY <1>1, <1>2 DEF n
        <4>2. Char(doc, b) # "0"
          BY <4>1, AfterAValue DEF b
        <4> QED
          BY <1>1, <4>1, <4>2, SameCharacter DEF n
      <3> HIDE DEF e
      <3>6. c = e
        BY <1>1, <3>3, <3>4, <3>5, AfterRunEnds
      <3>7. (b <= n => e = b) /\ (b > n => e = n)
        BY <1>1, <1>2, <2>2 DEF n, e
      <3> HIDE DEF c
      <3>8. Views(v, w)
        BY <1>2, <2>1, <2>5, <3>2, <3>6, <3>7 DEF Views, Value, a, b, n
      <3> QED
        BY <1>7, <2>1, <3>8 DEF v, a
    <2>6. CASE w.type = "Literal"
      <3>1. Char(doc, a) = "n" /\ b = a + 1
        BY <1>1, <1>3, <2>6 DEF IsValue, a, b
      <3>2. b <= n
        BY <1>1, <1>2, <2>1, <3>1
      <3>3. At(a) = "n" \/ (At(a) = "x" /\ ~Whole)
        <4>1. a \in 0..(n - 1)
          BY <1>1, <1>2, <2>1
        <4> QED
          BY <3>1, <4>1 DEF FromDocument, n
      <3>4. CASE At(a) = "n"
        <4>1. v = Value("Literal", a, b)
          BY <2>1, <3>1, <3>4, ParsedAs DEF v
        <4>2. Views(v, w)
          BY <1>1, <1>2, <2>1, <2>6, <3>2, <4>1 DEF Views, Value, a, b, n
        <4> QED
          BY <1>7, <2>1, <4>2 DEF v, a
      <3>5. CASE At(a) = "x" /\ ~Whole
        <4>1. At(a) \notin {Quote, OpenBrace, OpenBracket, "n", "0"}
          BY <3>5, Characters
        <4>2. v = Value("Null", a, a)
          BY <2>1, <4>1, ParsedAs DEF v
        <4>3. BreaksOff(v, w)
          BY <3>5, <4>2 DEF BreaksOff, Value, a
        <4> QED
          BY <1>7, <2>1, <4>3 DEF v, a
      <3> QED
        BY <3>3, <3>4, <3>5
    <2> QED
      BY <1>1, <2>3, <2>4, <2>5, <2>6 DEF Types
  <1> QED
    <2>1. a < len \/ ~(a < len)
      OBVIOUS
    <2> QED
      BY <1>6, <1>7, <2>1, Zenon DEF v, a, w

-----------------------------------------------------------------------------
(* What a string says.                                                        *)

(* asString() from the place p on, up to the closing quote.                   *)
ReadsFrom(f, end) ==
    \A p \in Nat : f[p] = IF p >= end THEN <<>>
                          ELSE IF At(p) = Backslash /\ p + 1 < end
                               THEN <<Unescape(At(p + 1))>> \o f[p + 2]
                               ELSE <<At(p)>> \o f[p + 1]

(* An escape of two characters reads as one. *)
LEMMA UnescapesToLetter ==
    ASSUME NEW c \in Letter
    PROVE  Unescape(c) \in Letter
  BY DEF Unescape, Letter

(* asString() (json.cpp:194-231) reads one character or escape after the      *)
(* other.                                                                     *)
LEMMA AsStringReads ==
    ASSUME text \in Seq(Letter), NEW v, v.start \in Nat, v.end - 1 \in Nat, v.end - 1 <= Len(text)
    PROVE  \/ v.start + 1 > v.end - 1 /\ AsString(v) = <<"throws">>
           \/ \E f : ReadsFrom(f, v.end - 1) /\ AsString(v) = f[v.start + 1] /\ v.start + 1 <= v.end - 1
  <1> DEFINE end == v.end - 1
             T == Seq(Letter)
             escapes(p) == At(p) = Backslash /\ p + 1 < end
             One(p) == <<At(p)>>
             Two(p) == <<Unescape(At(p + 1))>>
             Reads(f) == f = [p \in Nat |-> IF p >= end THEN <<>>
                                            ELSE IF escapes(p) THEN Two(p) \o f[p + 2] ELSE One(p) \o f[p + 1]]
             size == [p \in Nat |-> IF p >= end THEN 0 ELSE end - p]
             stop == {p \in Nat : p >= end}
             none == <<>>
             base == [p \in Nat |-> none]
             prev == [p \in Nat |-> IF escapes(p) THEN p + 2 ELSE p + 1]
             Head1(p) == IF escapes(p) THEN Two(p) ELSE One(p)
             next == [p \in Nat |-> IF p >= end THEN [t \in T |-> t] ELSE [t \in T |-> Head1(p) \o t]]
  <1>1. end \in Nat /\ end <= Len(text)
    OBVIOUS
  <1>2. ASSUME NEW p \in Nat, p < end
        PROVE  Head1(p) \in T
    <2>1. p + 1 \in 1..Len(text) /\ (p + 1 < end => p + 2 \in 1..Len(text))
      BY <1>1, <1>2
    <2>2. At(p) \in Letter /\ (p + 1 < end => At(p + 1) \in Letter)
      <3>1. p + 1 + 1 = p + 2
        OBVIOUS
      <3> QED
        BY <2>1, <3>1 DEF At
    <2>3. One(p) \in T
      <3> DEFINE c == At(p)
      <3>1. c \in Letter
        BY <2>2, UnescapesToLetter
      <3> HIDE DEF c
      <3>2. <<c>> \in Seq(Letter)
        BY <3>1
      <3> QED
        BY <3>2 DEF c
    <2>4. p + 1 < end => Two(p) \in T
      <3> SUFFICES ASSUME p + 1 < end
                   PROVE  Two(p) \in T
        OBVIOUS
      <3> DEFINE c == Unescape(At(p + 1))
      <3>1. c \in Letter
        BY <2>2, UnescapesToLetter
      <3> HIDE DEF c
      <3>2. <<c>> \in Seq(Letter)
        BY <3>1
      <3> QED
        BY <3>2 DEF c
    <2> HIDE DEF One, Two
    <2> QED
      BY <2>3, <2>4
  <1> HIDE DEF end, escapes, One, Two
  <1>3. /\ size \in [Nat -> Nat] /\ stop \in SUBSET Nat /\ prev \in [Nat -> Nat]
        /\ \A p \in Nat : p \notin stop => size[prev[p]] < size[p]
    BY <1>1
  <1>4. none \in T
    OBVIOUS
  <1>5. base \in [Nat -> T]
    BY <1>4
  <1>6. next \in [Nat -> [T -> T]]
    <2>1. ASSUME NEW p \in Nat, NEW t \in T, ~(p >= end)
          PROVE  Head1(p) \o t \in T
      <3>1. Head1(p) \in T
        BY <1>1, <1>2, <2>1
      <3> HIDE DEF Head1
      <3> QED
        BY <2>1, <3>1
    <2> HIDE DEF Head1, T
    <2> QED
      BY <2>1
  <1>7. PICK g \in [Nat -> T] : IsRecursion(g, Nat, stop, base, prev, next)
    <2> HIDE DEF size, stop, base, prev, next, T
    <2> QED
      BY <1>3, <1>5, <1>6, RecursionExists
  <1>8. \A p \in Nat : g[p] = IF p >= end THEN <<>>
                              ELSE IF escapes(p) THEN Two(p) \o g[p + 2] ELSE One(p) \o g[p + 1]
    <2> SUFFICES ASSUME NEW p \in Nat
                 PROVE  g[p] = IF p >= end THEN <<>>
                               ELSE IF escapes(p) THEN Two(p) \o g[p + 2] ELSE One(p) \o g[p + 1]
      OBVIOUS
    <2>1. g[p] = IF p \in stop THEN base[p] ELSE next[p][g[prev[p]]]
      BY <1>7 DEF IsRecursion
    <2>2. CASE p >= end
      <3>1. p \in stop /\ base[p] = <<>>
        BY <2>2
      <3> QED
        BY <2>1, <2>2, <3>1
    <2>3. CASE ~(p >= end)
      <3>1. p \notin stop /\ prev[p] \in Nat /\ prev[p] = IF escapes(p) THEN p + 2 ELSE p + 1
        BY <2>3
      <3>2. g[prev[p]] \in T
        BY <1>7, <3>1
      <3>3. next[p][g[prev[p]]] = Head1(p) \o g[prev[p]]
        <4> HIDE DEF Head1, T, prev
        <4> QED
          BY <2>3, <3>2
      <3> HIDE DEF next, prev, stop, base
      <3> QED
        BY <2>1, <2>3, <3>1, <3>3
    <2> QED
      BY <2>2, <2>3
  <1>9. Reads(g)
    <2> HIDE DEF One, Two
    <2> QED
      BY <1>7, <1>8
  <1> DEFINE from == CHOOSE f : Reads(f)
  <1>10. Reads(from)
    <2> HIDE DEF Reads
    <2> QED
      BY <1>9
  <1>11. AsString(v) = IF v.start + 1 > end THEN <<"throws">> ELSE from[v.start + 1]
    BY Zenon DEF AsString, end, escapes, One, Two
  <1>12. ReadsFrom(from, end)
    <2>1. \A p \in Nat : from[p] = IF p >= end THEN <<>>
                              ELSE IF escapes(p) THEN Two(p) \o from[p + 2] ELSE One(p) \o from[p + 1]
      <3> HIDE DEF from
      <3> QED
        BY <1>10
    <2> HIDE DEF from
    <2> QED
      BY <2>1, Zenon DEF ReadsFrom, escapes, One, Two
  <1> HIDE DEF from
  <1>13. v.start + 1 > end \/ v.start + 1 <= end
    <2> DEFINE st == v.start
    <2>1. st \in Nat
      OBVIOUS
    <2> HIDE DEF st
    <2>2. st + 1 > end \/ st + 1 <= end
      BY <1>1, <2>1
    <2> QED
      BY <2>2 DEF st
  <1> QED
    BY <1>11, <1>12, <1>13 DEF end

(* The characters from the k-th on, so far as they lie before end, and half   *)
(* an escape if the end falls in one.                                         *)
LEMMA RestRead ==
    ASSUME FromDocument, NEW start \in Nat, NEW b \in Nat, b <= Len(doc.text),
           NEW marks \in Marks(start, b), Quoted(doc, start, b, marks),
           NEW end \in Nat, end <= Len(text), end <= b - 1, start < end,
           NEW f, ReadsFrom(f, end)
    PROVE  \E m \in 1..Len(marks) :
               /\ f[start + 1] \in Seq(Letter)
               /\ \/ Len(f[start + 1]) = m - 1
                  \/ Len(f[start + 1]) = m /\ f[start + 1][m] = Backslash
               /\ \A j \in 1..(m - 1) : f[start + 1][j] = Said(doc, marks[j])
               /\ end = b - 1 => m = Len(marks) /\ Len(f[start + 1]) = m - 1
  <1> DEFINE n == Len(marks)
             Good(k, m, r) ==
                 /\ r \in Seq(Letter)
                 /\ Len(r) = m - k \/ (Len(r) = m - k + 1 /\ r[m - k + 1] = Backslash)
                 /\ \A j \in 1..(m - k) : r[j] = Said(doc, marks[k + j - 1])
                 /\ end = b - 1 => m = n /\ Len(r) = m - k
             Done == {j \in Nat : \A k \in 1..n : n - k <= j /\ marks[k] <= end =>
                                      \E m \in k..n : Good(k, m, f[marks[k]])}
  <1>1. /\ n \in Nat /\ n >= 1
        /\ \A k \in 1..n : marks[k] \in Nat /\ start < marks[k] /\ marks[k] < b
    BY MarksInString
  <1>2. /\ marks[1] = start + 1 /\ marks[n] = b - 1
        /\ \A k \in 1..(n - 1) : OneCharacter(doc, marks[k], marks[k + 1])
    BY DEF Quoted
  <1>3. Len(text) \in Nat /\ Len(doc.text) \in Nat /\ Len(text) <= Len(doc.text) /\ text \in Seq(Letter)
    BY Lengths DEF FromDocument
  <1> HIDE DEF n
  <1>4. ASSUME NEW k \in 1..n, marks[k] = end
        PROVE  \E m \in k..n : Good(k, m, f[marks[k]])
    <2> DEFINE r == f[marks[k]]
    <2>1. r = <<>>
      <3>1. marks[k] \in Nat /\ marks[k] >= end
        BY <1>1, <1>4
      <3> QED
        BY <3>1, Zenon DEF ReadsFrom
    <2>2. r \in Seq(Letter) /\ Len(r) = 0
      BY <2>1
    <2> HIDE DEF r
    <2>3. end = b - 1 => k = n
      <3>1. k \in 1..(n - 1) => marks[k] < b - 1
        <4> SUFFICES ASSUME k \in 1..(n - 1)
                     PROVE  marks[k] < b - 1
          OBVIOUS
        <4>1. k + 1 \in 1..n /\ k \in 1..n
          BY <1>1
        <4>2. marks[k + 1] < b /\ marks[k + 1] \in Nat /\ marks[k] \in Nat
          BY <1>1, <4>1
        <4>3. OneCharacter(doc, marks[k], marks[k + 1])
          BY <1>2
        <4> QED
          BY <4>2, <4>3 DEF OneCharacter
      <3> QED
        BY <1>1, <1>4, <3>1
    <2>4. Good(k, k, r)
      BY <1>1, <2>2, <2>3
    <2>5. k \in k..n
      BY <1>1
    <2> HIDE DEF Good
    <2> QED
      BY <2>4, <2>5 DEF r
  <1>5. ASSUME NEW k \in 1..(n - 1), marks[k] < end, marks[k + 1] > end
        PROVE  \E m \in k..n : Good(k, m, f[marks[k]])
    <2> DEFINE p == marks[k]
               r == f[p]
    <2>1. k \in 1..n /\ k + 1 \in 1..n
      BY <1>1
    <2>2. p \in Nat /\ marks[k + 1] \in Nat /\ OneCharacter(doc, p, marks[k + 1]) /\ marks[k + 1] < b
      BY <1>1, <1>2, <2>1
    <2>3. p + 1 = end /\ Char(doc, p) = Backslash /\ p < Len(text) /\ marks[k + 1] = p + 2
      BY <1>3, <1>5, <2>2 DEF OneCharacter
    <2>4. At(p) = Backslash
      BY <2>2, <2>3, SameCharacter, Characters
    <2>5. f[p + 1] = <<>>
      <3>1. p + 1 \in Nat /\ p + 1 >= end
        BY <2>2, <2>3
      <3> QED
        BY <3>1, Zenon DEF ReadsFrom
    <2>6. r = <<At(p)>> \o <<>>
      <3>1. ~(p >= end) /\ ~(p + 1 < end)
        BY <2>2, <2>3
      <3> QED
        BY <2>2, <2>5, <3>1 DEF ReadsFrom
    <2> HIDE DEF p
    <2>7. At(p) \in Letter
      BY <1>3, <2>2, <2>3 DEF At
    <2>8. r \in Seq(Letter) /\ Len(r) = 1 /\ r[1] = Backslash
      <3> DEFINE one == <<At(p)>>
      <3>1. one \in Seq(Letter) /\ Len(one) = 1 /\ one[1] = At(p)
        <4>1. At(p) \in Letter
          BY <2>7, UnescapesToLetter
        <4> QED
          BY <4>1
      <3>2. r = one
        <4> HIDE DEF one
        <4>1. one \o <<>> = one
          BY <3>1, ConcatEmptySeq
        <4> QED
          BY <2>6, <4>1 DEF one
      <3> QED
        BY <2>4, <3>1, <3>2
    <2>9. end # b - 1
      BY <1>5, <2>2, <2>3
    <2> HIDE DEF r
    <2>10. Good(k, k, r)
      BY <2>1, <2>8, <2>9
    <2>11. k \in k..n
      BY <1>1
    <2> HIDE DEF Good
    <2> QED
      BY <2>10, <2>11 DEF r, p
  <1>6. ASSUME NEW k \in 1..(n - 1), marks[k] < end, marks[k + 1] <= end,
               NEW m \in (k + 1)..n, Good(k + 1, m, f[marks[k + 1]])
        PROVE  Good(k, m, f[marks[k]])
    <2> DEFINE p == marks[k]
               q == marks[k + 1]
               c == Said(doc, p)
               r == f[p]
               t == f[q]
    <2>1. k \in 1..n /\ k + 1 \in 1..n
      BY <1>1
    <2>2. p \in Nat /\ q \in Nat /\ OneCharacter(doc, p, q) /\ p < Len(text) /\ p < end /\ q <= end
      <3>1. p \in Nat /\ q \in Nat
        BY <1>1, <2>1
      <3>2. OneCharacter(doc, p, q)
        BY <1>2
      <3>3. p < end /\ q <= end
        BY <1>6
      <3> QED
        BY <1>3, <3>1, <3>2, <3>3
    <2>3. t \in Seq(Letter)
      BY <1>6
    <2> HIDE DEF p, q
    <2>4. c \in Letter /\ r = <<c>> \o t
      <3>1. CASE q = p + 1 /\ Char(doc, p) \notin {Quote, Backslash, "n"}
        <4>1. At(p) = Char(doc, p)
          <5>1. p \in 0..(Len(text) - 1)
            BY <1>3, <2>2
          <5> QED
            BY <3>1, <5>1 DEF FromDocument
        <4>2. c = At(p) /\ At(p) # Backslash
          BY <3>1, <4>1 DEF Said
        <4>3. At(p) \in Letter
          BY <1>3, <2>2 DEF At
        <4>4. r = <<At(p)>> \o f[p + 1]
          <5>1. ~(p >= end)
            BY <2>2
          <5> QED
            BY <2>2, <4>2, <5>1 DEF ReadsFrom
        <4>5. c \in Letter
          BY <4>2, <4>3, UnescapesToLetter
        <4> QED
          BY <3>1, <4>2, <4>4, <4>5 DEF t
      <3>2. CASE q = p + 2 /\ Char(doc, p) = Backslash /\ Char(doc, p + 1) # "n"
        <4>1. p + 1 \in Nat /\ p + 1 < Len(text) /\ p + 1 < end
          BY <1>3, <2>2, <3>2
        <4>2. At(p) = Backslash
          BY <2>2, <3>2, SameCharacter, Characters
        <4>3. At(p + 1) = Char(doc, p + 1)
          <5>1. p + 1 \in 0..(Len(text) - 1)
            BY <1>3, <4>1
          <5> QED
            BY <3>2, <5>1 DEF FromDocument
        <4>4. c = Unescape(At(p + 1))
          BY <3>2, <4>3 DEF Said, Means, Unescape
        <4>5. At(p + 1) \in Letter
          <5>1. p + 1 + 1 \in 1..Len(text)
            BY <1>3, <4>1
          <5> QED
            BY <1>3, <5>1 DEF At
        <4>6. r = <<Unescape(At(p + 1))>> \o f[p + 2]
          <5>1. ~(p >= end)
            BY <2>2
          <5> QED
            BY <2>2, <4>1, <4>2, <5>1 DEF ReadsFrom
        <4>7. c \in Letter
          BY <4>4, <4>5, UnescapesToLetter
        <4> QED
          BY <3>2, <4>4, <4>6, <4>7 DEF t
      <3> QED
        BY <2>2, <3>1, <3>2 DEF OneCharacter
    <2> HIDE DEF c, r, t
    <2>5. /\ r \in Seq(Letter) /\ Len(r) = Len(t) + 1 /\ r[1] = c
          /\ \A i \in 1..Len(t) : r[i + 1] = t[i]
      BY <2>3, <2>4, InFront
    <2>6. /\ Len(t) = m - (k + 1) \/ (Len(t) = m - (k + 1) + 1 /\ t[m - (k + 1) + 1] = Backslash)
          /\ \A j \in 1..(m - (k + 1)) : t[j] = Said(doc, marks[k + 1 + j - 1])
          /\ end = b - 1 => m = n /\ Len(t) = m - (k + 1)
      BY <1>6 DEF t, q
    <2>7. m \in Nat /\ k \in Nat /\ m >= k + 1 /\ Len(t) \in Nat
      BY <1>1, <2>3
    <2>8. Len(r) = m - k \/ (Len(r) = m - k + 1 /\ r[m - k + 1] = Backslash)
      <3>1. CASE Len(t) = m - (k + 1)
        BY <2>5, <2>7, <3>1
      <3>2. CASE Len(t) = m - (k + 1) + 1 /\ t[m - (k + 1) + 1] = Backslash
        <4>1. m - k \in 1..Len(t) /\ m - (k + 1) + 1 = m - k /\ Len(t) = m - k
          BY <2>7, <3>2
        <4>2. r[m - k + 1] = t[m - k]
          BY <2>5, <4>1
        <4> QED
          BY <2>5, <2>7, <3>2, <4>1, <4>2
      <3> QED
        BY <2>6, <3>1, <3>2
    <2>9. ASSUME NEW j \in 1..(m - k)
          PROVE  r[j] = Said(doc, marks[k + j - 1])
      <3>1. CASE j = 1
        <4>1. k + j - 1 = k
          BY <2>7, <3>1
        <4> QED
          BY <2>5, <3>1, <4>1 DEF c, p
      <3>2. CASE j # 1
        <4> DEFINE i == j - 1
        <4>1. i \in 1..(m - (k + 1)) /\ i \in 1..Len(t) /\ i + 1 = j /\ k + 1 + i - 1 = k + j - 1
          BY <2>6, <2>7, <3>2
        <4> HIDE DEF i
        <4>2. r[i + 1] = t[i] /\ t[i] = Said(doc, marks[k + 1 + i - 1])
          BY <2>5, <2>6, <4>1
        <4> QED
          BY <4>1, <4>2
      <3> QED
        BY <3>1, <3>2
    <2>10. end = b - 1 => m = n /\ Len(r) = m - k
      BY <2>5, <2>6, <2>7
    <2> QED
      BY <2>5, <2>8, <2>9, <2>10 DEF r, p
  <1> HIDE DEF Good
  <1>7. 0 \in Done
    <2>1. \A k \in 1..n : n - k <= 0 /\ marks[k] <= end => marks[k] = end
      <3> SUFFICES ASSUME NEW k \in 1..n, n - k <= 0, marks[k] <= end
                   PROVE  marks[k] = end
        OBVIOUS
      <3>1. k = n
        BY <1>1
      <3> QED
        BY <1>1, <1>2, <3>1
    <2> QED
      BY <1>4, <2>1
  <1>8. ASSUME NEW j \in Nat, j \in Done
        PROVE  j + 1 \in Done
    <2> SUFFICES ASSUME NEW k \in 1..n, n - k <= j + 1, marks[k] <= end
                 PROVE  \E m \in k..n : Good(k, m, f[marks[k]])
      OBVIOUS
    <2>1. CASE marks[k] = end
      BY <1>4, <2>1
    <2>2. CASE marks[k] < end
      <3>1. k # n
        BY <1>2, <2>2
      <3>2. k \in 1..(n - 1) /\ k + 1 \in 1..n /\ n - (k + 1) <= j
        BY <1>1, <3>1
      <3>3. CASE marks[k + 1] > end
        BY <1>5, <2>2, <3>2, <3>3
      <3>4. CASE marks[k + 1] <= end
        <4>1. PICK m \in (k + 1)..n : Good(k + 1, m, f[marks[k + 1]])
          BY <1>8, <3>2, <3>4
        <4>2. Good(k, m, f[marks[k]])
          BY <1>6, <2>2, <3>2, <3>4, <4>1
        <4>3. m \in k..n
          BY <1>1, <3>2
        <4> QED
          BY <4>2, <4>3
      <3>5. marks[k + 1] \in Nat
        BY <1>1, <3>2
      <3> QED
        BY <3>3, <3>4, <3>5
    <2>3. marks[k] \in Nat
      BY <1>1
    <2> QED
      BY <2>1, <2>2, <2>3
  <1>9. n \in Done
    <2> HIDE DEF Done
    <2> QED
      BY <1>1, <1>7, <1>8, AllNumbers
  <1>10. 1 \in 1..n /\ n - 1 <= n /\ marks[1] <= end
    BY <1>1, <1>2
  <1>11. PICK m \in 1..n : Good(1, m, f[marks[1]])
    BY <1>9, <1>10
  <1> DEFINE r == f[start + 1]
  <1>12. Good(1, m, r)
    BY <1>2, <1>11
  <1> HIDE DEF r
  <1>13. m - 1 + 1 = m /\ \A j \in 1..(m - 1) : 1 + j - 1 = j
    BY <1>1
  <1>14. /\ r \in Seq(Letter)
         /\ Len(r) = m - 1 \/ (Len(r) = m /\ r[m] = Backslash)
         /\ \A j \in 1..(m - 1) : r[j] = Said(doc, marks[j])
         /\ end = b - 1 => m = n /\ Len(r) = m - 1
    BY <1>12, <1>13 DEF Good
  <1> QED
    BY <1>14 DEF r, n

(* asString() of a view of a written string is what the string says, or where *)
(* the string was cut a beginning of it, with half an escape at its end or    *)
(* not.                                                                       *)
LEMMA AsStringRead ==
    ASSUME FromDocument, NEW way \in DOMAIN doc.at, doc.at[way].type = "String",
           NEW v, Views(v, doc.at[way])
    PROVE  LET read == AsString(v)
               written == doc.at[way].content
           IN /\ doc.at[way].end <= Len(text) => read = written
              /\ \/ read = <<"throws">>
                 \/ IsPrefix(read, written)
                 \/ Last(read) = Backslash /\ IsPrefix(Front(read), written)
  <1> DEFINE w == doc.at[way]
             a == w.start
             b == w.end
             written == w.content
             end == v.end - 1
             N == Len(text)
  <1>1. /\ a \in Nat /\ b \in Nat /\ a < b /\ b <= Len(doc.text)
        /\ N \in Nat /\ Len(doc.text) \in Nat /\ N <= Len(doc.text) /\ text \in Seq(Letter)
    BY AValue, Lengths DEF FromDocument
  <1>2. PICK marks \in Marks(a, b) :
            /\ Quoted(doc, a, b, marks)
            /\ written = [k \in 1..(Len(marks) - 1) |-> Said(doc, marks[k])]
    <2>1. IsValue(doc, way)
      BY AValue
    <2> QED
      BY <2>1 DEF IsValue
  <1>3. /\ v.start = a /\ a < N
        /\ b <= N => v.end = b
        /\ b > N => v.end \in {N, N + 1}
    BY DEF Views
  <1> HIDE DEF w, a, b, written, N
  <1>4. v.end \in Nat /\ v.end >= 1 /\ end \in Nat /\ end <= N /\ end <= b - 1 /\ (b <= N => end = b - 1)
    <2>1. CASE b <= N
      BY <1>1, <1>3, <2>1
    <2>2. CASE b > N
      BY <1>1, <1>3, <2>2
    <2> QED
      BY <1>1, <2>1, <2>2
  <1>5. Len(marks) \in Nat /\ Len(marks) >= 1 /\ Len(marks) <= b - a - 1
    BY <1>1, MarksInString
  <1> DEFINE n == Len(marks)
             S == {Said(doc, marks[k]) : k \in 1..(n - 1)}
             read == AsString(v)
  <1>6. written \in Seq(S) /\ Len(written) = n - 1 /\ \A k \in 1..(n - 1) : written[k] = Said(doc, marks[k])
    <2> HIDE DEF n
    <2>1. n \in Nat /\ n >= 1 /\ written = [k \in 1..(n - 1) |-> Said(doc, marks[k])]
      BY <1>2, <1>5 DEF n
    <2>2. written \in [1..(n - 1) -> S]
      BY <2>1
    <2> HIDE DEF S
    <2>3. n - 1 \in Nat
      BY <2>1
    <2>4. written \in Seq(S) /\ Len(written) = n - 1
      BY <2>2, <2>3
    <2> QED
      BY <2>1, <2>4
  <1> HIDE DEF S
  <1>7. \/ v.start + 1 > end /\ read = <<"throws">>
        \/ \E f : ReadsFrom(f, end) /\ read = f[v.start + 1] /\ v.start + 1 <= end
    <2>1. v.start \in Nat /\ v.end - 1 \in Nat /\ v.end - 1 <= Len(text)
      BY <1>1, <1>3, <1>4 DEF N
    <2> QED
      BY <1>1, <2>1, AsStringReads
  <1> HIDE DEF end, read
  <1>8. CASE v.start + 1 > end /\ read = <<"throws">>
    <2>1. a + 1 <= b - 1
      BY <1>1, <1>5
    <2>2. ~(b <= N)
      BY <1>1, <1>3, <1>4, <1>8, <2>1
    <2> QED
      BY <1>8, <2>2 DEF w, b, N, read, written
  <1>9. CASE \E f : ReadsFrom(f, end) /\ read = f[v.start + 1] /\ v.start + 1 <= end
    <2>1. PICK f : ReadsFrom(f, end) /\ read = f[a + 1] /\ a + 1 <= end
      BY <1>3, <1>9
    <2>2. a < end
      BY <1>1, <1>4, <2>1
    <2>3. b <= Len(doc.text) /\ end <= Len(text)
      BY <1>1, <1>4 DEF N
    <2>4. PICK m \in 1..Len(marks) :
               /\ f[a + 1] \in Seq(Letter)
               /\ \/ Len(f[a + 1]) = m - 1
                  \/ Len(f[a + 1]) = m /\ f[a + 1][m] = Backslash
               /\ \A j \in 1..(m - 1) : f[a + 1][j] = Said(doc, marks[j])
               /\ end = b - 1 => m = Len(marks) /\ Len(f[a + 1]) = m - 1
      <3>1. Quoted(doc, a, b, marks) /\ marks \in Marks(a, b) /\ a \in Nat /\ b \in Nat /\ end \in Nat /\ end <= b - 1
        BY <1>1, <1>2, <1>4
      <3>2. ReadsFrom(f, end)
        BY <2>1
      <3> QED
        BY <2>2, <2>3, <3>1, <3>2, RestRead
    <2>5. /\ read \in Seq(Letter) /\ m \in Nat /\ m >= 1 /\ m <= n
          /\ Len(read) = m - 1 \/ (Len(read) = m /\ read[m] = Backslash)
          /\ \A j \in 1..(m - 1) : read[j] = written[j]
          /\ end = b - 1 => m = n /\ Len(read) = m - 1
      <3>1. /\ read \in Seq(Letter) /\ m \in Nat /\ m >= 1 /\ m <= n
            /\ Len(read) = m - 1 \/ (Len(read) = m /\ read[m] = Backslash)
            /\ end = b - 1 => m = n /\ Len(read) = m - 1
        BY <1>5, <2>1, <2>4
      <3>2. ASSUME NEW j \in 1..(m - 1) PROVE read[j] = written[j]
        <4>1. j \in 1..(n - 1)
          BY <1>5, <3>1
        <4> QED
          BY <1>6, <2>1, <2>4, <4>1
      <3> QED
        BY <3>1, <3>2
    <2>9. n \in Nat /\ n >= 1
      BY <1>5
    <2> HIDE DEF n
    <2>6. b <= N => read = written
      <3> SUFFICES ASSUME b <= N PROVE read = written
        OBVIOUS
      <3>1. Len(read) = Len(written) /\ \A j \in 1..Len(read) : read[j] = written[j]
        BY <1>4, <1>6, <2>5
      <3> QED
        BY <1>6, <2>5, <3>1, SeqEqual
    <2>7. Len(read) = m - 1 => IsPrefix(read, written)
      <3> SUFFICES ASSUME Len(read) = m - 1 PROVE IsPrefix(read, written)
        OBVIOUS
      <3>1. Len(read) <= Len(written) /\ \A j \in 1..Len(read) : read[j] = written[j]
        BY <1>6, <2>5, <2>9
      <3> QED
        BY <1>6, <2>5, <3>1, PrefixByElements
    <2>8. Len(read) = m /\ read[m] = Backslash => Last(read) = Backslash /\ IsPrefix(Front(read), written)
      <3> SUFFICES ASSUME Len(read) = m, read[m] = Backslash
                   PROVE  Last(read) = Backslash /\ IsPrefix(Front(read), written)
        OBVIOUS
      <3>1. Last(read) = Backslash
        BY DEF Last
      <3> DEFINE front == SubSeq(read, 1, m - 1)
      <3>2. front \in Seq(Letter) /\ Len(front) = m - 1 /\ \A j \in 1..(m - 1) : front[j] = read[j]
        BY <2>5
      <3>3. Front(read) = front
        BY DEF Front
      <3> HIDE DEF front
      <3>4. Len(front) <= Len(written) /\ \A j \in 1..Len(front) : front[j] = written[j]
        BY <1>6, <2>5, <2>9, <3>2
      <3> QED
        BY <1>6, <3>1, <3>2, <3>3, <3>4, PrefixByElements
    <2> QED
      BY <2>5, <2>6, <2>7, <2>8 DEF w, b, N, read, written
  <1> QED
    BY <1>7, <1>8, <1>9 DEF w, b, N, read, written

-----------------------------------------------------------------------------
(* The items of an object or an array, one after the other.                   *)

(* The path to an item, and the cursor before an item or its value. *)
Item(way, i) == Append(way, doc.at[way].items[i].by)

AtItem(way, p, i) == i \in 0..Len(doc.at[way].items) /\ Blank(doc, p, Ahead(doc.at[way], i))
AtValue(way, p) == Blank(doc, p, doc.at[way].start)

(* A key of an object is a string of its document. *)
LEMMA AKey ==
    ASSUME FromDocument, NEW way \in DOMAIN doc.at, doc.at[way].type = "Object",
           NEW i \in 1..Len(doc.at[way].items)
    PROVE  LET k == doc.at[way].items[i]
           IN /\ k.start \in Nat /\ k.end \in Nat /\ k.start < k.end /\ k.end <= Len(doc.text)
              /\ \E marks \in Marks(k.start, k.end) : Quoted(doc, k.start, k.end, marks)
  <1> DEFINE k == doc.at[way].items[i]
             s == Span("String", k.start, k.end)
  <1>1. k \in Range(doc.at[way].items)
    <2>1. doc.at[way].items \in Seq([by : Selections, start : Nat, end : Nat])
      BY Items
    <2>2. DOMAIN doc.at[way].items = 1..Len(doc.at[way].items)
      BY <2>1
    <2> QED
      BY <2>2 DEF Range
  <1>2. s \in Names(doc)
    BY <1>1 DEF Names
  <1>3. s.start = k.start /\ s.end = k.end
    BY DEF Span
  <1>4. IsDocument(doc)
    BY ADocument
  <1> HIDE DEF s
  <1>5. /\ s.start \in 0..(s.end - 1) /\ s.end \in 1..Len(doc.text)
        /\ \E marks \in Marks(s.start, s.end) : Quoted(doc, s.start, s.end, marks)
    BY <1>2, <1>4 DEF IsDocument
  <1> HIDE DEF k
  <1>6. /\ k.start \in 0..(k.end - 1) /\ k.end \in 1..Len(doc.text)
        /\ \E marks \in Marks(k.start, k.end) : Quoted(doc, k.start, k.end, marks)
    BY <1>3, <1>5
  <1>7. Len(doc.text) \in Nat
    BY Lengths
  <1> QED
    BY <1>6, <1>7 DEF k

(* Where an item of an object or an array lies, and what follows it. *)
LEMMA AnItem ==
    ASSUME FromDocument, NEW way \in DOMAIN doc.at, doc.at[way].type \in {"Object", "Array"},
           NEW i \in 1..Len(doc.at[way].items)
    PROVE  LET w == doc.at[way]
               k == w.items[i]
               v == doc.at[Item(way, i)]
           IN /\ Item(way, i) \in DOMAIN doc.at
              /\ k.start = Ahead(w, i - 1) /\ k.start \in Nat
              /\ k.start <= v.start /\ v.start < v.end /\ v.end <= Ahead(w, i)
              /\ v.start \in Nat /\ v.end \in Nat /\ Ahead(w, i) \in Nat
              /\ IF i < Len(w.items) THEN Parted(doc, v.end, Ahead(w, i), Comma)
                 ELSE Blank(doc, v.end, Ahead(w, i))
              /\ w.type = "Array" => k.by = Element(i - 1) /\ k.start = v.start
              /\ w.type = "Object" => /\ k.by = Member(SubSeq(doc.text, k.start + 2, k.end - 1))
                                      /\ Parted(doc, k.end, v.start, Colon)
  <1> DEFINE w == doc.at[way]
             k == w.items[i]
             v == doc.at[Item(way, i)]
             n == Len(w.items)
             q == Ahead(w, i)
  <1>1. HoldsItems(doc, way) /\ w.items \in Seq([by : Selections, start : Nat, end : Nat])
    BY Items
  <1>2. /\ Item(way, i) \in DOMAIN doc.at
        /\ IF i < n THEN Parted(doc, v.end, q, Comma) ELSE Blank(doc, v.end, q)
        /\ IF w.type = "Array" THEN k.by = Element(i - 1) /\ k.start = v.start
           ELSE /\ k.by = Member(SubSeq(doc.text, k.start + 2, k.end - 1))
                /\ Parted(doc, k.end, v.start, Colon)
    BY <1>1, Zenon DEF HoldsItems, Item
  <1>3. n \in Nat /\ i \in Nat /\ i >= 1 /\ i <= n
    BY <1>1
  <1>4. \A j \in 1..n : w.items[j].start \in Nat
    <2> DEFINE K == [by : Selections, start : Nat, end : Nat]
               all == w.items
    <2>1. all \in Seq(K)
      BY <1>1
    <2>2. \A x \in K : x.start \in Nat
      OBVIOUS
    <2> HIDE DEF K, all
    <2>3. \A j \in 1..Len(all) : all[j] \in K
      BY <2>1
    <2>4. \A j \in 1..Len(all) : all[j].start \in Nat
      BY <2>2, <2>3
    <2> QED
      BY <2>4 DEF all
  <1>5. k.start = Ahead(w, i - 1) /\ k.start \in Nat
    <2>1. i - 1 < n /\ i - 1 + 1 = i
      BY <1>3
    <2> QED
      BY <1>3, <1>4, <2>1 DEF Ahead
  <1>6. q \in Nat
    <2>1. CASE i < n
      <3>1. w.items[i + 1].start \in Nat
        BY <1>3, <1>4, <2>1
      <3> QED
        BY <2>1, <3>1 DEF Ahead
    <2>2. CASE ~(i < n)
      <3>1. w.end \in Nat /\ w.start \in Nat /\ w.start < w.end
        BY AValue
      <3> HIDE DEF w
      <3>2. w.end - 1 \in Nat
        BY <3>1
      <3> QED
        BY <2>2, <3>2 DEF Ahead
    <2> QED
      BY <2>1, <2>2
  <1>7. v.start \in Nat /\ v.end \in Nat /\ v.start < v.end
    BY <1>2, AValue
  <1>8. v.end <= q
    <2> HIDE DEF v, q
    <2>1. CASE i < n
      BY <1>2, <1>6, <1>7, <2>1 DEF Parted, Blank
    <2>2. CASE ~(i < n)
      BY <1>2, <2>2 DEF Blank
    <2> QED
      BY <2>1, <2>2
  <1>9. k.start <= v.start
    <2>1. CASE w.type = "Array"
      BY <1>2, <1>5, <2>1
    <2>2. CASE w.type = "Object"
      <3>1. Parted(doc, k.end, v.start, Colon)
        BY <1>2, <2>2
      <3>2. k.end \in Nat /\ k.start < k.end
        BY <2>2, AKey
      <3> HIDE DEF k, v
      <3> QED
        BY <1>5, <1>7, <3>1, <3>2 DEF Parted, Blank
    <2> QED
      BY <2>1, <2>2
  <1> HIDE DEF w, k, v, n, q
  <1>10. /\ Item(way, i) \in DOMAIN doc.at
         /\ k.start = Ahead(w, i - 1) /\ k.start \in Nat
         /\ k.start <= v.start /\ v.start < v.end /\ v.end <= q
         /\ v.start \in Nat /\ v.end \in Nat /\ q \in Nat
         /\ IF i < n THEN Parted(doc, v.end, q, Comma) ELSE Blank(doc, v.end, q)
         /\ w.type = "Array" => k.by = Element(i - 1) /\ k.start = v.start
         /\ w.type = "Object" => /\ k.by = Member(SubSeq(doc.text, k.start + 2, k.end - 1))
                                 /\ Parted(doc, k.end, v.start, Colon)
    BY <1>2, <1>5, <1>6, <1>7, <1>8, <1>9
  <1> QED
    BY <1>10, Zenon DEF w, k, v, n, q

(* Each item takes a place at least, between the brackets.                    *)
LEMMA ItemsApart ==
    ASSUME FromDocument, NEW way \in DOMAIN doc.at, doc.at[way].type \in {"Object", "Array"}
    PROVE  LET w == doc.at[way]
               n == Len(w.items)
           IN /\ n \in Nat /\ n < Len(doc.text)
              /\ Blank(doc, w.start + 1, Ahead(w, 0)) /\ Ahead(w, n) = w.end - 1
              /\ \A i \in 0..n : Ahead(w, i) \in Nat /\ w.start < Ahead(w, i) /\ Ahead(w, i) + (n - i) <= w.end - 1
  <1> DEFINE w == doc.at[way]
             n == Len(w.items)
             g(i) == Ahead(w, i)
             Done == {j \in Nat : \A i \in 0..n : n - i <= j => g(i) \in Nat /\ g(i) + (n - i) <= w.end - 1}
             Past == {j \in Nat : \A i \in 0..n : i <= j => g(i) \in Nat /\ w.start < g(i)}
  <1>1. HoldsItems(doc, way) /\ n \in Nat
    BY Items
  <1>2. /\ w.start \in Nat /\ w.end \in Nat /\ w.start < w.end /\ w.end <= Len(doc.text)
        /\ Len(doc.text) \in Nat
    BY AValue, Lengths
  <1>3. Blank(doc, w.start + 1, g(0))
    BY <1>1, Zenon DEF HoldsItems
  <1>4. g(n) = w.end - 1 /\ w.end - 1 \in Nat
    <2>1. ~(n < n)
      BY <1>1
    <2> QED
      BY <1>2, <2>1 DEF Ahead
  <1>5. \A i \in 1..n : g(i - 1) \in Nat /\ g(i) \in Nat /\ g(i - 1) < g(i)
    <2> SUFFICES ASSUME NEW i \in 1..n
                 PROVE  g(i - 1) \in Nat /\ g(i) \in Nat /\ g(i - 1) < g(i)
      OBVIOUS
    <2> DEFINE k == w.items[i].start
               v == doc.at[Item(way, i)]
    <2>1. k = g(i - 1) /\ k \in Nat /\ k <= v.start /\ v.start < v.end /\ v.end <= g(i)
          /\ v.start \in Nat /\ v.end \in Nat /\ g(i) \in Nat
      BY AnItem
    <2> HIDE DEF k, v, g
    <2> QED
      BY <2>1
  <1> HIDE DEF w, n, g
  <1>6. n \in Done
    <2>1. 0 \in Done
      <3>1. \A i \in 0..n : n - i <= 0 => i = n
        BY <1>1
      <3> QED
        BY <1>1, <1>4, <3>1
    <2>2. ASSUME NEW j \in Nat, j \in Done
          PROVE  j + 1 \in Done
      <3> SUFFICES ASSUME NEW i \in 0..n, n - i <= j + 1
                   PROVE  g(i) \in Nat /\ g(i) + (n - i) <= w.end - 1
        OBVIOUS
      <3>1. CASE i = n
        BY <1>1, <1>4, <3>1
      <3>2. CASE i # n
        <4>1. i + 1 \in 1..n /\ i + 1 \in 0..n /\ n - (i + 1) <= j /\ i + 1 - 1 = i
          BY <1>1, <3>2
        <4>2. g(i) \in Nat /\ g(i + 1) \in Nat /\ g(i) < g(i + 1)
          BY <1>5, <4>1
        <4>3. g(i + 1) + (n - (i + 1)) <= w.end - 1
          BY <2>2, <4>1
        <4> QED
          BY <1>1, <1>2, <4>2, <4>3
      <3> QED
        BY <3>1, <3>2
    <2> HIDE DEF Done
    <2> QED
      BY <1>1, <2>1, <2>2, AllNumbers
  <1>7. n \in Past
    <2>1. 0 \in Past
      <3>1. w.start < g(0)
        <4>1. g(0) \in Nat
          <5>1. 0 \in 0..n /\ n - 0 <= n
            BY <1>1
          <5> QED
            BY <1>6, <5>1
        <4> QED
          BY <1>2, <1>3, <4>1 DEF Blank
      <3>2. g(0) \in Nat
        <4>1. 0 \in 0..n /\ n - 0 <= n
          BY <1>1
        <4> QED
          BY <1>6, <4>1
      <3>3. \A i \in 0..n : i <= 0 => i = 0
        BY <1>1
      <3> QED
        BY <3>1, <3>2, <3>3
    <2>2. ASSUME NEW j \in Nat, j \in Past
          PROVE  j + 1 \in Past
      <3> SUFFICES ASSUME NEW i \in 0..n, i <= j + 1
                   PROVE  g(i) \in Nat /\ w.start < g(i)
        OBVIOUS
      <3>1. CASE i <= j
        BY <2>2, <3>1
      <3>2. CASE i = j + 1
        <4>1. i \in 1..n /\ i - 1 \in 0..n /\ i - 1 <= j
          BY <1>1, <3>2
        <4>2. g(i - 1) \in Nat /\ g(i) \in Nat /\ g(i - 1) < g(i)
          BY <1>5, <4>1
        <4>3. w.start < g(i - 1)
          BY <2>2, <4>1
        <4> QED
          BY <1>2, <4>2, <4>3
      <3> QED
        BY <1>1, <3>1, <3>2
    <2> HIDE DEF Past
    <2> QED
      BY <1>1, <2>1, <2>2, AllNumbers
  <1>8. \A i \in 0..n : g(i) \in Nat /\ w.start < g(i) /\ g(i) + (n - i) <= w.end - 1
    BY <1>1, <1>6, <1>7
  <1>9. n < Len(doc.text)
    <2>1. 0 \in 0..n /\ n - 0 = n
      BY <1>1
    <2>2. g(0) \in Nat /\ g(0) + n <= w.end - 1
      BY <1>8, <2>1
    <2> QED
      BY <1>1, <1>2, <2>2
  <1> QED
    BY <1>1, <1>3, <1>4, <1>8, <1>9, Zenon DEF w, n, g

-----------------------------------------------------------------------------
(* An object or an array that is scanned.                                     *)

(* The text breaks off where the cursor leads.                                *)
CutAt(p) ==
    /\ ~Whole
    /\ SkipWhitespace(p, End) < End => At(SkipWhitespace(p, End)) = "x"

(* The caller has what the path leads to or, where that was never written or  *)
(* not received, nothing.                                                     *)
Sees(v, way) ==
    \/ v.type = "Null" /\ (Whole => way \notin DOMAIN doc.at /\ ~v.src)
    \/ way \in DOMAIN doc.at /\ Views(v, doc.at[way])

(* The view is of the container of this type that the path leads to. *)
Scanned(way, type) ==
    way \in DOMAIN doc.at /\ doc.at[way].type = type /\ Views(val, doc.at[way])

(* A view of an object or an array ends at its closing brace or where the     *)
(* text breaks off.                                                           *)
LEMMA EndOfView ==
    ASSUME FromDocument, NEW way, NEW type \in {"Object", "Array"}, Scanned(way, type)
    PROVE  /\ End \in Nat /\ End <= Len(text) /\ End <= doc.at[way].end - 1
           /\ End = doc.at[way].end - 1 \/ (~Whole /\ End = Len(text))
  <1> DEFINE b == doc.at[way].end
             N == Len(text)
  <1>1. b \in Nat /\ b >= 1 /\ b <= Len(doc.text) /\ N \in Nat /\ Len(doc.text) \in Nat
        /\ (Whole => N = Len(doc.text))
    <2>1. doc.at[way].start \in Nat /\ doc.at[way].start < b /\ b \in Nat /\ b <= Len(doc.text)
      BY AValue DEF Scanned
    <2> HIDE DEF b
    <2>2. b >= 1
      BY <2>1
    <2> QED
      BY <2>1, <2>2, Lengths
  <1>2. (b <= N => val.end = b) /\ (b > N => val.end = N + 1)
    BY DEF Scanned, Views
  <1> HIDE DEF b, N
  <1>3. CASE b <= N
    BY <1>1, <1>2, <1>3 DEF End, b, N
  <1>4. CASE b > N
    BY <1>1, <1>2, <1>4 DEF End, b, N
  <1> QED
    BY <1>1, <1>3, <1>4

(* Where the text breaks off there is no value, and the cursor stays.         *)
LEMMA CutStays ==
    ASSUME NEW p \in Nat, End \in Nat, CutAt(p)
    PROVE  LET v == ParseValue(p, End)
               next == SkipSeparator(CursorAfter(v, p, End), End, Comma)
           IN /\ v.type = "Null" /\ CutAt(next)
              /\ SkipWhitespace(p, End) < End => SkipWhitespace(next, End) < End
  <1> DEFINE start == SkipWhitespace(p, End)
             v == ParseValue(p, End)
             next == SkipSeparator(start, End, Comma)
  <1>1. start \in Nat
    BY AfterRunStays DEF SkipWhitespace
  <1>2. ~Whole /\ (start < End => At(start) = "x")
    BY DEF CutAt
  <1>3. v.type = "Null" /\ CursorAfter(v, p, End) = start
    <2>1. CASE start >= End
      <3>1. v = NoValue
        BY <2>1, ParsedAs
      <3> HIDE DEF v, start
      <3>2. v.type = "Null" /\ v.src = FALSE
        BY <3>1 DEF NoValue
      <3> QED
        BY <3>2 DEF CursorAfter, start
    <2>2. CASE start < End
      <3>1. At(start) = "x" /\ At(start) \notin {Quote, OpenBrace, OpenBracket, "n", "0"} /\ ~(start >= End)
        BY <1>1, <1>2, <2>2, Characters
      <3>2. v = Value("Null", start, start)
        BY <3>1, ParsedAs
      <3> HIDE DEF v, start
      <3>3. v.type = "Null" /\ v.src = TRUE /\ v.end = start
        BY <3>2 DEF Value
      <3> QED
        BY <3>3 DEF CursorAfter
    <2> QED
      BY <1>1, <2>1, <2>2
  <1>4. next = start /\ SkipWhitespace(next, End) = start
    <2> HIDE DEF start
    <2>1. SkipWhitespace(start, End) = start
      <3>1. CASE start >= End
        BY <1>1, <3>1, AfterRunStays DEF SkipWhitespace
      <3>2. CASE start < End
        <4>1. At(start) # Space
          BY <1>2, <3>2, Characters
        <4>2. \A r \in start..(start - 1) : At(r) = Space
          BY <1>1
        <4> QED
          BY <1>1, <3>2, <4>1, <4>2, AfterRunEnds DEF SkipWhitespace
      <3> QED
        BY <1>1, <3>1, <3>2
    <2>2. ~(start < End /\ At(start) = Comma)
      BY <1>2, Characters
    <2>3. next = start
      BY <2>1, <2>2 DEF SkipSeparator
    <2> HIDE DEF next
    <2> QED
      BY <2>1, <2>3
  <1>5. CutAt(next)
    BY <1>2, <1>4 DEF CutAt
  <1> QED
    BY <1>3, <1>4, <1>5

(* Past the end of what was received there is nothing.                        *)
LEMMA CutPastEnd ==
    ASSUME NEW p \in Nat, End \in Nat, p >= End, ~Whole
    PROVE  CutAt(p)
  <1>1. SkipWhitespace(p, End) = p
    BY AfterRunStays DEF SkipWhitespace
  <1>2. ~(SkipWhitespace(p, End) < End)
    BY <1>1
  <1> QED
    BY <1>2 DEF CutAt

(* A value at the cursor is read as far as it was received.                   *)
LEMMA ItemRead ==
    ASSUME FromDocument, Plain, NEW way, NEW type \in {"Object", "Array"}, Scanned(way, type),
           NEW i \in 1..Len(doc.at[way].items),
           NEW p \in Nat, AtValue(Item(way, i), p)
    PROVE  LET w == doc.at[Item(way, i)]
               v == ParseValue(p, End)
           IN /\ ~(w.start < End) => ~Whole /\ v = NoValue /\ SkipWhitespace(p, End) >= End
              /\ w.start < End => /\ Views(v, w) \/ BreaksOff(v, w)
                                  /\ SkipWhitespace(p, End) = w.start
              /\ Sees(v, Item(way, i))
  <1> DEFINE w == doc.at[Item(way, i)]
             v == ParseValue(p, End)
             e == doc.at[way].end
  <1>0. way \in DOMAIN doc.at /\ doc.at[way].type \in {"Object", "Array"}
    BY DEF Scanned
  <1>1. /\ End \in Nat /\ End <= Len(text) /\ End <= e - 1
        /\ End = e - 1 \/ (~Whole /\ End = Len(text))
    BY EndOfView
  <1>2. /\ Item(way, i) \in DOMAIN doc.at
        /\ w.start \in Nat /\ w.end \in Nat /\ w.start < w.end /\ w.end <= Ahead(doc.at[way], i)
        /\ Ahead(doc.at[way], i) \in Nat
    BY <1>0, AnItem
  <1>3. Ahead(doc.at[way], i) <= e - 1
    <2> DEFINE n == Len(doc.at[way].items)
               a == Ahead(doc.at[way], i)
    <2>1. n \in Nat /\ \A j \in 0..n : a \in Nat /\ Ahead(doc.at[way], j) + (n - j) <= e - 1
      BY <1>0, <1>2, ItemsApart
    <2>2. i \in 0..n /\ n - i >= 0 /\ n - i \in Int
      BY <2>1
    <2>3. a + (n - i) <= e - 1
      BY <2>1, <2>2
    <2>4. e \in Nat
      BY <1>0, AValue
    <2> HIDE DEF n, a, e
    <2>5. a <= e - 1
      BY <2>1, <2>2, <2>3, <2>4, <1>2 DEF a
    <2> QED
      BY <2>5 DEF a
  <1>4. e \in Nat
    BY <1>0, AValue
  <1>5. w.end <= End \/ (~Whole /\ End = Len(text))
    <2> HIDE DEF w, e
    <2> QED
      BY <1>1, <1>2, <1>3, <1>4
  <1>6. /\ ~(w.start < End) => /\ v = NoValue /\ End = Len(text)
                               /\ SkipWhitespace(p, End) >= End
        /\ w.start < End => /\ Views(v, w) \/ BreaksOff(v, w)
                            /\ SkipWhitespace(p, End) = w.start
    <2>1. Blank(doc, p, w.start)
      BY DEF AtValue
    <2>2. w.end <= End \/ End = Len(text)
      BY <1>5
    <2> QED
      BY <1>1, <1>2, <2>1, <2>2, ValueRead
  <1> HIDE DEF w, v, e
  <1>7. ~(w.start < End) => ~Whole
    BY <1>1, <1>2, <1>5
  <1>8. Sees(v, Item(way, i))
    <2>1. CASE ~(w.start < End)
      <3>1. v.type = "Null"
        BY <1>6, <2>1 DEF NoValue
      <3> QED
        BY <1>7, <2>1, <3>1 DEF Sees
    <2>2. CASE w.start < End /\ Views(v, w)
      BY <1>2, <2>2 DEF Sees, w
    <2>3. CASE w.start < End /\ BreaksOff(v, w)
      BY <2>3 DEF Sees, BreaksOff
    <2> QED
      BY <1>6, <2>1, <2>2, <2>3
  <1> QED
    BY <1>6, <1>7, <1>8 DEF w, v

(* And passed over, to where the next item is or the container closes.        *)
LEMMA ItemPassed ==
    ASSUME FromDocument, Plain, NEW way, NEW type \in {"Object", "Array"}, Scanned(way, type),
           NEW i \in 1..Len(doc.at[way].items),
           NEW p \in Nat, AtValue(Item(way, i), p)
    PROVE  LET next == SkipSeparator(CursorAfter(ParseValue(p, End), p, End), End, Comma)
           IN next \in Nat /\ (CutAt(next) \/ AtItem(way, next, i))
  <1> DEFINE w == doc.at[Item(way, i)]
             v == ParseValue(p, End)
             e == doc.at[way].end
             n == Len(doc.at[way].items)
             q == Ahead(doc.at[way], i)
             from == CursorAfter(v, p, End)
             next == SkipSeparator(from, End, Comma)
  <1>0. way \in DOMAIN doc.at /\ doc.at[way].type \in {"Object", "Array"}
    BY DEF Scanned
  <1>1. /\ End \in Nat /\ End <= Len(text) /\ End <= e - 1
        /\ End = e - 1 \/ (~Whole /\ End = Len(text))
    BY EndOfView
  <1>2. /\ Item(way, i) \in DOMAIN doc.at
        /\ w.start \in Nat /\ w.end \in Nat /\ w.start < w.end /\ w.end <= q /\ q \in Nat
        /\ IF i < n THEN Parted(doc, w.end, q, Comma) ELSE Blank(doc, w.end, q)
    BY <1>0, AnItem
  <1>3. e \in Nat /\ Len(text) \in Nat /\ Len(doc.text) \in Nat /\ (Whole => Len(text) = Len(doc.text))
        /\ w.end <= Len(doc.text)
    BY <1>0, <1>2, AValue, Lengths
  <1>4. n \in Nat /\ i \in 0..n /\ q <= e - 1
    <2>1. n \in Nat /\ \A j \in 0..n : Ahead(doc.at[way], j) + (n - j) <= e - 1
      BY <1>0, ItemsApart
    <2>2. i \in 0..n /\ n - i >= 0 /\ n - i \in Int
      BY <2>1
    <2>3. q + (n - i) <= e - 1
      BY <2>1, <2>2
    <2> HIDE DEF n, e, q
    <2> QED
      BY <1>2, <1>3, <2>1, <2>2, <2>3
  <1>5. /\ ~(w.start < End) => ~Whole /\ v = NoValue /\ SkipWhitespace(p, End) >= End
        /\ w.start < End => /\ Views(v, w) \/ BreaksOff(v, w)
                            /\ SkipWhitespace(p, End) = w.start
    BY ItemRead
  <1>6. from \in Nat
    <2>1. v.end \in Nat /\ SkipWhitespace(p, End) \in Nat
      BY <1>1, ParseValueStays, AfterRunStays DEF SkipWhitespace
    <2> HIDE DEF v
    <2> QED
      BY <2>1 DEF CursorAfter
  <1> HIDE DEF w, v, e, n, q
  <1>7. next \in Nat /\ (from >= End => next >= End)
    <2> HIDE DEF from
    <2>1. next \in from..(from + End)
      <3>1. from <= from + End /\ End <= from + End /\ from + End \in Nat
        BY <1>1, <1>6
      <3> QED
        BY <1>1, <1>6, <3>1, SkipSeparatorStays
    <2> HIDE DEF next
    <2> QED
      BY <1>1, <1>6, <2>1
  <1>8. ASSUME from >= End, ~Whole
        PROVE  CutAt(next)
    <2> HIDE DEF next
    <2> QED
      BY <1>1, <1>7, <1>8, CutPastEnd
  <1>9. CASE ~(w.start < End)
    <2>1. v.src = FALSE
      BY <1>5, <1>9 DEF NoValue
    <2>2. from >= End
      BY <1>5, <1>9, <2>1 DEF CursorAfter
    <2> QED
      BY <1>5, <1>7, <1>8, <1>9, <2>2 DEF v
  <1>10. CASE w.start < End /\ BreaksOff(v, w)
    <2>1. SkipWhitespace(p, End) = w.start /\ ~Whole /\ At(w.start) = "x"
      BY <1>5, <1>10 DEF BreaksOff
    <2>2. CutAt(p)
      BY <2>1 DEF CutAt
    <2>3. CutAt(next)
      BY <1>1, <2>2, CutStays DEF v
    <2> QED
      BY <1>7, <2>3 DEF v
  <1>11. CASE w.start < End /\ Views(v, w)
    <2>1. v.src
      BY <1>11 DEF Views
    <2>2. from = v.end
      BY <2>1 DEF CursorAfter
    <2>3. CASE w.end > Len(text)
      <3>1. ~Whole
        BY <1>2, <1>3, <2>3
      <3>2. v.end \in {Len(text), Len(text) + 1}
        BY <1>11, <2>3 DEF Views
      <3>3. from >= End
        BY <1>1, <1>3, <2>2, <3>2
      <3> QED
        BY <1>7, <1>8, <3>1, <3>3 DEF v
    <2>4. CASE w.end <= Len(text)
      <3>1. from = w.end
        BY <1>11, <2>2, <2>4 DEF Views
      <3> HIDE DEF from
      <3>2. Blank(doc, next, q) \/ (next >= End /\ End < q)
        <4>1. CASE i < n
          <5>1. Parted(doc, from, q, Comma)
            BY <1>2, <3>1, <4>1
          <5> QED
            BY <1>1, <1>2, <1>6, <5>1, SeparatorPassed
        <4>2. CASE ~(i < n)
          <5>1. Blank(doc, from, q)
            BY <1>2, <3>1, <4>2
          <5>2. q = e - 1
            <6>1. i = n
              BY <1>4, <4>2
            <6>2. Ahead(doc.at[way], n) = e - 1
              BY <1>0, ItemsApart DEF n, e
            <6> QED
              BY <6>1, <6>2 DEF q
          <5>3. ~(q < End)
            BY <1>1, <1>2, <5>2
          <5> QED
            BY <1>1, <1>2, <1>6, <5>1, <5>3, SeparatorAbsent
        <4> QED
          BY <4>1, <4>2
      <3>3. CASE Blank(doc, next, q)
        <4>1. AtItem(way, next, i)
          BY <1>4, <3>3 DEF AtItem, q, n
        <4> QED
          BY <1>7, <4>1 DEF v, from
      <3>4. CASE next >= End /\ End < q
        <4>1. ~Whole
          BY <1>1, <1>2, <1>3, <1>4, <3>4
        <4>2. CutAt(next)
          <5> HIDE DEF next
          <5> QED
            BY <1>1, <1>7, <3>4, <4>1, CutPastEnd
        <4> QED
          BY <1>7, <4>2 DEF v, from
      <3> QED
        BY <3>2, <3>3, <3>4
    <2> QED
      BY <1>2, <1>3, <2>3, <2>4
  <1> QED
    BY <1>5, <1>9, <1>10, <1>11

-----------------------------------------------------------------------------
(* Paths.                                                                     *)

(* Paths that end alike and are one path begin alike. *)
LEMMA SameAppend ==
    ASSUME NEW K, NEW s \in Seq(K), NEW t \in Seq(K), NEW a \in K, NEW b \in K,
           Append(s, a) = Append(t, b)
    PROVE  s = t /\ a = b
  <1>1. /\ Len(Append(s, a)) = Len(s) + 1 /\ \A i \in 1..Len(s) : Append(s, a)[i] = s[i]
        /\ Append(s, a)[Len(s) + 1] = a
    BY AppendProperties
  <1>2. /\ Len(Append(t, b)) = Len(t) + 1 /\ \A i \in 1..Len(t) : Append(t, b)[i] = t[i]
        /\ Append(t, b)[Len(t) + 1] = b
    BY AppendProperties
  <1>3. Len(s) \in Nat /\ Len(t) \in Nat
    OBVIOUS
  <1>4. Len(s) = Len(t)
    BY <1>1, <1>2, <1>3
  <1>5. \A i \in 1..Len(s) : s[i] = t[i]
    BY <1>1, <1>2, <1>4
  <1>6. s = t
    BY <1>4, <1>5, SeqEqual
  <1> QED
    BY <1>1, <1>2, <1>4, <1>6

(* A path that leads somewhere comes by an item of what it leads through.     *)
LEMMA ByItem ==
    ASSUME FromDocument, NEW way \in Seq(Selections), NEW by \in Selections,
           Append(way, by) \in DOMAIN doc.at
    PROVE  /\ way \in DOMAIN doc.at /\ doc.at[way].type \in {"Object", "Array"}
           /\ \E i \in 1..Len(doc.at[way].items) : doc.at[way].items[i].by = by
  <1> DEFINE all == Append(way, by)
  <1>1. all # <<>>
    <2>1. Len(all) = Len(way) + 1 /\ Len(way) \in Nat
      BY AppendProperties
    <2> HIDE DEF all
    <2> QED
      BY <2>1
  <1>2. PICK from \in DOMAIN doc.at : \E i \in 1..Len(doc.at[from].items) :
                                all = Append(from, doc.at[from].items[i].by)
    BY <1>1, Items
  <1>3. PICK i \in 1..Len(doc.at[from].items) : all = Append(from, doc.at[from].items[i].by)
    BY <1>2
  <1> DEFINE items == doc.at[from].items
  <1>4. from \in Seq(Selections)
    BY ADocument DEF IsDocument
  <1>5. items[i].by \in Selections
    <2> DEFINE K == [by : Selections, start : Nat, end : Nat]
    <2>1. items \in Seq(K)
      BY Items
    <2>2. \A x \in K : x.by \in Selections
      OBVIOUS
    <2> HIDE DEF K, items
    <2>3. items[i] \in K
      BY <1>3, <2>1 DEF items
    <2> QED
      BY <2>2, <2>3
  <1>6. from = way /\ items[i].by = by
    <2> HIDE DEF items
    <2>1. Append(way, by) = Append(from, items[i].by)
      BY <1>3 DEF items
    <2> QED
      BY <1>4, <1>5, <2>1, SameAppend
  <1>7. doc.at[from].type \in {"Object", "Array"}
    <2>1. items # <<>>
      BY <1>3
    <2> QED
      BY <2>1, Items
  <1> QED
    BY <1>3, <1>6, <1>7

(* Selections are told apart by what they select. *)
LEMMA MembersAndElements ==
    /\ \A k \in Seq(STRING) : Member(k) \in Selections
    /\ \A i \in Nat : Element(i) \in Selections
    /\ \A k, l : Member(k) = Member(l) => k = l
    /\ \A i, j : Element(i) = Element(j) => i = j
    /\ \A k, i : Member(k) # Element(i)
  <1>1. \A k, l : Member(k) = Member(l) => k = l
    BY DEF Member
  <1>2. \A i, j : Element(i) = Element(j) => i = j
    BY DEF Element
  <1>3. \A k, i : Member(k) # Element(i)
    <2>1. \A k, i : DOMAIN Member(k) = {"member"} /\ DOMAIN Element(i) = {"element"}
      BY DEF Member, Element
    <2>2. {"member"} # {"element"}
      OBVIOUS
    <2> QED
      BY <2>1, <2>2
  <1> QED
    BY <1>1, <1>2, <1>3 DEF Member, Element, Selections

-----------------------------------------------------------------------------
(* Keys.                                                                      *)

(* No literal is written within a string. *)
LEMMA NoLiteralInString ==
    ASSUME NEW a \in Nat, NEW b \in Nat, \E marks \in Marks(a, b) : Quoted(doc, a, b, marks)
    PROVE  \A r \in Nat : a < r /\ r < b - 1 => Char(doc, r) # "n"
  <1> PICK marks \in Marks(a, b) : Quoted(doc, a, b, marks)
    OBVIOUS
  <1> SUFFICES ASSUME NEW r \in Nat, a < r, r < b - 1
               PROVE  Char(doc, r) # "n"
    OBVIOUS
  <1>1. \/ Char(doc, r) \notin {Quote, Backslash, "n"}
        \/ Char(doc, r) = Backslash /\ r + 2 < b /\ Char(doc, r + 1) # "n"
        \/ Char(doc, r - 1) = Backslash /\ r - 1 > a /\ Char(doc, r) # "n"
    BY InACharacter
  <1> QED
    BY <1>1, Characters

(* What operator[] (json.cpp:246-265) reads where a key may be: the end of    *)
(* the object, the next key with its value ahead, or the cut.                 *)
LEMMA KeyRead ==
    ASSUME FromDocument, NEW way, Scanned(way, "Object"),
           NEW i \in 0..Len(doc.at[way].items), NEW p \in Nat, AtItem(way, p, i)
    PROVE  LET n == Len(doc.at[way].items)
               start == SkipWhitespace(p, End)
               keyEnd == ClosingQuote(start + 1, End)
               next == SkipSeparator(AfterQuote(keyEnd, End), End, Colon)
           IN \/ start >= End /\ (i = n \/ ~Whole)
              \/ /\ i < n /\ start < End /\ At(start) = Quote
                 /\ next \in Nat
                 /\ \/ CutAt(next)
                    \/ /\ AtValue(Item(way, i + 1), next)
                       /\ \A key : Matches(start + 1, keyEnd, key) <=> doc.at[way].items[i + 1].by = Member(key)
  <1> DEFINE w == doc.at[way]
             n == Len(w.items)
             e == w.end
             q == Ahead(w, i)
             start == SkipWhitespace(p, End)
             keyEnd == ClosingQuote(start + 1, End)
             from == AfterQuote(keyEnd, End)
             next == SkipSeparator(from, End, Colon)
  <1>0. way \in DOMAIN doc.at /\ w.type = "Object" /\ w.type \in {"Object", "Array"}
    BY DEF Scanned
  <1>1. /\ End \in Nat /\ End <= Len(text) /\ End <= e - 1
        /\ End = e - 1 \/ (~Whole /\ End = Len(text))
    BY EndOfView
  <1>2. /\ n \in Nat /\ Ahead(w, n) = e - 1 /\ q \in Nat /\ q + (n - i) <= e - 1 /\ i \in Nat /\ i <= n
    BY <1>0, ItemsApart
  <1>3. e \in Nat /\ Len(text) \in Nat /\ Len(doc.text) \in Nat
    BY <1>0, AValue, Lengths
  <1>4. Blank(doc, p, q) /\ p <= q
    BY DEF AtItem, Blank
  <1> HIDE DEF n
  <1>5. CASE i = n
    <2>1. ~(q < End)
      <3>1. q = e - 1
        BY <1>2, <1>5
      <3> HIDE DEF q, e
      <3> QED
        BY <1>1, <1>2, <1>3, <3>1
    <2>2. start = IF p >= End THEN p ELSE End
      <3> HIDE DEF q
      <3>1. start = IF p >= End THEN p ELSE IF q < End THEN q ELSE End
        BY <1>1, <1>2, <1>4, <2>1, BlanksEnd
      <3> HIDE DEF start
      <3> QED
        BY <2>1, <3>1
    <2> HIDE DEF start
    <2>3. start >= End
      BY <1>1, <2>2
    <2> QED
      BY <1>5, <2>3 DEF start, n
  <1>6. CASE i < n
    <2> DEFINE k == w.items[i + 1]
               v == doc.at[Item(way, i + 1)]
    <2>1. i + 1 \in 1..n /\ i + 1 - 1 = i
      BY <1>2, <1>6
    <2>2. /\ Item(way, i + 1) \in DOMAIN doc.at
          /\ k.start = q /\ k.start \in Nat /\ v.start < v.end /\ v.end <= Ahead(w, i + 1)
          /\ v.start \in Nat /\ v.end \in Nat /\ Ahead(w, i + 1) \in Nat
          /\ k.by = Member(SubSeq(doc.text, k.start + 2, k.end - 1))
          /\ Parted(doc, k.end, v.start, Colon)
      <3>1. i + 1 \in 1..Len(doc.at[way].items)
        BY <2>1 DEF n
      <3> DEFINE Written(j) ==
                     LET x == doc.at[way].items[j]
                         y == doc.at[Item(way, j)]
                     IN /\ Item(way, j) \in DOMAIN doc.at
                        /\ x.start = Ahead(doc.at[way], j - 1) /\ x.start \in Nat
                        /\ y.start < y.end /\ y.end <= Ahead(doc.at[way], j)
                        /\ y.start \in Nat /\ y.end \in Nat /\ Ahead(doc.at[way], j) \in Nat
                        /\ x.by = Member(SubSeq(doc.text, x.start + 2, x.end - 1))
                        /\ Parted(doc, x.end, y.start, Colon)
      <3>4. \A j \in 1..Len(doc.at[way].items) : Written(j)
        BY <1>0, AnItem
      <3> HIDE DEF Written
      <3>5. Written(i + 1)
        BY <3>1, <3>4
      <3>2. /\ Item(way, i + 1) \in DOMAIN doc.at
            /\ k.start = Ahead(w, i + 1 - 1) /\ k.start \in Nat /\ v.start < v.end /\ v.end <= Ahead(w, i + 1)
            /\ v.start \in Nat /\ v.end \in Nat /\ Ahead(w, i + 1) \in Nat
            /\ k.by = Member(SubSeq(doc.text, k.start + 2, k.end - 1))
            /\ Parted(doc, k.end, v.start, Colon)
        BY <3>5 DEF Written
      <3> HIDE DEF k, v, w
      <3>3. k.start = q
        BY <2>1, <3>2
      <3> HIDE DEF q
      <3> QED
        BY <1>0, <3>2, <3>3
    <2>3. /\ k.end \in Nat /\ k.start < k.end /\ k.end <= Len(doc.text)
          /\ \E marks \in Marks(k.start, k.end) : Quoted(doc, k.start, k.end, marks)
      BY <1>0, <2>1, AKey DEF n
    <2>4. Ahead(w, i + 1) <= e - 1
      <3> DEFINE r == Ahead(w, i + 1)
      <3>1. i + 1 \in 0..n /\ n - (i + 1) >= 0 /\ n - (i + 1) \in Int
        BY <1>2, <2>1
      <3>2. r + (n - (i + 1)) <= e - 1
        BY <1>0, <3>1, ItemsApart DEF n
      <3>3. r \in Nat
        BY <2>2
      <3> HIDE DEF r, e
      <3> QED
        BY <1>3, <3>1, <3>2, <3>3 DEF r
    <2> DEFINE a == k.start
               b == k.end
               c == v.start
    <2>5. PICK marks \in Marks(a, b) : Quoted(doc, a, b, marks)
      BY <2>3
    <2>6. b < c
      <3>1. Parted(doc, b, c, Colon) /\ b \in Nat /\ c \in Nat
        BY <2>2, <2>3
      <3> HIDE DEF b, c
      <3> QED
        BY <3>1 DEF Parted, Blank
    <2>7. c < e - 1
      <3> DEFINE r == Ahead(w, i + 1)
                 d == v.end
      <3>1. c < d /\ d <= r /\ r <= e - 1 /\ c \in Nat /\ d \in Nat /\ r \in Nat
        BY <2>2, <2>4
      <3> HIDE DEF r, d, c, e
      <3> QED
        BY <1>3, <3>1
    <2>8. /\ a = q /\ a \in Nat /\ b \in Nat /\ a < b /\ b <= Len(doc.text) /\ c \in Nat
          /\ Parted(doc, b, c, Colon)
      BY <2>2, <2>3
    <2>9. Char(doc, a) = Quote
      BY <2>5 DEF Quoted
    <2>10. k.by = Member(SubSeq(doc.text, a + 2, b - 1))
      BY <2>2
    <2>14. \A r \in Nat : a < r /\ r < b - 1 => Char(doc, r) # "n"
      BY <2>3, <2>8, NoLiteralInString
    <2> HIDE DEF k, v, a, b, c, e, q
    <2>11. start = IF p >= End THEN p ELSE IF a < End THEN a ELSE End
      <3>1. Blank(doc, p, a) /\ (a < End => Char(doc, a) # Space)
        BY <1>4, <2>8, <2>9, Characters
      <3> QED
        BY <1>1, <2>8, <3>1, BlanksEnd
    <2> HIDE DEF start
    <2>12. CASE ~(a < End)
      <3>1. start >= End
        BY <1>1, <2>8, <2>11, <2>12
      <3>2. ~Whole
        BY <1>1, <1>3, <2>6, <2>7, <2>8, <2>12
      <3> QED
        BY <3>1, <3>2 DEF start
    <2>13. CASE a < End
      <3>1. start = a
        BY <1>1, <1>4, <2>8, <2>11, <2>13
      <3>2. At(start) = Quote
        <4>1. a < Len(text)
          BY <1>1, <1>3, <2>8, <2>13
        <4> QED
          BY <2>8, <2>9, <3>1, <4>1, SameCharacter, Characters
      <3>3. IF b - 1 < End THEN keyEnd = b - 1 ELSE keyEnd \in {End, End + 1}
        BY <1>1, <2>5, <2>8, <2>13, <3>1, QuoteFound
      <3> HIDE DEF keyEnd
      <3>4. CASE ~(b - 1 < End)
        <4>1. keyEnd \in {End, End + 1} /\ keyEnd \in Nat /\ keyEnd >= End
          BY <1>1, <3>3, <3>4
        <4>2. from = keyEnd
          BY <1>1, <4>1 DEF AfterQuote
        <4>3. SkipWhitespace(from, End) = from
          <5> HIDE DEF from
          <5> QED
            BY <1>1, <4>1, <4>2, AfterRunStays DEF SkipWhitespace
        <4>4. next = from
          <5>1. ~(from < End)
            BY <1>1, <4>1, <4>2
          <5> HIDE DEF from
          <5> QED
            BY <4>3, <5>1 DEF SkipSeparator
        <4>5. ~Whole
          BY <1>1, <1>3, <2>6, <2>7, <2>8, <3>4
        <4> HIDE DEF next, from
        <4>6. next \in Nat /\ CutAt(next)
          <5>1. next \in Nat /\ next >= End
            BY <4>1, <4>2, <4>4
          <5> QED
            BY <1>1, <4>5, <5>1, CutPastEnd
        <4> QED
          BY <1>6, <2>13, <3>1, <3>2, <4>6 DEF n, start, next, from, keyEnd
      <3>5. CASE b - 1 < End
        <4>1. keyEnd = b - 1 /\ keyEnd < End /\ keyEnd + 1 = b
          BY <2>8, <3>3, <3>5
        <4>2. from = b
          BY <4>1 DEF AfterQuote
        <4> HIDE DEF from
        <4>3. next \in Nat /\ (Blank(doc, next, c) \/ (next >= End /\ End < c))
          <5>1. Parted(doc, from, c, Colon) /\ from \in Nat /\ c \in Nat
            BY <2>8, <4>2
          <5> QED
            BY <1>1, <5>1, SeparatorPassed
        <4> HIDE DEF next
        <4>4. ASSUME next >= End, End < c
              PROVE  CutAt(next)
          <5>1. ~Whole
            BY <1>1, <1>3, <2>7, <2>8, <4>4
          <5> QED
            BY <1>1, <4>3, <4>4, <5>1, CutPastEnd
        <4>5. ASSUME NEW key
              PROVE  Matches(start + 1, keyEnd, key) <=> k.by = Member(key)
          <5>1. SubSeq(text, a + 2, b - 1) = SubSeq(doc.text, a + 2, b - 1)
            <6> DEFINE x == SubSeq(text, a + 2, b - 1)
                       y == SubSeq(doc.text, a + 2, b - 1)
            <6>1. /\ a + 2 \in Int /\ b - 1 \in Int /\ a + 2 >= 1
                  /\ b - 1 <= Len(text) /\ b - 1 <= Len(doc.text)
              BY <1>1, <1>3, <2>8, <3>5
            <6>2. text \in Seq(Letter) /\ doc.text \in Seq(STRING)
              BY ADocument DEF FromDocument
            <6>3. \A j \in (a + 2)..(b - 1) : text[j] \in Letter /\ doc.text[j] \in STRING
              BY <1>3, <6>1, <6>2
            <6>4. /\ x \in Seq(Letter)
                  /\ Len(x) = IF a + 2 <= b - 1 THEN b - 1 - (a + 2) + 1 ELSE 0
                  /\ \A j \in 1..(b - 1 - (a + 2) + 1) : x[j] = text[a + 2 + j - 1]
              BY <6>1, <6>3, SubSeqProperties
            <6>5. /\ y \in Seq(STRING)
                  /\ Len(y) = IF a + 2 <= b - 1 THEN b - 1 - (a + 2) + 1 ELSE 0
                  /\ \A j \in 1..(b - 1 - (a + 2) + 1) : y[j] = doc.text[a + 2 + j - 1]
              BY <6>1, <6>3, SubSeqProperties
            <6> HIDE DEF x, y
            <6>6. ASSUME NEW j \in 1..Len(x)
                  PROVE  x[j] = y[j]
              <7> DEFINE r == a + j
              <7>1. /\ j \in 1..(b - 1 - (a + 2) + 1) /\ r \in Nat /\ a < r /\ r < b - 1
                    /\ r + 1 = a + 2 + j - 1
                BY <2>8, <6>4
              <7> HIDE DEF r
              <7>2. Char(doc, r) # "n"
                BY <2>14, <7>1
              <7>3. r \in 0..(Len(text) - 1)
                BY <1>3, <2>8, <6>1, <7>1
              <7>4. At(r) = Char(doc, r)
                BY <7>2, <7>3 DEF FromDocument
              <7> QED
                BY <6>4, <6>5, <7>1, <7>4 DEF At, Char
            <6> QED
              BY <6>4, <6>5, <6>6, SeqEqual DEF x, y
          <5>2. keyEnd <= Len(text) /\ start + 1 + 1 = a + 2
            BY <1>1, <1>3, <2>8, <3>1, <4>1
          <5>3. Matches(start + 1, keyEnd, key) <=> SubSeq(doc.text, a + 2, b - 1) = key
            BY <4>1, <5>1, <5>2 DEF Matches
          <5>4. k.by = Member(key) <=> SubSeq(doc.text, a + 2, b - 1) = key
            BY <2>10, MembersAndElements
          <5> QED
            BY <5>3, <5>4
        <4>6. CutAt(next) \/ (/\ AtValue(Item(way, i + 1), next)
                              /\ \A key : Matches(start + 1, keyEnd, key) <=> k.by = Member(key))
          <5>1. CASE Blank(doc, next, c)
            BY <4>5, <5>1 DEF AtValue, c, v
          <5>2. CASE next >= End /\ End < c
            BY <4>4, <5>2
          <5> QED
            BY <4>3, <5>1, <5>2
        <4> QED
          BY <1>6, <2>13, <3>1, <3>2, <4>3, <4>6 DEF n, start, next, from, keyEnd, k
      <3> QED
        BY <3>4, <3>5
    <2> QED
      BY <2>12, <2>13
  <1> QED
    BY <1>2, <1>5, <1>6

-----------------------------------------------------------------------------
(* The invariant behind what the callers are given.                           *)

(* None of the first i members has the key.                                   *)
Others(way, i, key) == \A j \in 1..i : doc.at[way].items[j].by # Member(key)

(* The cursor is where a key is read, or past one that was, with what is      *)
(* known of the keys before it; or the text has broken off.                   *)
AtKey(way, key, p) ==
    CutAt(p) \/ \E i \in 0..Len(doc.at[way].items) : AtItem(way, p, i) /\ Others(way, i, key)

AtOther(way, key, p) ==
    CutAt(p) \/ \E i \in 1..Len(doc.at[way].items) : AtValue(Item(way, i), p) /\ Others(way, i, key)

AtFound(way, key, p) ==
    CutAt(p) \/ \E i \in 1..Len(doc.at[way].items) :
                    AtValue(Item(way, i), p) /\ doc.at[way].items[i].by = Member(key)

(* operator[] amid its loop, with a key and with an index. *)
LooksUp(way, key) ==
    /\ path = Append(way, Member(key)) /\ Scanned(way, "Object")
    /\ op = "member" => AtKey(way, key, pos)
    /\ op = "other" => AtOther(way, key, pos)
    /\ op = "found" => AtFound(way, key, pos)

LooksFor(way, index) ==
    /\ path = Append(way, Element(index)) /\ Scanned(way, "Array")
    /\ count <= index
    /\ CutAt(pos) \/ AtItem(way, pos, count)

(* What each operation has found when it returns, and knows while it runs;    *)
(* the inductive invariant adds the bounds of the cursor and where the text   *)
(* is from.                                                                   *)
Sound ==
    /\ op \in {"none", "counted"} => Sees(val, path)
    /\ op \in {"member", "other", "found"} => \E way \in DOMAIN doc.at, key \in Keys : LooksUp(way, key)
    /\ op = "element" => \E way \in DOMAIN doc.at, index \in 0..1 : LooksFor(way, index)
    /\ op \in {"size", "counted"} => Scanned(path, "Array")
    /\ op = "size" =>
           /\ CutAt(pos) \/ AtItem(path, pos, count)
           /\ SkipWhitespace(pos, End) >= End => count <= Len(doc.at[path].items)
    /\ op = "counted" =>
           /\ count <= Len(doc.at[path].items)
           /\ Whole => count = Len(doc.at[path].items)

Parsed(v) == v = NoValue \/ v = Value(v.type, v.start, v.end)

FInv ==
    /\ IInv /\ FromDocument
    /\ path \in Seq(Selections) /\ Parsed(val)
    /\ Plain => Sound

(* What ParseValue returns is no value or a view of one. *)
LEMMA ParseValueParses ==
    ASSUME NEW p, NEW len
    PROVE  Parsed(ParseValue(p, len))
  <1> DEFINE start == SkipWhitespace(p, len)
             v == ParseValue(p, len)
  <1>1. v = NoValue \/ \E type, end : v = Value(type, start, end)
    <2>1. CASE start >= len
      BY <2>1, ParsedAs
    <2>2. CASE ~(start >= len) /\ At(start) \notin {Quote, OpenBrace, OpenBracket, "n", "0"}
      <3>1. v = Value("Null", start, start)
        BY <2>2, ParsedAs
      <3> QED
        BY <3>1
    <2>3. CASE ~(start >= len) /\ At(start) \in {Quote, OpenBrace, OpenBracket, "n", "0"}
      <3> DEFINE quoted == Value("String", start, AfterQuote(ClosingQuote(start + 1, len), len))
                 object == Value("Object", start, FindMatchingBrace(start + 1, len, OpenBrace, CloseBrace) + 1)
                 array == Value("Array", start, FindMatchingBrace(start + 1, len, OpenBracket, CloseBracket) + 1)
                 literal == Value("Literal", start, start + 1)
                 number == Value("Number", start, AfterRun("0", start, len))
      <3>1. \/ v = quoted \/ v = object \/ v = array \/ v = literal \/ v = number
        BY <2>3, ParsedAs, Zenon
      <3>2. /\ \E type, end : quoted = Value(type, start, end)
            /\ \E type, end : object = Value(type, start, end)
            /\ \E type, end : array = Value(type, start, end)
            /\ \E type, end : literal = Value(type, start, end)
            /\ \E type, end : number = Value(type, start, end)
        BY Zenon
      <3> HIDE DEF v, quoted, object, array, literal, number
      <3> QED
        BY <3>1, <3>2
    <2> QED
      BY <2>1, <2>2, <2>3
  <1> HIDE DEF v, start
  <1>2. ASSUME NEW type, NEW end, v = Value(type, start, end)
        PROVE  v = Value(v.type, v.start, v.end)
    <2>1. v.type = type /\ v.start = start /\ v.end = end
      BY <1>2 DEF Value
    <2> QED
      BY <1>2, <2>1
  <1>3. v = NoValue \/ v = Value(v.type, v.start, v.end)
    BY <1>1, <1>2
  <1> QED
    BY <1>3 DEF Parsed, v

(* What is said of the document and the text stays true while they stay.      *)
LEMMA Unmoved ==
    ASSUME UNCHANGED <<doc, text>>
    PROVE  /\ FromDocument <=> FromDocument'
           /\ Plain <=> Plain'
           /\ \A v, way : Sees(v, way) <=> Sees(v, way)'
  <1>1. FromDocument <=> FromDocument'
    BY DEF FromDocument, At, Whole
  <1>2. Plain <=> Plain'
    BY DEF Plain
  <1>3. \A v, way : Sees(v, way) <=> Sees(v, way)'
    BY DEF Sees, Views, Whole
  <1> QED
    BY <1>1, <1>2, <1>3

(* What is said of the text and the view is unmoved with them. *)
LEMMA UnmovedScan ==
    ASSUME UNCHANGED <<doc, text, val>>
    PROVE  /\ \A p : CutAt(p) <=> CutAt(p)'
           /\ \A way, type : Scanned(way, type) <=> Scanned(way, type)'
           /\ \A way, p, i : AtItem(way, p, i) <=> AtItem(way, p, i)'
           /\ \A way, key, p : /\ AtKey(way, key, p) <=> AtKey(way, key, p)'
                               /\ AtOther(way, key, p) <=> AtOther(way, key, p)'
                               /\ AtFound(way, key, p) <=> AtFound(way, key, p)'
           /\ End' = End /\ \A p : SkipWhitespace(p, End)' = SkipWhitespace(p, End)
  <1>1. \A p : CutAt(p) <=> CutAt(p)'
    BY DEF CutAt, Whole, SkipWhitespace, AfterRun, End, At
  <1>2. \A way, type : Scanned(way, type) <=> Scanned(way, type)'
    BY DEF Scanned, Views
  <1>3. \A way, p, i : AtItem(way, p, i) <=> AtItem(way, p, i)'
    BY DEF AtItem
  <1>4. \A way, p : AtValue(way, p) <=> AtValue(way, p)'
    BY DEF AtValue
  <1>5. \A way, i : Item(way, i) = Item(way, i)'
    BY DEF Item
  <1>6. \A way, i, key : Others(way, i, key) <=> Others(way, i, key)'
    BY DEF Others
  <1>7. \A way, key, p : AtKey(way, key, p) <=> AtKey(way, key, p)'
    BY <1>1, <1>3, <1>6 DEF AtKey
  <1>8. \A way, key, p : AtOther(way, key, p) <=> AtOther(way, key, p)'
    BY <1>1, <1>4, <1>5, <1>6 DEF AtOther
  <1>9. \A way, key, p : AtFound(way, key, p) <=> AtFound(way, key, p)'
    BY <1>1, <1>4, <1>5 DEF AtFound
  <1>10. End' = End /\ \A p : SkipWhitespace(p, End)' = SkipWhitespace(p, End)
    BY DEF SkipWhitespace, AfterRun, End, At
  <1> QED
    BY <1>1, <1>2, <1>3, <1>7, <1>8, <1>9, <1>10

(* What has to be shown of a step, by what runs after it.                     *)
LEMMA ThenReturned ==
    ASSUME UNCHANGED <<doc, text>>, op' = "none", Sees(val', path')
    PROVE  Sound'
  <1>1. Sees(val, path)'
    BY Unmoved
  <1> QED
    BY <1>1 DEF Sound

(* A step that leaves operator[] with a key in its loop, the cursor where a   *)
(* key or a value may be.                                                     *)
LEMMA ThenLooksUp ==
    ASSUME UNCHANGED <<doc, text, val>>, op' \in {"member", "other", "found"},
           NEW way \in DOMAIN doc.at, NEW key \in Keys,
           path' = Append(way, Member(key)), Scanned(way, "Object"),
           op' = "member" => AtKey(way, key, pos'),
           op' = "other" => AtOther(way, key, pos'),
           op' = "found" => AtFound(way, key, pos')
    PROVE  Sound'
  <1>1. /\ op' = "member" => AtKey(way, key, pos)'
        /\ op' = "other" => AtOther(way, key, pos)'
        /\ op' = "found" => AtFound(way, key, pos)'
        /\ Scanned(way, "Object")'
    BY UnmovedScan
  <1>2. LooksUp(way, key)'
    BY <1>1 DEF LooksUp
  <1>3. way \in DOMAIN doc'.at
    OBVIOUS
  <1> QED
    BY <1>2, <1>3 DEF Sound

(* A step that leaves operator[] with an index in its loop. *)
LEMMA ThenLooksFor ==
    ASSUME UNCHANGED <<doc, text, val>>, op' = "element",
           NEW way \in DOMAIN doc.at, NEW index \in 0..1,
           path' = Append(way, Element(index)), Scanned(way, "Array"),
           count' <= index, CutAt(pos') \/ AtItem(way, pos', count')
    PROVE  Sound'
  <1>1. /\ CutAt(pos)' \/ AtItem(way, pos, count)'
        /\ Scanned(way, "Array")'
    BY UnmovedScan
  <1>2. LooksFor(way, index)'
    BY <1>1 DEF LooksFor
  <1>3. way \in DOMAIN doc'.at
    OBVIOUS
  <1> QED
    BY <1>2, <1>3 DEF Sound

(* A step that leaves arraySize() in its loop. *)
LEMMA ThenCounts ==
    ASSUME UNCHANGED <<doc, text, val, path>>, op' = "size", Scanned(path, "Array"),
           CutAt(pos') \/ AtItem(path, pos', count'),
           SkipWhitespace(pos', End) >= End => count' <= Len(doc.at[path].items)
    PROVE  Sound'
  <1>1. /\ CutAt(pos)' \/ AtItem(path, pos, count)'
        /\ Scanned(path, "Array")'
        /\ End' = End /\ SkipWhitespace(pos, End)' = SkipWhitespace(pos', End)
    BY UnmovedScan
  <1>2. SkipWhitespace(pos, End)' >= End' => count' <= Len(doc'.at[path'].items)
    BY <1>1
  <1> QED
    BY <1>1, <1>2 DEF Sound

(* A step by which arraySize() returns. *)
LEMMA ThenCounted ==
    ASSUME UNCHANGED <<doc, text, val, path>>, op' = "counted", Scanned(path, "Array"),
           count' <= Len(doc.at[path].items), Whole => count' = Len(doc.at[path].items)
    PROVE  Sound'
  <1>1. Scanned(path, "Array")'
    BY UnmovedScan
  <1>2. Sees(val, path)'
    BY <1>1 DEF Scanned, Sees
  <1>3. Whole' <=> Whole
    BY DEF Whole
  <1> QED
    BY <1>1, <1>2, <1>3 DEF Sound

(* The first call reads the root. *)
LEMMA InitFInv == Init => FInv
  <1> SUFFICES ASSUME Init
               PROVE  FInv
    OBVIOUS
  <1>1. /\ doc \in Documents /\ val = ParseValue(0, Len(text)) /\ path = <<>> /\ op = "none"
    BY DEF Init
  <1>2. IInv
    BY InitIInv
  <1>3. IsDocument(doc) /\ doc.text \in Seq(STRING)
    BY <1>1, DocumentAssumption DEF IsDocument
  <1>4. FromDocument
    <2> DEFINE all == doc.text
    <2>1. all \in Seq(STRING) /\ Len(all) \in Nat
      BY <1>3
    <2>2. PICK n \in 0..Len(all) : text \in Received(all, n)
      BY DEF Init
    <2> DEFINE cut == SubSeq(all, 1, n)
    <2>3. cut \in Seq(Letter) /\ Len(cut) = n /\ n \in Nat /\ \A i \in 1..n : cut[i] = all[i]
      <3> HIDE DEF all
      <3>1. cut \in Seq(STRING) /\ Len(cut) = n /\ n \in Nat /\ \A i \in 1..n : cut[i] = all[i]
        BY <2>1
      <3> HIDE DEF cut
      <3>2. STRING \subseteq Letter
        BY DEF Letter
      <3> QED
        BY <3>1, <3>2, WiderSeq
    <2>4. \/ text = cut
          \/ n > 0 /\ cut[n] = "n" /\ text = [cut EXCEPT ![n] = "x"]
      BY <2>2 DEF Received
    <2> HIDE DEF cut
    <2>5. CASE text = cut
      <3>1. text \in Seq(Letter) /\ Len(text) = n
        BY <2>3, <2>5
      <3>2. Len(text) <= Len(doc.text)
        BY <2>1, <2>2, <3>1
      <3>3. \A p \in 0..(Len(text) - 1) : At(p) = Char(doc, p)
        <4> SUFFICES ASSUME NEW p \in 0..(Len(text) - 1)
                     PROVE  At(p) = Char(doc, p)
          OBVIOUS
        <4>1. p + 1 \in 1..n
          BY <2>3, <3>1
        <4> QED
          BY <2>3, <2>5, <4>1 DEF At, Char
      <3> QED
        BY <1>1, <3>1, <3>2, <3>3 DEF FromDocument
    <2>6. CASE n > 0 /\ cut[n] = "n" /\ text = [cut EXCEPT ![n] = "x"]
      <3> DEFINE c == "x"
      <3>1. c \in Letter
        BY DEF Letter
      <3>2. n \in 1..Len(cut)
        BY <2>3, <2>6
      <3>3. text = [cut EXCEPT ![n] = c]
        BY <2>6
      <3> HIDE DEF c
      <3>4. text \in Seq(Letter) /\ Len(text) = n
        BY <2>3, <3>1, <3>2, <3>3
      <3>5. text[n] = c /\ \A i \in 1..n : i # n => text[i] = cut[i]
        BY <2>3, <3>2, <3>3
      <3>6. ~Whole
        <4>1. text[n] = "x" /\ all[n] = "n"
          BY <2>3, <2>6, <3>2, <3>5 DEF c
        <4> QED
          BY <4>1 DEF Whole
      <3>7. Len(text) <= Len(doc.text)
        BY <2>1, <2>2, <3>4
      <3>8. \A p \in 0..(Len(text) - 1) : At(p) = Char(doc, p) \/ (At(p) = "x" /\ Char(doc, p) = "n")
        <4> SUFFICES ASSUME NEW p \in 0..(Len(text) - 1)
                     PROVE  At(p) = Char(doc, p) \/ (At(p) = "x" /\ Char(doc, p) = "n")
          OBVIOUS
        <4>1. p + 1 \in 1..n
          BY <2>3, <3>4
        <4>2. CASE p + 1 = n
          BY <2>3, <2>6, <3>5, <4>1, <4>2 DEF At, Char, c
        <4>3. CASE p + 1 # n
          BY <2>3, <3>5, <4>1, <4>3 DEF At, Char
        <4> QED
          BY <4>2, <4>3
      <3> QED
        BY <1>1, <3>4, <3>6, <3>7, <3>8 DEF FromDocument
    <2> QED
      BY <2>4, <2>5, <2>6
  <1>5. path \in Seq(Selections)
    BY <1>1
  <1>6. Parsed(val)
    BY <1>1, ParseValueParses
  <1>7. Plain => Sound
    <2> SUFFICES ASSUME Plain
                 PROVE  Sound
      OBVIOUS
    <2> DEFINE way == <<>>
               w == doc.at[way]
               N == Len(text)
    <2>1. way \in DOMAIN doc.at /\ Blank(doc, 0, w.start)
      BY <1>3 DEF IsDocument
    <2>2. N \in Nat /\ (Whole => N = Len(doc.text)) /\ w.start < w.end /\ w.end <= Len(doc.text)
          /\ w.start \in Nat /\ w.end \in Nat /\ Len(doc.text) \in Nat
      BY <1>4, <2>1, Lengths, AValue
    <2>3. /\ ~(w.start < N) => val = NoValue
          /\ w.start < N => Views(val, w) \/ BreaksOff(val, w)
      BY <1>1, <1>4, <2>1, <2>2, ValueRead
    <2> HIDE DEF way, w
    <2>4. Sees(val, way)
      <3>1. CASE ~(w.start < N)
        <4>1. ~Whole
          <5> HIDE DEF N
          <5> QED
            BY <2>2, <3>1
        <4>2. val.type = "Null"
          BY <2>3, <3>1 DEF NoValue
        <4> QED
          BY <4>1, <4>2 DEF Sees
      <3>2. CASE Views(val, w)
        BY <2>1, <3>2 DEF Sees, w
      <3>3. CASE BreaksOff(val, w)
        BY <3>3 DEF Sees, BreaksOff
      <3> QED
        BY <2>3, <3>1, <3>2, <3>3
    <2>5. Sees(val, path)
      BY <1>1, <2>4 DEF way
    <2> QED
      BY <1>1, <2>5 DEF Sound
  <1> QED
    BY <1>2, <1>4, <1>5, <1>6, <1>7 DEF FInv

(* What is said of a value of another type. *)
LEMMA NotThere ==
    ASSUME FromDocument, path \in Seq(Selections), Sees(val, path), val.src,
           NEW by \in Selections, NEW type \in {"Object", "Array"}, val.type # type,
           type = "Object" => \A i : by # Element(i),
           type = "Array" => \A k : by # Member(k)
    PROVE  Sees(NoValue, Append(path, by))
  <1>1. ASSUME Whole, Append(path, by) \in DOMAIN doc.at
        PROVE  FALSE
    <2>1. /\ path \in DOMAIN doc.at /\ doc.at[path].type \in {"Object", "Array"}
          /\ \E i \in 1..Len(doc.at[path].items) : doc.at[path].items[i].by = by
      BY <1>1, ByItem
    <2>2. PICK i \in 1..Len(doc.at[path].items) : doc.at[path].items[i].by = by
      BY <2>1
    <2>3. val.type = doc.at[path].type
      BY <1>1, <2>1 DEF Sees, Views
    <2>4. CASE doc.at[path].type = "Array"
      <3>1. doc.at[path].items[i].by = Element(i - 1)
        BY <2>1, <2>4, AnItem
      <3> QED
        BY <2>2, <2>3, <2>4, <3>1
    <2>5. CASE doc.at[path].type = "Object"
      <3>1. \E k : doc.at[path].items[i].by = Member(k)
        BY <2>1, <2>5, AnItem
      <3> QED
        BY <2>2, <2>3, <2>5, <3>1
    <2> QED
      BY <2>1, <2>4, <2>5
  <1>2. NoValue.type = "Null" /\ ~NoValue.src
    BY DEF NoValue
  <1> QED
    BY <1>1, <1>2 DEF Sees

(* A function that begins on a value of its type has all items before it. *)
LEMMA BeginsScan ==
    ASSUME FromDocument, Sees(val, path), NEW type \in {"Object", "Array"}, val.type = type
    PROVE  Scanned(path, type) /\ AtItem(path, val.start + 1, 0)
  <1>1. path \in DOMAIN doc.at /\ Views(val, doc.at[path])
    BY DEF Sees
  <1>2. Scanned(path, type)
    BY <1>1 DEF Scanned, Views
  <1>3. val.start = doc.at[path].start
    BY <1>1 DEF Views
  <1>4. /\ Len(doc.at[path].items) \in Nat
        /\ Blank(doc, doc.at[path].start + 1, Ahead(doc.at[path], 0))
    BY <1>1, <1>2, ItemsApart DEF Scanned
  <1> QED
    BY <1>2, <1>3, <1>4 DEF AtItem

(* A call of operator[] with a key. *)
LEMMA LookupSound ==
    ASSUME FInv, Plain, Sound, NEW key \in Keys, Lookup(key)
    PROVE  Sound'
  <1>1. /\ op \in {"none", "counted"} /\ val.src /\ UNCHANGED <<doc, text>>
        /\ path' = Append(path, Member(key))
    BY DEF Lookup, Begin
  <1>2. FromDocument /\ path \in Seq(Selections) /\ Sees(val, path)
    BY <1>1 DEF FInv, Sound
  <1>3. Member(key) \in Selections /\ \A i : Member(key) # Element(i)
    BY KeyAssumption, MembersAndElements
  <1>4. CASE val.type = "Object"
    <2>1. val' = val /\ op' = "member" /\ pos' = val.start + 1
      BY <1>4 DEF Lookup, Begin
    <2>2. Scanned(path, "Object") /\ AtItem(path, val.start + 1, 0)
      BY <1>2, <1>4, BeginsScan
    <2>3. path \in DOMAIN doc.at /\ Len(doc.at[path].items) \in Nat
      BY <1>2, <2>2, ItemsApart DEF Scanned
    <2>4. AtKey(path, key, pos')
      <3>1. Others(path, 0, key)
        BY DEF Others
      <3> QED
        BY <2>1, <2>2, <2>3, <3>1 DEF AtKey
    <2> QED
      BY <1>1, <2>1, <2>2, <2>3, <2>4, ThenLooksUp
  <1>5. CASE val.type # "Object"
    <2>1. val' = NoValue /\ op' = "none"
      BY <1>5 DEF Lookup, Begin
    <2>2. Sees(NoValue, Append(path, Member(key)))
      BY <1>1, <1>2, <1>3, <1>5, NotThere
    <2> QED
      BY <1>1, <2>1, <2>2, ThenReturned
  <1> QED
    BY <1>4, <1>5

(* A call of operator[] with an index. *)
LEMMA IndexSound ==
    ASSUME FInv, Plain, Sound, NEW index \in 0..1, Index(index)
    PROVE  Sound'
  <1>1. /\ op \in {"none", "counted"} /\ val.src /\ UNCHANGED <<doc, text>>
        /\ path' = Append(path, Element(index))
    BY DEF Index, Begin
  <1>2. FromDocument /\ path \in Seq(Selections) /\ Sees(val, path)
    BY <1>1 DEF FInv, Sound
  <1>3. Element(index) \in Selections /\ \A k : Element(index) # Member(k)
    BY MembersAndElements
  <1>4. CASE val.type = "Array"
    <2>1. val' = val /\ op' = "element" /\ pos' = val.start + 1 /\ count' = 0
      BY <1>4 DEF Index, Begin
    <2>2. Scanned(path, "Array") /\ AtItem(path, val.start + 1, 0)
      BY <1>2, <1>4, BeginsScan
    <2>3. path \in DOMAIN doc.at
      BY <2>2 DEF Scanned
    <2> QED
      BY <1>1, <2>1, <2>2, <2>3, ThenLooksFor
  <1>5. CASE val.type # "Array"
    <2>1. val' = NoValue /\ op' = "none"
      BY <1>5 DEF Index, Begin
    <2>2. Sees(NoValue, Append(path, Element(index)))
      BY <1>1, <1>2, <1>3, <1>5, NotThere
    <2> QED
      BY <1>1, <2>1, <2>2, ThenReturned
  <1> QED
    BY <1>4, <1>5

(* A call of arraySize(). *)
LEMMA ArraySizeSound ==
    ASSUME FInv, Plain, Sound, ArraySize
    PROVE  Sound'
  <1>1. op = "none" /\ val.src /\ UNCHANGED <<doc, text, val, path>> /\ count' = 0
    BY DEF ArraySize, Begin
  <1>2. FromDocument /\ path \in Seq(Selections) /\ Sees(val, path)
    BY <1>1 DEF FInv, Sound
  <1>3. CASE val.type = "Array"
    <2>1. op' = "size" /\ pos' = val.start + 1
      BY <1>3 DEF ArraySize, Begin
    <2>2. Scanned(path, "Array") /\ AtItem(path, val.start + 1, 0)
      BY <1>2, <1>3, BeginsScan
    <2>3. count' <= Len(doc.at[path].items)
      BY <1>1, <1>2, <2>2, ItemsApart DEF Scanned
    <2> QED
      BY <1>1, <2>1, <2>2, <2>3, ThenCounts
  <1>4. CASE val.type # "Array"
    <2>1. op' = "none"
      BY <1>4 DEF ArraySize, Begin
    <2> QED
      BY <1>1, <1>2, <2>1, ThenReturned
  <1> QED
    BY <1>3, <1>4

(* What is known when a function runs.                                        *)
LEMMA WhileRunning ==
    ASSUME FInv, Running
    PROVE  FromDocument /\ pos \in Nat /\ End \in Nat /\ path \in Seq(Selections) /\ count \in Nat
  <1>1. IInv
    BY DEF FInv
  <1>2. count \in 0..(SizeRange - 1) /\ SizeRange \in Nat
    BY <1>1, SizeIsPositive DEF IInv, TypeOK, Viewed
  <1> QED
    BY <1>1, <1>2, CursorStays DEF FInv

(* The key at the cursor is the one looked up or another. *)
LEMMA ReadKeySound ==
    ASSUME FInv, Plain, Sound, ReadKey
    PROVE  Sound'
  <1>1. op = "member"
    BY DEF ReadKey
  <1>2. FromDocument /\ pos \in Nat /\ End \in Nat /\ path \in Seq(Selections)
    BY <1>1, WhileRunning DEF Running
  <1>3. PICK way \in DOMAIN doc.at, key \in Keys : LooksUp(way, key)
    BY <1>1 DEF Sound
  <1>4. path = Append(way, Member(key)) /\ Scanned(way, "Object") /\ AtKey(way, key, pos)
    BY <1>1, <1>3 DEF LooksUp
  <1> DEFINE n == Len(doc.at[way].items)
             start == SkipWhitespace(pos, End)
             keyEnd == ClosingQuote(start + 1, End)
             next == SkipSeparator(AfterQuote(keyEnd, End), End, Colon)
  <1>5. way \in Seq(Selections) /\ Member(key) \in Selections /\ n \in Nat
    <2>1. doc.at[way].type \in {"Object", "Array"}
      BY <1>4 DEF Scanned
    <2> QED
      BY <1>2, <2>1, ADocument, ItemsApart, KeyAssumption, MembersAndElements DEF IsDocument
  <1>6. Last(path).member = key
    <2>1. Len(path) = Len(way) + 1 /\ path[Len(way) + 1] = Member(key)
      BY <1>4, <1>5, AppendProperties
    <2>2. Member(key).member = key
      BY DEF Member
    <2> QED
      BY <2>1, <2>2 DEF Last
  <1>7. CASE start >= End \/ At(start) # Quote
    <2>1. Return(NoValue)
      BY <1>7 DEF ReadKey
    <2>2. UNCHANGED <<doc, text, path>> /\ val' = NoValue /\ op' = "none"
      BY <2>1 DEF Return
    <2>3. Sees(NoValue, path)
      <3>1. NoValue.type = "Null" /\ ~NoValue.src
        BY DEF NoValue
      <3>2. CASE ~Whole
        BY <3>1, <3>2 DEF Sees
      <3>3. CASE Whole
        <4>1. PICK i \in 0..n : AtItem(way, pos, i) /\ Others(way, i, key)
          BY <1>4, <3>3 DEF AtKey, CutAt
        <4>2. i = n
          <5>1. \/ start >= End /\ (i = n \/ ~Whole)
                \/ i < n /\ start < End /\ At(start) = Quote
            BY <1>2, <1>4, <4>1, KeyRead
          <5>2. start \in Nat
            BY <1>2, AfterRunStays DEF SkipWhitespace
          <5> HIDE DEF start, n
          <5> QED
            BY <1>2, <1>7, <3>3, <5>1, <5>2
        <4>3. path \notin DOMAIN doc.at
          <5> SUFFICES ASSUME path \in DOMAIN doc.at
                       PROVE  FALSE
            OBVIOUS
          <5>1. \E j \in 1..n : doc.at[way].items[j].by = Member(key)
            BY <1>2, <1>4, <1>5, ByItem
          <5> QED
            BY <4>1, <4>2, <5>1 DEF Others
        <4> QED
          BY <3>1, <4>3 DEF Sees
      <3> QED
        BY <3>2, <3>3
    <2> QED
      BY <2>2, <2>3, ThenReturned
  <1>8. CASE ~(start >= End \/ At(start) # Quote)
    <2>1. /\ op' = IF Matches(start + 1, keyEnd, key) THEN "found" ELSE "other"
          /\ pos' = next /\ UNCHANGED <<doc, text, val, path>>
      BY <1>6, <1>8 DEF ReadKey
    <2>2. \/ CutAt(next)
          \/ \E i \in 0..(n - 1) :
                /\ AtItem(way, pos, i) /\ Others(way, i, key)
                /\ AtValue(Item(way, i + 1), next)
                /\ Matches(start + 1, keyEnd, key) <=> doc.at[way].items[i + 1].by = Member(key)
      <3>1. ~CutAt(pos)
        <4>1. start \in Nat
          BY <1>2, AfterRunStays DEF SkipWhitespace
        <4> HIDE DEF start
        <4>2. start < End /\ At(start) = Quote
          BY <1>2, <1>8, <4>1
        <4>3. At(start) # "x"
          BY <4>2, Characters
        <4> QED
          BY <4>2, <4>3 DEF CutAt, start
      <3>2. PICK i \in 0..n : AtItem(way, pos, i) /\ Others(way, i, key)
        BY <1>4, <3>1 DEF AtKey
      <3>3. /\ i < n
            /\ \/ CutAt(next)
               \/ /\ AtValue(Item(way, i + 1), next)
                  /\ \A k : Matches(start + 1, keyEnd, k) <=> doc.at[way].items[i + 1].by = Member(k)
        BY <1>2, <1>4, <1>8, <3>2, KeyRead
      <3>4. i \in 0..(n - 1)
        BY <1>5, <3>3
      <3> QED
        BY <3>2, <3>3, <3>4
    <2> HIDE DEF n, start, keyEnd, next
    <2>3. op' = "found" => AtFound(way, key, next)
      <3> SUFFICES ASSUME op' = "found"
                   PROVE  AtFound(way, key, next)
        OBVIOUS
      <3>1. Matches(start + 1, keyEnd, key)
        BY <2>1
      <3>2. CASE CutAt(next)
        BY <3>2 DEF AtFound
      <3>3. ASSUME NEW i \in 0..(n - 1), AtValue(Item(way, i + 1), next),
                   Matches(start + 1, keyEnd, key) <=> doc.at[way].items[i + 1].by = Member(key)
            PROVE  AtFound(way, key, next)
        <4>1. i + 1 \in 1..n
          BY <1>5
        <4> QED
          BY <3>1, <3>3, <4>1 DEF AtFound, n
      <3> QED
        BY <2>2, <3>2, <3>3
    <2>4. op' = "other" => AtOther(way, key, next)
      <3> SUFFICES ASSUME op' = "other"
                   PROVE  AtOther(way, key, next)
        OBVIOUS
      <3>1. ~Matches(start + 1, keyEnd, key)
        BY <2>1
      <3>2. CASE CutAt(next)
        BY <3>2 DEF AtOther
      <3>3. ASSUME NEW i \in 0..(n - 1), AtValue(Item(way, i + 1), next), Others(way, i, key),
                   Matches(start + 1, keyEnd, key) <=> doc.at[way].items[i + 1].by = Member(key)
            PROVE  AtOther(way, key, next)
        <4>1. i + 1 \in 1..n /\ \A j \in 1..(i + 1) : j \in 1..i \/ j = i + 1
          BY <1>5
        <4>2. Others(way, i + 1, key)
          BY <3>1, <3>3, <4>1 DEF Others
        <4> QED
          BY <3>3, <4>1, <4>2 DEF AtOther, n
      <3> QED
        BY <2>2, <3>2, <3>3
    <2>5. op' \in {"member", "other", "found"} /\ op' # "member"
      BY <2>1
    <2> QED
      BY <1>4, <2>1, <2>3, <2>4, <2>5, ThenLooksUp
  <1> QED
    BY <1>7, <1>8

(* Where the text has broken off there is nothing to read. *)
LEMMA NothingWhereCut ==
    ASSUME NEW p \in Nat, End \in Nat, CutAt(p), NEW way
    PROVE  Sees(ParseValue(p, End), way)
  <1>1. ParseValue(p, End).type = "Null"
    BY CutStays
  <1>2. ~Whole
    BY DEF CutAt
  <1> QED
    BY <1>1, <1>2 DEF Sees

(* The value behind the key looked up is what the path leads to. *)
LEMMA FoundMemberSound ==
    ASSUME FInv, Plain, Sound, FoundMember
    PROVE  Sound'
  <1>1. op = "found" /\ val' = ParseValue(pos, End) /\ op' = "none" /\ UNCHANGED <<doc, text, path>>
    BY DEF FoundMember, Return
  <1>2. FromDocument /\ pos \in Nat /\ End \in Nat /\ path \in Seq(Selections)
    BY <1>1, WhileRunning DEF Running
  <1>3. PICK way \in DOMAIN doc.at, key \in Keys : LooksUp(way, key)
    BY <1>1 DEF Sound
  <1>4. path = Append(way, Member(key)) /\ Scanned(way, "Object") /\ AtFound(way, key, pos)
    BY <1>1, <1>3 DEF LooksUp
  <1>5. Sees(ParseValue(pos, End), path)
    <2>1. CASE CutAt(pos)
      BY <1>2, <2>1, NothingWhereCut
    <2>2. CASE ~CutAt(pos)
      <3>1. PICK i \in 1..Len(doc.at[way].items) :
                    AtValue(Item(way, i), pos) /\ doc.at[way].items[i].by = Member(key)
        BY <1>4, <2>2 DEF AtFound
      <3>2. Item(way, i) = path
        BY <1>4, <3>1 DEF Item
      <3>3. Sees(ParseValue(pos, End), Item(way, i))
        BY <1>2, <1>4, <3>1, ItemRead
      <3> QED
        BY <3>2, <3>3
    <2> QED
      BY <2>1, <2>2
  <1> QED
    BY <1>1, <1>5, ThenReturned

(* Passing over the value of another key. *)
LEMMA PassMemberSound ==
    ASSUME FInv, Plain, Sound, PassMember
    PROVE  Sound'
  <1> DEFINE next == SkipSeparator(CursorAfter(ParseValue(pos, End), pos, End), End, Comma)
  <1>1. op = "other" /\ pos' = next /\ op' = "member" /\ UNCHANGED <<doc, text, val, path>>
    BY DEF PassMember
  <1>2. FromDocument /\ pos \in Nat /\ End \in Nat /\ path \in Seq(Selections)
    BY <1>1, WhileRunning DEF Running
  <1>3. PICK way \in DOMAIN doc.at, key \in Keys : LooksUp(way, key)
    BY <1>1 DEF Sound
  <1>4. path = Append(way, Member(key)) /\ Scanned(way, "Object") /\ AtOther(way, key, pos)
    BY <1>1, <1>3 DEF LooksUp
  <1>5. AtKey(way, key, next)
    <2>1. CASE CutAt(pos)
      <3>1. CutAt(next)
        BY <1>2, <2>1, CutStays
      <3> QED
        BY <3>1 DEF AtKey
    <2>2. CASE ~CutAt(pos)
      <3>1. PICK i \in 1..Len(doc.at[way].items) :
                    AtValue(Item(way, i), pos) /\ Others(way, i, key)
        BY <1>4, <2>2 DEF AtOther
      <3>2. CutAt(next) \/ AtItem(way, next, i)
        BY <1>2, <1>4, <3>1, ItemPassed
      <3>3. i \in 0..Len(doc.at[way].items)
        OBVIOUS
      <3> HIDE DEF next
      <3> QED
        BY <3>1, <3>2, <3>3 DEF AtKey
    <2> QED
      BY <2>1, <2>2
  <1> HIDE DEF next
  <1> QED
    BY <1>1, <1>3, <1>4, <1>5, ThenLooksUp

(* The cursor before an element, or at the end.                               *)
LEMMA ElementRead ==
    ASSUME FromDocument, Plain, NEW way \in Seq(Selections), Scanned(way, "Array"),
           NEW i \in 0..Len(doc.at[way].items), NEW p \in Nat, AtItem(way, p, i)
    PROVE  LET n == Len(doc.at[way].items)
               v == ParseValue(p, End)
               next == SkipSeparator(CursorAfter(v, p, End), End, Comma)
           IN /\ n \in Nat /\ n < SizeRange /\ SizeRange \in Nat
              /\ i = n => SkipWhitespace(p, End) >= End /\ v = NoValue
              /\ i < n => /\ Append(way, Element(i)) \in DOMAIN doc.at
                          /\ Sees(v, Append(way, Element(i)))
                          /\ SkipWhitespace(p, End) >= End => ~Whole /\ v = NoValue
                          /\ next \in Nat /\ (CutAt(next) \/ AtItem(way, next, i + 1))
  <1> DEFINE n == Len(doc.at[way].items)
             e == doc.at[way].end
             q == Ahead(doc.at[way], i)
             v == ParseValue(p, End)
             start == SkipWhitespace(p, End)
             next == SkipSeparator(CursorAfter(v, p, End), End, Comma)
  <1>1. way \in DOMAIN doc.at /\ doc.at[way].type = "Array" /\ doc.at[way].type \in {"Object", "Array"}
    BY DEF Scanned
  <1>2. /\ End \in Nat /\ End <= Len(text) /\ End <= e - 1
        /\ End = e - 1 \/ (~Whole /\ End = Len(text))
    BY EndOfView
  <1>3. /\ n \in Nat /\ n < Len(doc.text) /\ Len(doc.text) \in Nat /\ Len(text) \in Nat
        /\ e \in Nat /\ q \in Nat /\ Ahead(doc.at[way], n) = e - 1
    BY <1>1, ItemsApart, Lengths, AValue
  <1>4. n < SizeRange /\ SizeRange \in Nat
    <2>1. Len(doc.text) < SizeRange /\ SizeRange \in Nat
      BY SizeAssumption DEF FromDocument
    <2> HIDE DEF n
    <2> QED
      BY <1>3, <2>1
  <1>5. ASSUME i = n
        PROVE  start >= End /\ v = NoValue
    <2>1. Blank(doc, p, q) /\ q = e - 1
      BY <1>3, <1>5 DEF AtItem
    <2>2. ~(q < End)
      <3> HIDE DEF q, e
      <3> QED
        BY <1>2, <1>3, <2>1
    <2>3. start = IF p >= End THEN p ELSE IF q < End THEN q ELSE End
      BY <1>2, <1>3, <2>1, <2>2, BlanksEnd
    <2> HIDE DEF start, q
    <2>4. start >= End
      BY <1>2, <2>2, <2>3
    <2>5. v = NoValue
      <3>1. SkipWhitespace(p, End) >= End
        BY <2>4 DEF start
      <3> QED
        BY <3>1, ParsedAs
    <2> QED
      BY <2>4, <2>5
  <1>6. ASSUME i < n
        PROVE  /\ Append(way, Element(i)) \in DOMAIN doc.at
               /\ Sees(v, Append(way, Element(i)))
               /\ start >= End => ~Whole /\ v = NoValue
               /\ next \in Nat /\ (CutAt(next) \/ AtItem(way, next, i + 1))
    <2> DEFINE j == i + 1
               w == doc.at[Item(way, j)]
    <2>1. j \in 1..n /\ j - 1 = i
      BY <1>3, <1>6
    <2> HIDE DEF j
    <2>2. /\ Item(way, j) \in DOMAIN doc.at
          /\ doc.at[way].items[j].start = Ahead(doc.at[way], j - 1)
          /\ doc.at[way].items[j].by = Element(j - 1)
          /\ doc.at[way].items[j].start = w.start
      BY <1>1, <2>1, AnItem
    <2>3. Item(way, j) = Append(way, Element(i))
      BY <2>1, <2>2 DEF Item
    <2>4. AtValue(Item(way, j), p)
      <3>1. q = w.start
        BY <2>1, <2>2
      <3>2. Blank(doc, p, q)
        BY DEF AtItem
      <3> HIDE DEF q
      <3> QED
        BY <3>1, <3>2 DEF AtValue
    <2>5. /\ ~(w.start < End) => ~Whole /\ v = NoValue /\ SkipWhitespace(p, End) >= End
          /\ w.start < End => SkipWhitespace(p, End) = w.start
          /\ Sees(v, Item(way, j))
      BY <2>1, <2>4, ItemRead
    <2>6. next \in Nat /\ (CutAt(next) \/ AtItem(way, next, j))
      BY <2>1, <2>4, ItemPassed
    <2>7. start >= End => ~Whole /\ v = NoValue
      <3>1. w.start \in Nat
        BY <2>2, AValue
      <3> HIDE DEF w
      <3> QED
        BY <1>2, <2>5, <3>1
    <2> HIDE DEF next, v, start
    <2> QED
      BY <2>2, <2>3, <2>5, <2>6, <2>7 DEF j
  <1> QED
    BY <1>3, <1>4, <1>5, <1>6

(* A count below the length of a document does not wrap. *)
LEMMA OneMore ==
    ASSUME FInv, NEW n \in Nat, n < SizeRange, count < n
    PROVE  (count + 1) % SizeRange = count + 1
  <1>1. count \in 0..(SizeRange - 1) /\ SizeRange \in Nat
    BY SizeIsPositive DEF FInv, IInv, TypeOK, Viewed
  <1> QED
    BY <1>1

(* One element further, or the element looked for. *)
LEMMA NextElementSound ==
    ASSUME FInv, Plain, Sound, NextElement
    PROVE  Sound'
  <1> DEFINE v == ParseValue(pos, End)
             start == SkipWhitespace(pos, End)
             next == SkipSeparator(CursorAfter(v, pos, End), End, Comma)
  <1>1. op = "element" /\ UNCHANGED <<doc, text>>
    BY DEF NextElement, Return, PassElement
  <1>2. FromDocument /\ pos \in Nat /\ End \in Nat /\ path \in Seq(Selections) /\ count \in Nat
    BY <1>1, WhileRunning DEF Running
  <1>3. PICK way \in DOMAIN doc.at, index \in 0..1 : LooksFor(way, index)
    BY <1>1 DEF Sound
  <1>4. /\ path = Append(way, Element(index)) /\ Scanned(way, "Array") /\ count <= index
        /\ CutAt(pos) \/ AtItem(way, pos, count)
    BY <1>3 DEF LooksFor
  <1> DEFINE n == Len(doc.at[way].items)
  <1>5. way \in Seq(Selections) /\ Element(index) \in Selections
    BY <1>2, ADocument, MembersAndElements DEF IsDocument
  <1>6. Last(path).element = index
    <2>1. Len(path) = Len(way) + 1 /\ path[Len(way) + 1] = Element(index)
      BY <1>4, <1>5, AppendProperties
    <2>2. Element(index).element = index
      BY DEF Element
    <2> QED
      BY <2>1, <2>2 DEF Last
  <1>7. count \in 0..n => /\ n \in Nat /\ n < SizeRange /\ SizeRange \in Nat
    <2> SUFFICES ASSUME ~CutAt(pos) \/ CutAt(pos), count \in 0..n
                 PROVE  n \in Nat /\ n < SizeRange /\ SizeRange \in Nat
      OBVIOUS
    <2>1. n \in Nat /\ n < Len(doc.text)
      BY <1>2, <1>4, ItemsApart DEF Scanned
    <2>2. Len(doc.text) < SizeRange /\ SizeRange \in Nat /\ Len(doc.text) \in Nat
      BY <1>2, SizeAssumption, Lengths DEF FromDocument
    <2> HIDE DEF n
    <2> QED
      BY <2>1, <2>2
  <1>8. start \in Nat
    BY <1>2, AfterRunStays DEF SkipWhitespace
  <1>9. CASE start >= End
    <2>1. Return(NoValue)
      BY <1>9 DEF NextElement
    <2>2. UNCHANGED <<doc, text, path>> /\ val' = NoValue /\ op' = "none"
      BY <2>1 DEF Return
    <2>3. Sees(NoValue, path)
      <3>1. NoValue.type = "Null" /\ ~NoValue.src
        BY DEF NoValue
      <3>2. CASE ~Whole
        BY <3>1, <3>2 DEF Sees
      <3>3. CASE Whole
        <4>1. AtItem(way, pos, count) /\ count \in 0..n
          BY <1>4, <3>3 DEF CutAt, AtItem
        <4>2. ~(count < n)
          BY <1>2, <1>4, <1>5, <1>9, <3>3, <4>1, ElementRead
        <4>3. path \notin DOMAIN doc.at
          <5> SUFFICES ASSUME path \in DOMAIN doc.at
                       PROVE  FALSE
            OBVIOUS
          <5>1. \E j \in 1..n : doc.at[way].items[j].by = Element(index)
            BY <1>2, <1>4, <1>5, ByItem
          <5>2. PICK j \in 1..n : doc.at[way].items[j].by = Element(index)
            BY <5>1
          <5>3. doc.at[way].items[j].by = Element(j - 1)
            BY <1>2, <1>4, <5>2, AnItem DEF Scanned
          <5>4. j - 1 = index
            BY <5>2, <5>3, MembersAndElements
          <5> HIDE DEF n
          <5> QED
            BY <1>2, <1>4, <1>7, <4>1, <4>2, <5>2, <5>4
        <4> QED
          BY <3>1, <4>3 DEF Sees
      <3> QED
        BY <3>2, <3>3
    <2> QED
      BY <2>2, <2>3, ThenReturned
  <1>10. CASE ~(start >= End) /\ count = index
    <2>1. Return(v)
      BY <1>6, <1>10 DEF NextElement
    <2>2. UNCHANGED <<doc, text, path>> /\ val' = v /\ op' = "none"
      BY <2>1 DEF Return
    <2>3. Sees(v, path)
      <3>1. CASE CutAt(pos)
        BY <1>2, <3>1, NothingWhereCut
      <3>2. CASE ~CutAt(pos)
        <4>1. AtItem(way, pos, count) /\ count \in 0..n
          BY <1>4, <3>2 DEF AtItem
        <4>2. count # n
          BY <1>2, <1>4, <1>5, <1>10, <4>1, ElementRead
        <4>3. count < n
          <5> HIDE DEF n
          <5> QED
            BY <1>2, <1>7, <4>1, <4>2
        <4>4. Sees(v, Append(way, Element(count)))
          BY <1>2, <1>4, <1>5, <4>1, <4>3, ElementRead
        <4> QED
          BY <1>4, <1>10, <4>4
      <3> QED
        BY <3>1, <3>2
    <2> QED
      BY <2>2, <2>3, ThenReturned
  <1>11. CASE ~(start >= End) /\ count # index
    <2>1. PassElement(v)
      BY <1>6, <1>11 DEF NextElement
    <2>2. UNCHANGED <<doc, text, val, path>> /\ op' = "element" /\ pos' = next /\ count' = (count + 1) % SizeRange
      BY <1>1, <2>1 DEF PassElement
    <2>3. count' <= index
      <3>1. SizeRange \in Nat /\ SizeRange > 0 /\ index \in Nat
        BY <1>2, SizeIsPositive DEF FromDocument
      <3>2. (count + 1) % SizeRange <= count + 1
        <4>1. count <= SizeRange - 1
          BY <3>1 DEF FInv, IInv, TypeOK
        <4>2. CASE count + 1 < SizeRange
          BY <1>2, <3>1, <4>2
        <4>3. CASE count + 1 = SizeRange
          <5>1. SizeRange % SizeRange = 0
            BY <3>1
          <5> QED
            BY <1>2, <3>1, <4>3, <5>1
        <4> QED
          BY <1>2, <3>1, <4>1, <4>2, <4>3
      <3>3. (count + 1) % SizeRange \in Nat
        BY <1>2, <3>1
      <3> DEFINE c == (count + 1) % SizeRange
      <3> HIDE DEF c
      <3>4. c <= count + 1 /\ c \in Nat
        BY <3>2, <3>3 DEF c
      <3>5. count' = c
        BY <2>2 DEF c
      <3> QED
        BY <1>2, <1>4, <1>11, <3>1, <3>4, <3>5
    <2>4. CutAt(next) \/ AtItem(way, next, count')
      <3>1. CASE CutAt(pos)
        BY <1>2, <3>1, CutStays
      <3>2. CASE ~CutAt(pos)
        <4>1. AtItem(way, pos, count) /\ count \in 0..n
          BY <1>4, <3>2 DEF AtItem
        <4>2. count # n
          BY <1>2, <1>4, <1>5, <1>11, <4>1, ElementRead
        <4>3. count < n
          <5> HIDE DEF n
          <5> QED
            BY <1>2, <1>7, <4>1, <4>2
        <4>4. CutAt(next) \/ AtItem(way, next, count + 1)
          BY <1>2, <1>4, <1>5, <4>1, <4>3, ElementRead
        <4>5. count' = count + 1
          BY <1>7, <2>2, <4>1, <4>3, OneMore
        <4> QED
          BY <4>4, <4>5
      <3> QED
        BY <3>1, <3>2
    <2> HIDE DEF next
    <2> QED
      BY <1>4, <2>2, <2>3, <2>4, ThenLooksFor
  <1> QED
    BY <1>9, <1>10, <1>11

(* One more element counted, or the end of the array. *)
LEMMA CountElementSound ==
    ASSUME FInv, Plain, Sound, CountElement
    PROVE  Sound'
  <1> DEFINE v == ParseValue(pos, End)
             start == SkipWhitespace(pos, End)
             next == SkipSeparator(CursorAfter(v, pos, End), End, Comma)
             n == Len(doc.at[path].items)
  <1>1. op = "size" /\ UNCHANGED <<doc, text, val, path>>
    BY DEF CountElement, Counted, PassElement
  <1>2. FromDocument /\ pos \in Nat /\ End \in Nat /\ path \in Seq(Selections) /\ count \in Nat
    BY <1>1, WhileRunning DEF Running
  <1>3. /\ Scanned(path, "Array")
        /\ CutAt(pos) \/ AtItem(path, pos, count)
        /\ start >= End => count <= n
    BY <1>1 DEF Sound
  <1>4. n \in Nat /\ n < SizeRange /\ SizeRange \in Nat
    <2>1. n \in Nat /\ n < Len(doc.text)
      BY <1>2, <1>3, ItemsApart DEF Scanned
    <2>2. Len(doc.text) < SizeRange /\ SizeRange \in Nat /\ Len(doc.text) \in Nat
      BY <1>2, SizeAssumption, Lengths DEF FromDocument
    <2> HIDE DEF n
    <2> QED
      BY <2>1, <2>2
  <1>5. start \in Nat
    BY <1>2, AfterRunStays DEF SkipWhitespace
  <1>6. CASE start >= End
    <2>1. op' = "counted" /\ count' = count
      BY <1>6 DEF CountElement, Counted
    <2>2. Whole => count = n
      <3> SUFFICES ASSUME Whole
                   PROVE  count = n
        OBVIOUS
      <3>1. AtItem(path, pos, count) /\ count \in 0..n
        BY <1>3 DEF CutAt, AtItem
      <3>2. ~(count < n)
        BY <1>2, <1>3, <1>6, <3>1, ElementRead
      <3> HIDE DEF n
      <3> QED
        BY <1>2, <1>4, <3>1, <3>2
    <2>3. count' <= n /\ (Whole => count' = n)
      BY <1>3, <1>6, <2>1, <2>2
    <2> QED
      BY <1>1, <1>3, <2>1, <2>3, ThenCounted
  <1>7. CASE ~(start >= End)
    <2>1. op' = "size" /\ pos' = next /\ count' = (count + 1) % SizeRange
      BY <1>1, <1>7 DEF CountElement, PassElement
    <2>2. CASE CutAt(pos)
      <3>1. CutAt(next) /\ SkipWhitespace(next, End) < End
        <4>1. start < End
          <5> HIDE DEF start
          <5> QED
            BY <1>2, <1>5, <1>7
        <4> QED
          BY <1>2, <2>2, <4>1, CutStays
      <3>2. ~(SkipWhitespace(next, End) >= End)
        <4> DEFINE s == SkipWhitespace(next, End)
        <4>1. s \in Nat
          <5>1. next \in Nat
            <6>1. v.end \in Nat /\ v.src \in BOOLEAN
              BY <1>2, ParseValueStays
            <6> DEFINE from == CursorAfter(v, pos, End)
            <6>2. from \in Nat
              <7> HIDE DEF v
              <7> QED
                BY <1>5, <6>1 DEF CursorAfter
            <6> HIDE DEF from
            <6>3. from + End \in Nat /\ from <= from + End /\ End <= from + End
              BY <1>2, <6>2
            <6>4. SkipSeparator(from, End, Comma) \in from..(from + End)
              BY <1>2, <6>2, <6>3, SkipSeparatorStays
            <6> QED
              BY <6>2, <6>4 DEF from
          <5> HIDE DEF next
          <5> QED
            BY <1>2, <5>1, AfterRunStays DEF SkipWhitespace
        <4>2. s < End
          BY <3>1
        <4> HIDE DEF s
        <4> QED
          BY <1>2, <4>1, <4>2 DEF s
      <3> HIDE DEF next
      <3> QED
        BY <1>1, <1>3, <2>1, <3>1, <3>2, ThenCounts
    <2>3. CASE ~CutAt(pos)
      <3>1. AtItem(path, pos, count) /\ count \in 0..n
        BY <1>3, <2>3 DEF AtItem
      <3>2. count # n
        BY <1>2, <1>3, <1>7, <3>1, ElementRead
      <3>3. count < n
        <4> HIDE DEF n
        <4> QED
          BY <1>2, <1>4, <3>1, <3>2
      <3>4. CutAt(next) \/ AtItem(path, next, count + 1)
        BY <1>2, <1>3, <3>1, <3>3, ElementRead
      <3>5. count' = count + 1
        BY <1>4, <2>1, <3>3, OneMore
      <3>6. count' <= n
        <4> HIDE DEF n
        <4> QED
          BY <1>2, <1>4, <3>3, <3>5
      <3> HIDE DEF next
      <3>7. CutAt(pos') \/ AtItem(path, pos', count')
        BY <2>1, <3>4, <3>5
      <3> QED
        BY <1>1, <1>3, <2>1, <3>6, <3>7, ThenCounts
    <2> QED
      BY <2>2, <2>3
  <1> QED
    BY <1>6, <1>7

(* The document and what was received of it stay, and so does what the path   *)
(* and the value are made of.                                                 *)
LEMMA StepKeeps ==
    ASSUME FInv, [Next]_vars
    PROVE  UNCHANGED <<doc, text>> /\ path' \in Seq(Selections) /\ Parsed(val)'
  <1>1. path \in Seq(Selections) /\ Parsed(val)
    BY DEF FInv
  <1>2. Parsed(NoValue) /\ \A v : val' = v /\ Parsed(v) => Parsed(val)'
    BY DEF Parsed, NoValue, Value
  <1>3. ASSUME NEW v, Return(v), Parsed(v)
        PROVE  UNCHANGED <<doc, text>> /\ path' \in Seq(Selections) /\ Parsed(val)'
    BY <1>1, <1>2, <1>3 DEF Return
  <1>4. ASSUME UNCHANGED <<doc, text, val, path>>
        PROVE  UNCHANGED <<doc, text>> /\ path' \in Seq(Selections) /\ Parsed(val)'
    BY <1>1, <1>2, <1>4
  <1>5. ASSUME NEW key \in Keys, Lookup(key)
        PROVE  UNCHANGED <<doc, text>> /\ path' \in Seq(Selections) /\ Parsed(val)'
    <2>1. Member(key) \in Selections
      BY KeyAssumption, MembersAndElements
    <2>2. Append(path, Member(key)) \in Seq(Selections)
      BY <1>1, <2>1, AppendProperties
    <2>3. /\ UNCHANGED <<doc, text>> /\ path' = Append(path, Member(key))
          /\ val' = val \/ val' = NoValue
      BY <1>5 DEF Lookup, Begin
    <2> QED
      BY <1>1, <1>2, <2>2, <2>3
  <1>6. ASSUME NEW index \in 0..1, Index(index)
        PROVE  UNCHANGED <<doc, text>> /\ path' \in Seq(Selections) /\ Parsed(val)'
    <2>1. Element(index) \in Selections
      BY MembersAndElements
    <2>2. Append(path, Element(index)) \in Seq(Selections)
      BY <1>1, <2>1, AppendProperties
    <2>3. /\ UNCHANGED <<doc, text>> /\ path' = Append(path, Element(index))
          /\ val' = val \/ val' = NoValue
      BY <1>6 DEF Index, Begin
    <2> QED
      BY <1>1, <1>2, <2>2, <2>3
  <1>7. CASE ArraySize
    BY <1>4, <1>7 DEF ArraySize, Begin
  <1>8. CASE ReadKey
    <2>1. Return(NoValue) \/ UNCHANGED <<doc, text, val, path>>
      BY <1>8 DEF ReadKey
    <2> QED
      BY <1>2, <1>3, <1>4, <2>1
  <1>9. CASE FoundMember
    BY <1>3, <1>9, ParseValueParses DEF FoundMember
  <1>10. CASE PassMember
    BY <1>4, <1>10 DEF PassMember
  <1>11. CASE NextElement
    <2>1. \/ Return(NoValue) \/ Return(ParseValue(pos, End)) \/ UNCHANGED <<doc, text, val, path>>
      BY <1>11 DEF NextElement, PassElement
    <2> QED
      BY <1>2, <1>3, <1>4, <2>1, ParseValueParses
  <1>12. CASE CountElement
    BY <1>4, <1>12 DEF CountElement, Counted, PassElement
  <1>13. CASE UNCHANGED vars
    BY <1>4, <1>13 DEF vars
  <1> QED
    BY <1>5, <1>6, <1>7, <1>8, <1>9, <1>10, <1>11, <1>12, <1>13 DEF Next, Step

(* Every step keeps the invariant. *)
LEMMA StepFInv == FInv /\ [Next]_vars => FInv'
  <1> SUFFICES ASSUME FInv, [Next]_vars
               PROVE  FInv'
    OBVIOUS
  <1>1. UNCHANGED <<doc, text>> /\ path' \in Seq(Selections) /\ Parsed(val)'
    BY StepKeeps
  <1>2. IInv'
    BY StepIInv DEF FInv
  <1>3. FromDocument'
    BY <1>1, Unmoved DEF FInv
  <1>4. ASSUME Plain
        PROVE  Sound'
    <2>1. Sound
      BY <1>4 DEF FInv
    <2>2. CASE UNCHANGED vars
      <3>1. UNCHANGED <<doc, text, val, path, op, pos, count>>
        BY <2>2 DEF vars
      <3>2. CASE op = "none"
        <4>1. Sees(val, path)
          BY <2>1, <3>2 DEF Sound
        <4> QED
          BY <3>1, <3>2, <4>1, ThenReturned
      <3>3. CASE op \in {"member", "other", "found"}
        <4>1. PICK way \in DOMAIN doc.at, key \in Keys : LooksUp(way, key)
          BY <2>1, <3>3 DEF Sound
        <4> QED
          BY <3>1, <3>3, <4>1, ThenLooksUp DEF LooksUp
      <3>4. CASE op = "element"
        <4>1. PICK way \in DOMAIN doc.at, index \in 0..1 : LooksFor(way, index)
          BY <2>1, <3>4 DEF Sound
        <4> QED
          BY <3>1, <3>4, <4>1, ThenLooksFor DEF LooksFor
      <3>5. CASE op = "size"
        <4>1. /\ Scanned(path, "Array") /\ (CutAt(pos) \/ AtItem(path, pos, count))
              /\ SkipWhitespace(pos, End) >= End => count <= Len(doc.at[path].items)
          BY <2>1, <3>5 DEF Sound
        <4> QED
          BY <3>1, <3>5, <4>1, ThenCounts
      <3>6. CASE op = "counted"
        <4>1. /\ Scanned(path, "Array") /\ count <= Len(doc.at[path].items)
              /\ Whole => count = Len(doc.at[path].items)
          BY <2>1, <3>6 DEF Sound
        <4> QED
          BY <3>1, <3>6, <4>1, ThenCounted
      <3>7. op \in {"none", "counted", "member", "other", "found", "element", "size"}
        BY DEF FInv, IInv, TypeOK, Running
      <3> QED
        BY <3>2, <3>3, <3>4, <3>5, <3>6, <3>7
    <2> QED
      BY <1>4, <2>1, <2>2, LookupSound, IndexSound, ArraySizeSound, ReadKeySound, FoundMemberSound,
         PassMemberSound, NextElementSound, CountElementSound DEF Next, Step
  <1>5. Plain' => Sound'
    BY <1>1, <1>4, Unmoved
  <1> QED
    BY <1>1, <1>2, <1>3, <1>5 DEF FInv

(* In every state the view is of the value its path leads to, and the cursor  *)
(* is before an item of the container it scans, unless the text has broken    *)
(* off: what operator[] and arraySize() (json.cpp:239-328) rely on from one   *)
(* loop to the next. Where a string ends in an escaped backslash (Plain       *)
(* fails) the braces of a container may be miscounted, and only the bounds    *)
(* are claimed.                                                               *)
THEOREM AlwaysFInv == Spec => []FInv
  <1>1. Init => FInv
    BY InitFInv
  <1>2. FInv /\ [Next]_vars => FInv'
    BY StepFInv
  <1> QED
    BY <1>1, <1>2, PTL DEF Spec

(* What parse, operator[] and asString() (json.cpp:81-308) return is what the *)
(* server wrote: on a whole response every path that was written leads to its *)
(* value, to the last character of a string, and any other to nothing.        *)
THEOREM FindsWhatIsWritten == Spec => []FindsValue
  <1>1. FInv => FindsValue
    <2> SUFFICES ASSUME FInv, Whole, Plain, op = "none"
                 PROVE  IF path \in DOMAIN doc.at
                        THEN LET written == doc.at[path]
                             IN /\ val = Value(written.type, written.start, written.end)
                                /\ val.type = "String" => AsString(val) = written.content
                        ELSE ~val.src
      BY DEF FindsValue
    <2>1. FromDocument /\ Sees(val, path) /\ Parsed(val)
      BY DEF FInv, Sound
    <2>2. ASSUME path \in DOMAIN doc.at
          PROVE  /\ val = Value(doc.at[path].type, doc.at[path].start, doc.at[path].end)
                 /\ val.type = "String" => AsString(val) = doc.at[path].content
      <3> DEFINE w == doc.at[path]
      <3>1. Views(val, w)
        BY <2>1, <2>2 DEF Sees
      <3>2. w.end <= Len(text)
        BY <2>1, <2>2, AValue, Lengths
      <3>3. val.src /\ val.type = w.type /\ val.start = w.start /\ val.end = w.end
        BY <3>1, <3>2 DEF Views
      <3>4. val = Value(val.type, val.start, val.end)
        <4>1. ~NoValue.src
          BY DEF NoValue
        <4> QED
          BY <2>1, <3>3, <4>1 DEF Parsed
      <3>5. val = Value(w.type, w.start, w.end)
        BY <3>3, <3>4
      <3>6. val.type = "String" => AsString(val) = w.content
        BY <2>1, <2>2, <3>1, <3>2, <3>3, AsStringRead
      <3> QED
        BY <3>5, <3>6
    <2>3. path \notin DOMAIN doc.at => ~val.src
      BY <2>1 DEF Sees
    <2> QED
      BY <2>2, <2>3
  <1> QED
    BY <1>1, AlwaysFInv, PTL

(* A value read from a response that broke off (json.cpp:81-308) is the one   *)
(* written there: it begins where that begins and ends no later, and a string *)
(* is a prefix of what was said, but for a backslash that lost the character  *)
(* it escapes.                                                                *)
THEOREM CutResponsesNeverMislead == Spec => []CutNeverMisleads
  <1>1. FInv => CutNeverMisleads
    <2> SUFFICES ASSUME FInv, ~Whole, Plain, op = "none", val.type # "Null"
                 PROVE  /\ path \in DOMAIN doc.at
                        /\ val.start = doc.at[path].start /\ val.end <= doc.at[path].end
                        /\ val.type = "String" =>
                               LET read == AsString(val)
                                   written == doc.at[path].content
                               IN \/ read = <<"throws">>
                                  \/ IsPrefix(read, written)
                                  \/ Last(read) = Backslash /\ IsPrefix(Front(read), written)
      BY DEF CutNeverMisleads
    <2>1. FromDocument /\ Sees(val, path)
      BY DEF FInv, Sound
    <2> DEFINE w == doc.at[path]
               N == Len(text)
    <2>2. path \in DOMAIN doc.at /\ Views(val, w)
      BY <2>1 DEF Sees
    <2>3. val.type = w.type /\ val.start = w.start
      BY <2>2 DEF Views
    <2>4. val.end <= w.end
      <3>1. w.end \in Nat /\ N \in Nat
        BY <2>1, <2>2, AValue, Lengths
      <3>2. (w.end <= N => val.end = w.end) /\ (w.end > N => val.end \in {N, N + 1})
        BY <2>2 DEF Views
      <3> HIDE DEF w, N
      <3> QED
        BY <3>1, <3>2
    <2>5. val.type = "String" =>
               LET read == AsString(val)
                   written == doc.at[path].content
               IN \/ read = <<"throws">>
                  \/ IsPrefix(read, written)
                  \/ Last(read) = Backslash /\ IsPrefix(Front(read), written)
      BY <2>1, <2>2, <2>3, AsStringRead
    <2> QED
      BY <2>2, <2>3, <2>4, <2>5
  <1> QED
    BY <1>1, AlwaysFInv, PTL

(* arraySize() (json.cpp:310-328) counts the elements of an array, all of     *)
(* them in a whole response and no more than were written in one that broke   *)
(* off.                                                                       *)
THEOREM ElementsAreCounted == Spec => []CountsElements
  <1>1. FInv => CountsElements
    <2> DEFINE elements == {i \in 0..(SizeRange - 1) : Append(path, Element(i)) \in DOMAIN doc.at}
               n == Len(doc.at[path].items)
    <2> SUFFICES ASSUME FInv, Plain, op = "counted"
                 PROVE  IF Whole THEN count = Cardinality(elements) ELSE count <= Cardinality(elements)
      BY DEF CountsElements
    <2>1. /\ FromDocument /\ path \in Seq(Selections) /\ Scanned(path, "Array")
          /\ count <= n /\ (Whole => count = n)
      BY DEF FInv, Sound
    <2>2. n \in Nat /\ n < SizeRange /\ SizeRange \in Nat
      <3>1. n \in Nat /\ n < Len(doc.text)
        BY <2>1, ItemsApart DEF Scanned
      <3>2. Len(doc.text) < SizeRange /\ SizeRange \in Nat /\ Len(doc.text) \in Nat
        BY <2>1, SizeAssumption, Lengths DEF FromDocument
      <3> HIDE DEF n
      <3> QED
        BY <3>1, <3>2
    <2>3. \A i \in Nat : Append(path, Element(i)) \in DOMAIN doc.at <=> i < n
      <3> SUFFICES ASSUME NEW i \in Nat
                   PROVE  Append(path, Element(i)) \in DOMAIN doc.at <=> i < n
        OBVIOUS
      <3>1. ASSUME Append(path, Element(i)) \in DOMAIN doc.at
            PROVE  i < n
        <4>1. Element(i) \in Selections
          BY MembersAndElements
        <4>2. \E j \in 1..n : doc.at[path].items[j].by = Element(i)
          BY <2>1, <3>1, <4>1, ByItem
        <4>3. PICK j \in 1..n : doc.at[path].items[j].by = Element(i)
          BY <4>2
        <4>4. doc.at[path].items[j].by = Element(j - 1)
          BY <2>1, <4>3, AnItem DEF Scanned
        <4>5. j - 1 = i
          BY <4>3, <4>4, MembersAndElements
        <4> HIDE DEF n
        <4> QED
          BY <2>2, <4>3, <4>5
      <3>2. ASSUME i < n
            PROVE  Append(path, Element(i)) \in DOMAIN doc.at
        <4> DEFINE j == i + 1
        <4>1. j \in 1..n /\ j - 1 = i
          BY <2>2, <3>2
        <4> HIDE DEF j
        <4>2. Item(path, j) \in DOMAIN doc.at /\ doc.at[path].items[j].by = Element(j - 1)
          BY <2>1, <4>1, AnItem DEF Scanned
        <4> QED
          BY <4>1, <4>2 DEF Item
      <3> QED
        BY <3>1, <3>2
    <2> HIDE DEF n
    <2>4. elements = 0..(n - 1)
      BY <2>2, <2>3
    <2> HIDE DEF elements
    <2>5. Cardinality(elements) = n
      BY <2>2, <2>4, FS_Interval
    <2>6. count \in Nat
      <3>1. count \in 0..(SizeRange - 1)
        BY DEF FInv, IInv, TypeOK
      <3> QED
        BY <2>2, <3>1
    <2> QED
      BY <2>1, <2>2, <2>5, <2>6
  <1> QED
    BY <1>1, AlwaysFInv, PTL
=============================================================================
