----------------------------- MODULE RpcClient -----------------------------
(* The calls of RpcClient that post one request and take a value out of the   *)
(* response, over the transport: what a caller gets of what the server holds  *)
(* when the answer is whole, cut anywhere, or not an answer at all.           *)
(*                                                                            *)
(* A body is a sequence of units: digits, Base64 characters, and marks for    *)
(* the text around them.  What the JSON reader finds in the beginning of a    *)
(* body is taken from JsonReader, where it is checked: the beginning of the   *)
(* value that is written there, or nothing.                                   *)
EXTENDS HttpTransport, Base64, AddressLookupTable

CONSTANTS
    Calls  \* [method, held]: a call, and what the server has to answer

VARIABLES
    call,
    result  \* what the call did, and the value it returned

callVars == <<vars, call, result>>

Preamble == -1  \* everything before the value
Quote == -2
Open == -3      \* of an object or array
Shut == -4      \* of an object or number, with the comma after it
Nul == -5       \* the two parts of a null
NulEnd == -6
Rest == -7      \* everything after the value

-----------------------------------------------------------------------------
(* What the server writes (external).                                         *)

NumberMethods == {"getBalance", "getSlot"}
StringMethods == {"getLatestBlockhash", "sendTransaction", "requestAirdrop"}

WriteNumber(n) ==
    LET from[m \in Nat] == IF m < 10 THEN <<m>> ELSE from[m \div 10] \o <<m % 10>>
    IN from[n]

WriteString(characters) == <<Quote>> \o characters \o <<Quote>>

(* The data comes before the balance, as in test_json.cpp:186. *)
WriteAccount(account) ==
    IF account.exists
    THEN <<Open>> \o WriteString(Base64Encode(account.data)) \o WriteNumber(account.lamports) \o <<Shut>>
    ELSE <<Nul, NulEnd>>

(* The slots between the tag and the flag are not read.  *)
WriteTable(authority, addresses) ==
    [i \in 1..HeaderBase |-> IF i = 1 THEN 1 ELSE IF i <= TagLength THEN 0
                             ELSE IF i < HeaderBase THEN 255 ELSE Len(authority) \div KeyLength]
    \o authority \o FlattenSeq(addresses)

WriteValue(c) ==
    CASE c.method \in NumberMethods -> WriteNumber(c.held) \o <<Shut>>
      [] c.method \in StringMethods -> WriteString(c.held)
      [] c.method = "getAccountInfo" -> WriteAccount(c.held)
      [] c.method = "getAddressLookupTable" -> WriteAccount(c.held.account)
      [] c.method = "getMultipleAccountsInfo" ->
             <<Open>> \o FlattenSeq([i \in DOMAIN c.held |-> WriteAccount(c.held[i])])
      [] c.method = "raw" -> <<>>

ASSUME BodyAssumption == \A c \in Calls : Len(WriteValue(c)) < BodyLen

Body(c) ==
    LET written == <<Preamble>> \o WriteValue(c)
    IN [i \in 1..BodyLen |-> IF i <= Len(written) THEN written[i] ELSE Rest]

-----------------------------------------------------------------------------
(* How the calls read it.  seen is what there is of a value, which may have   *)
(* been cut.                                                                  *)

Returned(value) == [how |-> "returned", value |-> value]
Thrown == [how |-> "thrown"]
Hangs == [how |-> "hangs"]
Pending == [how |-> "pending"]

EndOfDigits(seen) == SelectInSeq(seen, LAMBDA u : u < 0)

Digits(seen) == UpTo(seen, EndOfDigits(seen))

AsUint(seen) ==
    LET upto[i \in 0..Len(Digits(seen))] == IF i = 0 THEN 0 ELSE 10 * upto[i - 1] + Digits(seen)[i]
    IN upto[Len(Digits(seen))]

Closed(string) == \E i \in 2..Len(string) : string[i] = Quote

QuoteIn(characters) == SelectInSeq(characters, LAMBDA u : u = Quote)

(* asString(): the last character of a cut string is taken for its quote; if  *)
(* that is the opening one, reserve() throws.                                 *)
AsString(string) ==
    IF Closed(string)
    THEN Returned(UpTo(Tail(string), QuoteIn(Tail(string))))
    ELSE IF Len(string) = 1 THEN Thrown
    ELSE Returned(Front(Tail(string)))

NoAccount == [exists |-> FALSE, lamports |-> 0, data |-> <<>>]

(* A value that is there, and is not null, is an account; a member that is    *)
(* missing leaves its field as it was.                                        *)
ParseAccountInfoNode(seen) ==
    LET string == Tail(seen)
        text == AsString(string)
    IN IF seen = <<>> \/ Head(seen) # Open THEN Returned(NoAccount)
       ELSE IF string = <<>> THEN Returned([exists |-> TRUE, lamports |-> 0, data |-> <<>>])
       ELSE IF text.how = "thrown" THEN Thrown
       ELSE Returned([exists |-> TRUE,
                      lamports |-> IF Closed(string)
                                   THEN AsUint(SubSeq(string, Len(text.value) + 3, Len(string)))
                                   ELSE 0,
                      data |-> Base64Decode(text.value)])

ItemStart(items, i) == Len(FlattenSeq([j \in 1..(i - 1) |-> items[j]]))

(* What there is of each item of a list of which the beginning is there. *)
Seen(items, seen) ==
    [i \in {j \in DOMAIN items : ItemStart(items, j) < Len(seen)} |->
        LET start == ItemStart(items, i)
            end == start + Len(items[i])
        IN SubSeq(seen, start + 1, IF end < Len(seen) THEN end ELSE Len(seen))]

(* Accounts that are not found are passed over. *)
ParseList_SkipsMissing(infos) == Returned(SelectSeq(infos, LAMBDA info : info.exists))

ParseList(infos) == Returned(infos)

(* One AccountInfo per element.  arraySize() never returns if the text ends   *)
(* within a null: see JsonReader.Returns.                                     *)
ParseAccounts(c, seen) ==
    LET items == Seen([i \in DOMAIN c.held |-> WriteAccount(c.held[i])], Tail(seen))
        parsed == [i \in DOMAIN items |-> ParseAccountInfoNode(items[i])]
    IN IF seen = <<>> THEN ParseList(<<>>)
       ELSE IF \E i \in DOMAIN items : items[i] = <<Nul>> THEN Hangs
       ELSE IF \E i \in DOMAIN items : parsed[i].how = "thrown" THEN Thrown
       ELSE ParseList([i \in DOMAIN items |-> parsed[i].value])

(* "Returns false if not found or not a valid ALT." *)
TableOf(info) == IF ~info.exists \/ info.data = <<>> THEN Rejected ELSE ParseTable(info.data)

ParseLookupTable(info) ==
    IF info.how = "thrown" THEN Thrown ELSE Returned(TableOf(info.value))

-----------------------------------------------------------------------------
(* What the server may hold (external).  Its numbers are u64, which strtoull   *)
(* reads without reaching its limit.                                          *)

Accounts == {NoAccount} \cup [exists : {TRUE}, lamports : Nat, data : Seq(0..255)]

TableKeys == [1..KeyLength -> 0..255]

(* There is no account, or its data is not laid out as a table. *)
HoldsNoTable(account) ==
    LET data == account.data
        Fits(n) == Len(data) = HeaderBase + (IF data[HeaderBase] = 1 THEN KeyLength ELSE 0) + n * KeyLength
    IN \/ ~account.exists
       \/ Len(data) < HeaderBase
       \/ data[1] # 1 \/ \E i \in 2..TagLength : data[i] # 0
       \/ \A n \in 0..Len(data) : ~Fits(n)

(* The account of a table, and what the call should make of it. *)
HoldsTable(held) ==
    /\ held.account \in Accounts
    /\ \/ /\ held.table = Rejected
          /\ HoldsNoTable(held.account)
       \/ /\ held.table = [ok |-> TRUE, addresses |-> held.table.addresses]
          /\ held.table.addresses \in Seq(TableKeys) /\ held.authority \in {<<>>} \cup TableKeys
          /\ held.account.exists
          /\ held.account.data = WriteTable(held.authority, held.table.addresses)

ASSUME CallsAssumption ==
    \A c \in Calls :
        \/ c.method \in NumberMethods /\ c.held \in Nat
        \/ c.method \in StringMethods /\ c.held \in Seq(Nat) \ {<<>>}
        \/ c.method = "getAccountInfo" /\ c.held \in Accounts
        \/ c.method = "getMultipleAccountsInfo" /\ c.held \in Seq(Accounts)
        \/ c.method = "getAddressLookupTable" /\ HoldsTable(c.held)
        \/ c.method = "raw"

-----------------------------------------------------------------------------
(* The result of a call.                                                      *)

(* What is no string is read as an empty one. *)
ParseString_AnyNode(c, seen) == IF seen = <<>> THEN Returned(<<>>) ELSE AsString(seen)

(* An answer that is no string, or an empty blockhash, is an error. *)
ParseString(c, seen) ==
    IF seen = <<>> \/ (c.method = "getLatestBlockhash" /\ AsString(seen) = Returned(<<>>))
    THEN Thrown ELSE AsString(seen)

(* seen is empty if the body has no value where one is looked for. *)
Parse(c, seen) ==
    CASE c.method \in NumberMethods -> Returned(AsUint(seen))
      [] c.method \in StringMethods -> ParseString(c, seen)
      [] c.method = "getAccountInfo" -> ParseAccountInfoNode(seen)
      [] c.method = "getAddressLookupTable" -> ParseLookupTable(ParseAccountInfoNode(seen))
      [] c.method = "getMultipleAccountsInfo" -> ParseAccounts(c, seen)
      [] c.method = "raw" -> Returned(received - HeaderLen)

(* The value as far as it was received; an error response has none. *)
SeenValue ==
    IF reply = "rejection" \/ received <= HeaderLen THEN <<>>
    ELSE Tail(SubSeq(Body(call), 1, received - HeaderLen))

CallInit == Init /\ call \in Calls /\ result = Pending

(* Nothing but confirmTransaction catches what the transport throws. *)
EndCall ==
    /\ result.how = "pending"
    /\ \/ pc = "returned" /\ result' = Parse(call, SeenValue)
       \/ pc = "thrown" /\ result' = Thrown
    /\ UNCHANGED <<vars, call>>

CallNext == (Next /\ UNCHANGED <<call, result>>) \/ EndCall

CallSpec == CallInit /\ [][CallNext]_callVars /\ WF_vars(Client) /\ WF_vars(Server)

-----------------------------------------------------------------------------
(* Properties.                                                                *)

Did(methods) == call.method \in methods /\ result.how = "returned"

WholeAnswer == reply = "answer" /\ received = Total

(* What the call should return.  *)
Held ==
    CASE call.method = "raw" -> BodyLen
      [] call.method = "getAddressLookupTable" -> call.held.table
      [] OTHER -> call.held

(* A whole answer is returned as the server meant it: through the JSON        *)
(* members, Base64 and the parser of lookup tables (rpc_client.cpp:279-454,   *)
(* address_lookup_table.cpp:22-65).                                           *)
WholeAnswersExact ==
    WholeAnswer /\ result.how # "pending" => result.how = "returned" /\ result.value = Held

(* A string comes out of a call only if the server executed the request, and  *)
(* is the signature or the blockhash, or the beginning of it if the answer    *)
(* was cut: no error response, cut or not, is taken for success               *)
(* (rpc_client.cpp:279-306, 396-408).                                         *)
StringMeansExecuted ==
    Did(StringMethods) => executed /\ IsPrefix(result.value, call.held)

AccountBelow(info, account) ==
    info.exists =>
        /\ account.exists
        /\ info.lamports <= account.lamports
        /\ IsPrefix(info.data, account.data)

(* What goes wrong on the way only ever takes something away: no balance,     *)
(* slot or account that is returned exceeds what the server holds, the i-th   *)
(* account is the one of the i-th key, and the addresses of a table are the   *)
(* first ones it has, so that an index into them is one into the table on the *)
(* chain.  (Data with a piece of an address at the end is no table, but its   *)
(* beginning may pass for one.)                                               *)
(* (rpc_client.cpp:320-385, address_lookup_table.cpp:37-62)                   *)
NeverMoreThanHeld ==
    /\ Did(NumberMethods) => result.value <= call.held
    /\ Did({"getAccountInfo"}) => AccountBelow(result.value, call.held)
    /\ Did({"getMultipleAccountsInfo"}) =>
           /\ Len(result.value) <= Len(call.held)
           /\ \A i \in DOMAIN result.value : AccountBelow(result.value[i], call.held[i])
    /\ Did({"getAddressLookupTable"}) /\ result.value.ok /\ call.held.table.ok =>
           IsPrefix(result.value.addresses, call.held.table.addresses)

=============================================================================
