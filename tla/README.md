# SolanaCppSDK in TLA+

A model of the Solana C++ SDK in `src/`: how it compiles instructions into
messages, collects signatures, searches program addresses, talks to an RPC
server and waits for a transaction to be confirmed.  TLC checks every module on
small instances; TLAPS proves the main invariants for all instances.

## The system

The SDK is a synchronous C++17 library without threads of its own.  A caller
builds `Instruction`s, compiles them with a recent blockhash into a `Message`
or a `MessageV0`, wraps that in a `Transaction` or `TransactionV0`, signs it
with `Keypair`s, serializes it to Base64, sends it with `RpcClient` and polls
until it is confirmed.

| Component | State | Operations | Hard behaviour | Correct when |
|---|---|---|---|---|
| `MessageV0::compile` (`message_v0.cpp`) | static account list with flags, lookup registrations, per-table index buckets, combined key list | findOrAddStatic, findInLookup, findOrAddLookup, four ordering passes, header, combined list, index resolution | one account mentioned several times with different flags, in tables and outside; bytes that wrap | the validator, which sees only header, keys, indexes and lookups, gives every account the role the instructions asked for |
| `Message::compile` (`message.cpp`) | three parallel vectors | findOrAdd, header counts, index search | no sorting | same, without tables |
| `Transaction`, `TransactionV0` (`transaction.cpp`) | signature slots | construct, sign (repeatedly) | several calls, wrong keypairs, calls that throw | each slot holds its own account's signature; nobody's is lost |
| program addresses (`publicKey.cpp`) | bump counter | findProgramAddressSync | counting a byte down past zero | the canonical bump is returned |
| HTTP transport (`rpc_client.cpp` 38-235) | descriptor, addrinfo, TLS objects, bytes left | httpPost, httpsPost, rpcPost | partial sends, cut responses, errors at every step | resources are released on every path; a body is complete |
| RPC calls (`rpc_client.cpp` 279-454) | none but the response | one request and response each | error responses, null values, truncated JSON | a failure is reported, never taken for data |
| confirmation (`rpc_client.cpp` 410-430) | clock, last answer | poll, sleep, time out | races between the cluster, the answer and the deadline | `true` and `false` mean what they say; the call returns |
| JSON reader (`json.cpp`) | a cursor in the response | parse, operator[], arraySize, asString | escapes, unterminated input | the cursor moves on, and finds the value a JSON reader should find |
| wire format (serializers, compact-u16, Base64) | output buffer | serialize, toBase64 | length prefixes | what is written decodes to the message |
| lookup table parser (`address_lookup_table.cpp`) | offset | parse | header with and without authority | the addresses are those of the account |
| Base58 and `PublicKey` (`base58.cpp`, `publicKey.cpp`) | digit buffers | encode, decode, construct from text, bytes and number | leading zeros, the size of the buffer | a key survives its text; a text that is no key throws |
| keypairs, BIP39 (`keypair.cpp`, `bip39.cpp`) | two arrays | libsodium calls and copies | - | libsodium is called as it wants to be |
| instruction builders (`programs/`) | none | lay out data and account flags | key literals in the source; integers of three widths | the program on the chain reads the arguments back |
| examples (`transfer_sol.cpp`, `spl_token_transfer.cpp`) | the signature, the blockhash, a flag | fund, look up, sign, send, wait | failures that are swallowed; requests executed though their answer is lost | what is printed is true; nothing is sent before it is funded |

Components call each other directly; there are no threads, callbacks or shared
state.  What is concurrent is outside: the cluster, the RPC server and other
users of the accounts go on while the client waits or does something else.

## Modules

| Module | Models |
|---|---|
| `AccountKeys` | what both compilers share: find-or-add with growing flags, the canonical order, the header counts |
| `Runtime` | external: how a validator reads a message (account list, who signs, what is writable) |
| `MessageV0` | `MessageV0::compile`, one loop iteration per action |
| `Message` | `Message::compile` |
| `Signing` | signature slots and `sign()`, the same code in both transaction classes |
| `Transaction`, `TransactionV0` | compile, construct and sign, composed |
| `Wire` | the four serializers and both length encoders; external: how a validator reads what they write |
| `Base64` | the encoder of `transaction.cpp` and the decoder of `rpc_client.cpp` |
| `Base58` | `encode` and `decode` with their digit loops |
| `PdaSearch` | `findProgramAddressSync` |
| `Instructions` | all eighteen instruction builders |
| `Programs` | keys read from text, an address searched, a builder called: `Base58`, `PdaSearch` and `Instructions`, composed; external: how the program on the chain reads the data |
| `HttpTransport` | `rpcPost`: `httpPost` and `httpsPost`, one call per action, against a server and a network |
| `RpcRequest` | what a caller may rely on when it posts a request; `HttpTransport` implements it |
| `AddressLookupTable` | `AddressLookupTableAccount::parse` |
| `RpcClient` | the calls of `RpcClient` that post one request, over `HttpTransport`: what each makes of a response that is whole, cut, or an error |
| `JsonDocument` | external: how a server writes JSON, and where each value of a document lies in its text |
| `JsonReader` | `json::JsonValue`: parse, `operator[]`, `arraySize`, `asString` |
| `ConfirmTransaction` | `confirmTransaction` against a cluster and a server |
| `Submission` | `main()` of `transfer_sol.cpp` and `spl_token_transfer.cpp`, with `ConfirmTransaction` once or twice in it |
| `MC_*` | instances for TLC |
| `ListProofs`, `TransactionLemmas` | lemmas: about numbers and lists; about the account list, the signature slots and the wire format |
| `TransactionProofs`, `TransactionV0Proofs`, `ProgramsProofs`, `RpcClientProofs`, `JsonReaderProofs`, `SubmissionProofs` | theorems |

Composition: `Transaction` is `Message` + `Signing` + `Wire`; `TransactionV0` is
`MessageV0` + `Signing` + `Wire`; `RpcClient` is `HttpTransport` + `Base64` +
`AddressLookupTable`; `Programs` is `PdaSearch` + `Instructions` + `Base58`;
`Submission` is `ConfirmTransaction` with the rest of `main()` around it.
`HttpTransport` implements `RpcRequest` through the mapping in its last section.

### How the modules correspond to the code

*Compilers.*  The functions are sequential and deterministic.  Their input, the
instruction list, is revealed account by account as the loop reads it, so every
list within the bounds is one behaviour, and the invariants also hold between
iterations.  `pc` names the part of the function that runs; `pass` and `cursor`
are its loop variables.  A public key is a model value; instruction data is left
out.  The result `msg` has the fields of the message, and the properties look
at it through `Runtime`, that is, as the validator would.  `Keys`, the tables
and the width of a byte (`ByteRange`) are constants, so that a wrap is reached
with a handful of keys.

*Signing.*  A signature is the key that made it, because all signatures of a
transaction are over one serialized message, which never changes after
construction.  `SignNext` is one iteration of the loop over signers;
`SignThrows` is a call without signers or with a blockhash that does not decode.
Both classes sign the message body; `TransactionV0` writes the version prefix
0x80 only when serializing (`transaction.cpp:97-98`, `129-130`).

*Wire format.*  Buffers are sequences of bytes in which a key, a signature and
the blockhash stand as one value each, since their width never varies; lengths
are encoded for real, with `HighBit` for 0x80.  All instructions carry the same
data.  The reader is written from the layout a validator expects, with a single
length decoder for what the code writes with two different encoders.

*Program addresses.*  SHA-256 and the curve test are an arbitrary set of bumps
that derive a valid address, fixed before the search starts.

*Keys and builders.*  `Encode` and `Decode` are the code's two digit loops over
bytes 0..255 and 58 digits; only the length of a key (`KeyLength`) is small.  A
text is a sequence of places in the alphabet, with `Foreign` for a character
outside it.  `PublicKeyFromText` is the constructor, which throws unless there
are exactly 32 bytes.  A key that a builder spells out is a number of its own,
encoded (`KnownText`), since the literals other than the one for the recent
blockhashes do decode to 32 bytes; that one has a letter `l` and does not.
Integers are written with their widths of 1, 4 and 8 bytes; `ByteRange` is the
number of values of one byte.  The reader is external.  It takes a string's
length from four bytes, as the code writes it; whether the program on the chain
expects eight there, and what else it demands of accounts, nothing in the
repository decides.

*Transport.*  Each action is a call to the system or to OpenSSL, with what the
code does until the next one; a call that may fail has a second action for
that.  Bytes are counted.  `resources` remembers what each of the four resources
has gone through, so that a leak, a double release and a use outside its life
can be told apart.  The server may execute the request as soon as it has all of
it, answer something else at any time, and write, close or be cut at any byte.
A request that is cut can still be executed.  A second write to a connection
that is gone may raise SIGPIPE, which nothing masks: the process is killed.
With `SOLANA_SDK_NO_TLS`, `httpsPost` throws before it acquires anything; that
build has the same behaviours as plain TCP.

*RPC calls.*  `RpcClient` runs on the transport, so a response ends wherever the
transport ended it, and `EndCall` is the code after `rpcPost`.  A body is a
sequence of units: a digit, a Base64 character, or a mark for the text around
values.  What the JSON reader finds in the beginning of a body is not modelled a
second time: `JsonReader` shows (`CutNeverMisleads`) that it is the beginning of
the value written there, or nothing, and `Parse` starts from that.  It models
what the calls do with it: a missing number is 0, the last character of a cut
string is taken for its closing quote, `reserve()` throws if that is the opening
one, a value that is not null is an account, Base64 stops at the first foreign
character.  Lookup table data goes through `Base64` and `AddressLookupTable`,
whose layout is that of the comments in `address_lookup_table.cpp`.

*JSON.* A document comes with the place of each of its values, so that what the
reader finds is compared with where things were written and not with another
parser.  `JsonDocument` says what documents there are, of any nesting: where the
items of each object and array stand and what parts them, how a string is
written, that no two spans overlap, and that a quote, a backslash or a bracket
belongs to one of them.  It is JSON with two restrictions: the keys of an object
differ, and an escape stands for one character.  A character is itself, but a
literal (`true`, `false`, `null`) is one character, and so is each part of a
number.  `x` is a broken-off literal or anything else no rule consumes.  Reading
a key, and reading the value after it, are two actions of one iteration.  `\u`,
`\b` and `\f` escapes, which `asString` copies without their backslash, are left
out.

*Confirmation.*  Time is an integer that moves only where the program waits: in
a request or in the sleep.  The server reads the status at one moment of a
request; the answer may arrive later or not at all.  The cluster lands,
advances or drops the transaction at any moment.  `faults` remembers whether a
request failed or the transaction was dropped, for the properties that promise
something only without them.  The code looks at `confirmationStatus` and at
nothing else in a status, so a transaction that landed and failed is confirmed
here, as it is there.

*Examples.*  An action of `Submission` is one call of `main()` and what is done
with its result.  A call can fail before or after its request was executed, and
be answered with the whole or with the beginning of an answer; this is what
`RpcClient` returns, in three cases.  `watched` says that the signature that is
awaited, or the blockhash that is signed, is whole.  `ConfirmTransaction` runs
for the airdrop and again for the transfer; when the second begins, its cluster
variables start afresh, and what became of the airdrop moves on in `funds`.
Others may create or close the token account at any time before the transfer.
The server's preflight is external: it wants a known blockhash, a funded sender,
and an account that is there exactly if the transfer does not create it.

## Runs

| Run | Shows |
|---|---|
| `MessageV0_safety` | what a compiled versioned message grants and refers to, over two overlapping tables and wrapping indexes |
| `MessageV0_upgrade` | *violation*: the "upgrade writability" of a looked-up account has no effect (`message_v0.cpp:96`) |
| `MessageV0_overlap` | *violation*: an account resolvable in a table can be static as well as looked up (`message_v0.h:27-29`) |
| `Transaction_safety` | legacy compile, sign and serialize |
| `Message_order` | *violation*: a legacy message does not put signers first (`message.cpp:17`) |
| `TransactionV0_sign` | signatures of a versioned transaction over several calls of `sign()`, that passed signers do sign, and that what is sent is read back |
| `RpcClient` | each call over the transport: resources, sending, receiving and the abstract request; whole answers are returned exactly, a string means the request was executed, and what is cut only ever takes something away; that a post ends |
| `JsonReader` | what a path leads to, in whole documents and in cut ones; array sizes; that accesses return |
| `JsonReader_escape` | *violation*: `arraySize()` of `["\\"]` never returns (`json.cpp:67`, against `rpc_client.cpp:238-239`) |
| `Programs` | keys survive their texts, the encoder's buffer is large enough, the search ends with the canonical bump or because there is none, and what a builder writes is read back |
| `Programs_nonce` | *violation*: `advanceNonceAccount`, `withdrawNonceAccount` and `initializeNonceAccount` always throw (`system_program.cpp:31`, against `system_program.h:63-76`) |
| `Submission` | both examples, with every request failing, cut or executed with its answer lost: what `true` and `false` of a wait mean, the overshoot, what is printed, the order of funding and sending, the account that is created; that `main()` exits |

A wait that ends with `false` does not mean that the transaction is not
confirmed: one that is confirmed in the last interval, after the last poll, is
answered with `false`, which "returns true if confirmed within timeout"
(`rpc_client.h:91-92`) does not lead one to expect.  `FalseMeansMissed` is what
remains true: without failures, `false` means that the transaction had not
landed early enough for a poll to see it.

`JsonReader_escape` is one of three things that go wrong in `json.cpp` and that
the preconditions of `JsonReader` (`Plain`, no `x`) leave out: a string that ends
in a backslash makes the view of every value around it end too late, and then
`operator[]` can miss what follows; and `arraySize()` of an array cut within
`true`, `false` or `null`, which the transport hands on as a whole response,
does not return either.

The violation of `Message_order` has a consequence for `sign()`: a required
signer behind a non-signer has no slot, and its keypair is passed over without
an error (`transaction.cpp:46`).  `SignersMatchedWhenCanonical` is what remains
true.  `FlagsAddUp` and `IndexesResolve` of `Message` hold in any order, and so
does `SlotsOwned` of `Transaction`; the last two are proved and checked by no run.

### Bounds

* Compilers: two instructions with three accounts between them.  Two mentions
  of one account with different flags, a third account whose place they
  change, and a second instruction are what the hazards need; a fourth mention
  repeats one of these.  `ByteRange` is 4 (`MessageV0_safety`, with five keys
  and two overlapping tables) or 3 (`Transaction_safety`), so that signers wrap
  the header, a five-address table wraps an address index, and five keys wrap a
  combined index.  Where wrapping is not the question it is large enough never
  to wrap: 4 in `TransactionV0_sign`, where at most four keys are static and a
  table has one address.
* Signing: two calls with up to two keypairs each, from the payer's and two
  other keys, so that a required keypair can come early, late, twice or not at
  all.  `TransactionV0_sign` takes one instruction with two accounts, so that
  keys are static or looked up, and signers or not.
* Wire format: `HighBit` is 2 or 3, so that lengths of two and three need two
  bytes; the transactions' own encoder, which stops after two, is in its range
  as it is in the code (at most 255 signatures).  That range is
  `SignatureCountAssumption`: a byte has no more values than two groups of bits
  can say, 256 against 128 * 128 in the code, 4 against 2 * 2 in the run.
* `RpcClient`: a request of two bytes, sent in one or two parts, a header of two
  and a body of 21 units, cut before, inside and after each of them.  Numbers
  with one to three digits; strings of one and three characters; accounts with
  data of zero to four bytes, so that Base64 ends with two, one and no padding
  characters; lookup tables with and without an authority, of zero to two keys
  of two bytes after a header of three, and six that are none (missing, empty,
  too short, a wrong tag, cut in the authority and in an address); lists of
  accounts with zero to three elements, some of them null.
* `JsonReader`: documents up to two levels deep, with one to three values per
  level, with and without spaces, every cut, and paths of up to two selections.
  The strings hold quotes, both kinds of closing braces, escapes and backslashes.
  A nested value, a sibling before it and one after it are what the scanners can
  confuse.
* `Programs`: bumps 0..4 stand for 0..255, with every set of off-curve bumps.
  Keys have two bytes (zeros in front, behind, everywhere, and the largest).
  A byte of a number has 13 values so that the largest u64, 13^8-1, stays in
  TLC's integers; numbers are 0, one that carries into the second byte, and the
  largest.  Seeds are empty or of five characters.  Texts that are no key are
  empty, too short, too long, too large, or have a foreign character.
* `Submission`: a timeout of 12 ticks, an interval of 3 and a latency of up to 3
  give several polls and a deadline inside a sleep, inside a request, and
  between them.  The assumption that timeout, interval and latency together
  stay below `UintRange` excludes timeouts in the last seconds before 2^32 ms,
  where the narrowed clock would wrap.

### Fairness

* `Programs`: the loop of the search runs.
* `RpcClient`: the client's thread runs, and the server or the network goes on,
  so that in the end the connection is closed or cut ("Connection: close" is in
  the request).  No timeout of the client stands in for that.
* `JsonReader`: a function that was called runs.
* `Submission`: the program's thread runs, the server answers or the
  request fails within `MaxLatency`, and time passes while the program waits.
  The code sets no socket timeout, so that requests end is a property of the
  network, not of the program.  Nothing is assumed of the cluster.

The compiler and signing runs assume no fairness: they check safety.

## Proofs

Every theorem holds for all values of the constants that satisfy the named
assumptions:

* `KeysAssumption` (both compilers): what can be a program or pay is a key; the
  entries of a lookup table are keys, and two table records with one table key
  have the same entries, since an address has one content on the chain.
* `ByteAssumption`, `WireAssumption`, `SignatureCountAssumption`: a byte has at
  least one value, a length byte at least two before its continuation mark, and
  the number of signatures, itself a byte, fits two length bytes.
* `SigningAssumption`: no key is the mark of an empty slot.
* `BumpAssumption`, `LengthAssumption`, `SizeAssumption`: bumps are numbers;
  a request and a response header are not empty; a document is shorter than
  the range of `size_t`.
* `DocumentAssumption`, `KeyAssumption`: what a server writes is a document in
  the sense of `JsonDocument`, and a key that is looked up is a text.  Nothing is
  assumed of where a document is cut.
* `RangeAssumption`: a key is not empty, and a byte of a number has more values
  than the largest tag of an instruction, 12.  `RequestAssumption`: a request to
  a builder has what the compiler checks, a key per key parameter and a number
  of the right width per number parameter, a seed of bytes whose length fits its
  four bytes, and texts of any characters.  `Means` ties each text to the key it
  is the Base58 of, or to none.
* `TimeAssumption`: timeout, interval and latency stay below the clock's range.
* `CallsAssumption`: what the server holds is of the kind the call asks for: a
  number, a string that is not empty, an account with any balance and any bytes,
  a list of accounts, or an account that either is the layout of a lookup table
  with any authority and addresses, or is not one.  `LayoutAssumption`: keys, the
  tag and the header of such a table are not empty, and the flag in the header
  comes after the tag.  `BodyAssumption`: the response is long enough for the
  value in it.

The prover cannot instantiate the library's induction theorems, which take an
operator.  `ListProofs` goes round that: from the well-foundedness of `<` on the
naturals it has that a set of numbers with 0 in it and n + 1 for each of its n
is all of them (`AllNumbers`), and from that, that a function defined by
recursion exists and obeys its equation (`RecursionExists`; `SearchExists` and
`RoundsExist` for loops).  What an encoder or a scanner computes is then a
function to which ordinary lemmas apply, and the definitions in the modules are
recursive functions or folds.

* `ListProofs` also has the lemmas about lists put together: flattened lists,
  the first lists of many (`FirstLists`), beginnings and rests.
* `TransactionLemmas` is what both kinds of transaction share.  About the account
  list: a linear search finds the first index (`FirstIndexIsFirst`), find-or-add
  keeps keys apart and adds exactly the flags of one mention
  (`FindOrAddProperties`), a downward closed set of positions is a prefix
  (`PrefixExists`), and the header of a list sorted by pass counts its parts
  (`SortedCounts`).  About `sign()`: a slot is empty or holds its own key's
  signature (`OwnSlots`), and a key tried in a call has its slot filled
  (`TriedSigned`).  About the wire format: a length of any size is read back, with
  the bytes after it (`LengthReadsBack`, by induction over its groups of bits),
  and so is each part of a message behind whatever is written before it
  (`ValuesReadBack`, `InstructionsReadBack`, `LookupsReadBack`), then the whole
  (`MessageReadsBack`, `TransactionReadsBack`, `TransactionV0ReadsBack`).
* `TransactionProofs`, about the legacy compiler and what is signed: `MessageInv`
  has the accounts collected so far with exactly the flags asked for, and what
  `msg` was made from them.  From it, `FlagsAreExact`; `IndexesAreRight` (every
  index resolves to the key that was named, as long as no index wraps); and
  `CanonicalIsExact`: *if* the keys happen to be in the canonical order and
  nothing wraps, the validator grants each account exactly what was asked.
  `SlotsAreOwned` and `CanonicalSignersMatched` add `SigningInv`.
  `TransactionIsReadBack`: what is sent is what was compiled and signed.
* `TransactionV0Proofs`, the versioned compiler: `TypeCorrect` rests on `Shape`,
  which adds to `TypeOK` that bucket indexes stay inside their table (or the
  combined list would be read from nowhere) and where the loops are.
  `SignersComeFirst`, `FeePayerComesFirst` and `StaticWritesAreGranted` rest on
  `IInv`, which needs three more parts.  `Collected`: the static list starts with
  the fee payer, has no key twice, and its flags are exactly what was asked so
  far.  `InOrder`: the ordered list holds exactly the entries the passes have
  come to (`Taken`), each once, sorted by pass, and keeps the fee payer in front:
  the first entry of the first pass.  `HeaderBuilt`: the header counts the
  ordered list.  From a sorted list, the signers are a prefix, and its length is
  the header's count; the fee payer is in it and not among its readonly members.
  `CompileNeverThrows` rests on `Reach`, which follows a key from its mention to
  its index: whatever an instruction names is static or in a bucket
  (`Requested`), a bucket entry that was appended is in the combined list
  (`Bucketed`, `Combined`), and a key in the combined list is found there
  (`Indexed`).
* The lookup section, in the same module: `Answered` adds the other direction,
  that nothing is there that was not asked for.  `WritesAsked`: a static entry is
  writable because a mention says so.  `Filled`: a bucket has the indexes of
  registrations that mentions ask for, none of them twice, and a writable one
  only because of a writable mention.  `Assembled`: the combined list is the
  static keys, then every table's writable keys, then every table's readonly
  ones, which is the order in which the validator loads them even though the
  section lists both kinds table by table.  So the list in which the code looks
  for an index is the validator's, and `IndexesAreResolved` (an index that has not wrapped
  leads the validator to the key that was named), `WritesNotEscalated` (an
  account can be written only if an instruction asked for it) and
  `AccountsListedOnce` follow; the last two as long as no count and no table
  address wraps.
* The versioned transaction: `CompilerRuns` says that compile, construct and
  sign have the behaviours of the compiler, so that everything above holds of a
  transaction.  `SlotsAreOwned`, `SignaturesAreKept` (no later call takes a
  signature back, whether or not it throws), `SignersAreMatched` (the slots of
  the passed signers are filled, which needs that signers come first) and
  `TransactionIsReadBack`.
* `ProgramsProofs`, the search: type correctness and `CanonicalBump`; the
  invariant (`IInv`) says that no bump above the loop variable derives an address.
  `ProgramInv` carries it through the steps around the search and adds what
  those keep: the keys are the ones read from the request, none is missing where a
  builder is called, and what is kept is what the builder did.  The theorems below
  are this invariant and lemmas about what the operators compute.
* Base58, in the same module.  `KeysAreReadBack` needs that the two conversions
  are inverse (`RebaseBack`).  One round keeps the worth of the digits
  (`OneRound`), whatever is carried out of it, so that after all rounds the digits
  in one base are worth what those in the other were (`DigitsWorth`); of the
  digits of a number with no zero in front there is only one sequence
  (`OneNumeral`); and the zeros in front, worth nothing, are counted and put back
  (`ZerosPutInFront`, `RebasedIs`).  The prover does no arithmetic with a
  variable base, so that the lemmas of one round are by cases on 58 and 256.
  `EncodingFits` compares powers: 256^19 is at most 58^26, so that each 19 bytes
  need at most 26 digits more, and the up to 18 bytes left over are tabled
  (`PowersOfAllLengths`); this is where 137/100 and the one for rounding come
  from.  Its lemma, `EncodedFits`, is for inputs of every length.
* The builders, in the same module.  `InstructionsAreReadBack` is proved field by
  field: a number that fits its width is the sum of the bytes shifted out of it
  (`UintReadBack`), a field that was written is read wherever it is in the data
  (`FieldReadBack`), and fields read in some data are read with one more written
  behind (`OneMoreReads`).  Each builder is then one lemma that names its accounts
  and its fields; `RecentIsNoKey` makes the three nonce builders throw, since a
  text with a foreign character is no key whatever comes before it.
* `RpcClientProofs`, the transport: type correctness, `ResourcesReleased`,
  `SentOnce`, `WholeUnlessCut`, and the refinement, `ImplementsRequest`.
  `Ownership` says exactly which resources are held at each call, which makes
  every throwing path one case of a lemma (`ThrowReleases`: it releases what is
  held).  `Replied` ties the reply to the execution and to the whole request,
  which is why a body long enough to have a header can be mapped to `Answer` or
  `Refuse`.  The calls over it: `CallsUseTransport` carries all of that over to
  `RpcClient`, and `StringsMeanExecution` says that a call that returns a string
  has been executed, however its answer was cut; it rests on `Parsed` (the value
  was parsed from what was received of the body) and on what the beginning of a
  string looks like to the reader.
* What the other calls return, in the same module: `WholeAnswersAreExact` and
  `NothingIsMadeUp`, for everything a server can hold and wherever the
  connection ends.  `SeenBeginsValue` says what the parser can be given: the
  beginning of the value as it was written, whole only if the answer is; it needs
  the last part of `Progress`, that whoever throws has not got past the header.
  What becomes of such a beginning has one lemma per kind of value, each
  resting on the one before.  `NumberOfCut`: the digits that are there are the
  first ones, and `10 * n + d` never makes a prefix larger than the whole.
  `AsStringOfCut`: a string that is not closed loses its last character.
  `Base64OfCut`: what decodes is a prefix of the data.  Its invariant
  (`Decoded`) follows the decoder from character to character: after the i-th,
  the bytes whose bits are complete are out, and the six, four or two bits left
  over are the lowest ones of the accumulator, whatever has been lost above the
  fourteenth (`BitsOfCharacter`); the encoder is described by the bits of its
  characters (`EncodingHasItsBits`).  `AccountOfCut` puts these together: an
  account cut in its data has no balance, cut in its balance has all its data.
  `ItemsOfCut` cuts a list: its accounts are whole up to the one in which the cut
  lies, and that one is cut.  `TableOfCut`: rows of the table are addresses, so
  that a prefix of its data is rejected or has the first ones.
* `JsonReaderProofs`: `CursorStaysInText`, for every document, every cut of it
  and every path.  `TypeOK` is not inductive: a cursor stays in the text only
  because the scanners never leave the view they are called on and a view never
  leaves the one it was cut from, which is `Viewed`.
* What the reader finds, in the same module, for documents of any nesting and
  length: `FindsWhatIsWritten`, `CutResponsesNeverMislead`, `ElementsAreCounted`.
  The scanners come first.  A string is closed where its last mark is
  (`QuoteFound`): the search goes from mark to mark, by induction over them, and
  no quote before is without a backslash in front.  A bracket is closed where its
  value ends (`BraceFound`).  `findMatchingBrace` counts quotes and brackets, and
  knows nothing of strings and values; `QuotesEven` pairs the two quotes of each
  string begun so far, so that their number is even exactly outside strings, and
  `BracesMatch` sets each inner value's closing bracket against its opening one,
  by an injection, so that no sooner bracket balances.  Here `Plain` is needed.
  With `AfterAValue` for numbers, `ValueRead` is one lemma for all values:
  `ParseValue` at one gives that value, its beginning if the text breaks off, or
  nothing.  `AsStringRead` is the same for what a string says, with its three
  outcomes where it is cut.
* The loops over items, in the same module.  `KeyRead`, `ItemRead` and
  `ItemPassed` are one iteration each: from before one item to before the next,
  or past the cut, from where nothing more is read (`CutStays`).  A key matches
  only if it is the one looked up, and not if it begins like it.
  The invariant, `FInv`, adds to `IInv` what the text is cut from and `Sound`:
  the view is of the value its path leads to; while a scan runs, the cursor is
  before an item, no key before it is the one looked up, and the count is the
  number of items before it.  It was checked on the run before it was proved.
  `ElementsAreCounted` needs that the items of an array are apart and each takes
  a place (`ItemsApart`), so that there are fewer of them than `size_t` counts.
* `SubmissionProofs`: for `confirmTransaction` by itself, that `true` means
  landed, `FalseMeansMissed` and `BoundedOvershoot`, from an invariant that
  relates the clock to the phase that runs, and a null answer to the moment the
  transaction landed.  Then for the examples: `FlowInv` carries that invariant
  through `main()`, with what each step knows: an awaited signature that is not
  whole is never found, `funds` comes from a wait that found it, and only an
  accepted transfer lands.  `WaitsMissTruly`, `SpeaksTruly`,
  `SendsAfterFunding` and `CreatesTheMissing` follow.

Model-checked only: all liveness (`Ends`, `Returns`, `SearchEnds`, `Exits`),
which is out of the prover's reach.  Every invariant and every action property
that a run checks is proved.

## Plan

What was planned is done: the compilers, signing, the wire format, the transport
and the calls over it, waiting, the examples, the builders, the JSON reader; and
the proofs about them.  Left is one thing: the number conversions and `raw()` of
`JsonValue`, with a number as a sequence of digits.

## Not modelled

* `Keypair` and BIP39: calls into libsodium and copies of arrays, without a
  decision.  A keypair is its public key in `Signing`.
* SHA-256, the curve, and `createWithSeed`, which is one hash.
* The constructors of `RpcClient` and `parseEndpoint`: they run once, on a text,
  and keep nothing that changes.  The fields owner, executable and rentEpoch of
  an account are read as lamports is.
* `JsonValue`: conversions to numbers (in `RpcClient` a sequence of digits is
  read), `raw()`, and the escapes `\u`, `\b` and `\f`.
* Examples other than the two: `v0_transaction.cpp` makes the calls of
  `spl_token_transfer.cpp` without the look-up of an account; `pda_example.cpp`
  is the search that `Programs` begins with; `offline_sign.cpp` posts nothing.
* Error texts, logging, scripts and tests.
