-------------------------- MODULE RpcClientProofs --------------------------
(* Proofs about HttpTransport, for every length of request, header and body,  *)
(* and about the calls of RpcClient over it, for whatever the server holds.   *)
EXTENDS RpcClient, ListProofs

-----------------------------------------------------------------------------
(* The inductive invariant of the transport.                                  *)

(* What is held while each call runs.  The process takes the rest with it if  *)
(* it is killed.                                                              *)
Owns ==
    CASE pc = "resolve" -> IfSecure({"ctx"})
      [] pc = "socket" -> {"addrinfo"} \cup IfSecure({"ctx"})
      [] pc = "connect" -> {"fd", "addrinfo"} \cup IfSecure({"ctx"})
      [] pc \in {"handshake", "send", "receive"} -> Connection
      [] OTHER -> {}

Ownership ==
    /\ \A r \in Resources : resources[r] # "freedTwice"
    /\ pc # "killed" => \A r \in Resources : resources[r] = "held" <=> r \in Owns

(* The reply tells whether the request was executed, and that it was sent.    *)
Replied ==
    /\ executed <=> reply = "answer"
    /\ executed => rem = 0
    /\ reply = "none" => produced = 0

(* What the client has done by the time it gets somewhere: nothing is thrown  *)
(* of a response with a header.                                               *)
Progress ==
    /\ pc = "context" => secure
    /\ sent + rem = RequestLen
    /\ pc \in {"strip", "returned"} => peer = "reset" \/ (peer = "closed" /\ received = produced)
    /\ pc = "returned" => received >= HeaderLen
    /\ pc \notin {"receive", "strip", "returned", "killed"} => received < HeaderLen

IInv == TypeOK /\ Ownership /\ Replied /\ Progress

(* The response has a length. *)
LEMMA TotalIsNat == Total \in Nat
  BY LengthAssumption DEF Total

(* Nothing is held, sent or received before the first call. *)
LEMMA InitIInv == Init => IInv
  <1> SUFFICES ASSUME Init
               PROVE  IInv
    OBVIOUS
  <1>1. TypeOK
    <2>1. resources \in [Resources -> {"unused", "held", "freed", "freedTwice"}]
      BY DEF Init
    <2>2. pc \in {"context", "resolve"}
      BY DEF Init
    <2>3. rem \in 0..RequestLen /\ produced \in 0..Total /\ received \in 0..produced /\ sent \in Nat
      BY LengthAssumption, TotalIsNat DEF Init
    <2>4. secure \in BOOLEAN /\ executed \in BOOLEAN /\ peer = "none" /\ reply = "none"
      BY DEF Init
    <2> QED
      BY <2>1, <2>2, <2>3, <2>4 DEF TypeOK
  <1>2. Ownership
    BY DEF Init, Ownership, Owns, IfSecure
  <1>3. Replied /\ Progress
    BY LengthAssumption DEF Init, Replied, Progress
  <1> QED
    BY <1>1, <1>2, <1>3 DEF IInv

(* Each way out of the function that throws releases exactly what is held.    *)
LEMMA ThrowReleases ==
    ASSUME NEW released, IInv, Throw(released), released = Owns, pc \notin {"thrown", "killed"}
    PROVE  Ownership'
  <1>1. \A r \in Resources : resources'[r] = IF r \in released THEN Freed(r) ELSE resources[r]
    BY DEF Throw, Change
  <1>2. \A r \in Resources : resources[r] = "held" <=> r \in released
    BY DEF IInv, Ownership
  <1>3. pc' = "thrown" /\ secure' = secure
    BY DEF Throw
  <1>4. Owns' = {}
    BY <1>3 DEF Owns
  <1> QED
    BY <1>1, <1>2, <1>3, <1>4 DEF Ownership, Freed, IInv

(* And it leaves everything else as it was. *)
LEMMA ThrowIInv ==
    ASSUME NEW released, IInv, Throw(released), released = Owns,
           pc \in {"context", "resolve", "socket", "connect", "handshake", "send"}
    PROVE  IInv'
  <1>1. TypeOK'
    <2>1. resources' \in [Resources -> {"unused", "held", "freed", "freedTwice"}]
      BY DEF Throw, Change, Freed, IInv, TypeOK
    <2> QED
      BY <2>1 DEF Throw, server, IInv, TypeOK
  <1>2. Replied' /\ Progress'
    BY DEF Throw, server, IInv, Replied, Progress
  <1> QED
    BY <1>1, <1>2, ThrowReleases DEF IInv

(* Of the client's own variables, the server touches none.                    *)
LEMMA ServerIInv == IInv /\ Server => IInv'
  <1> SUFFICES ASSUME IInv, Server
               PROVE  IInv'
    OBVIOUS
  <1> USE LengthAssumption DEF IInv, client, server
  <1>1. UNCHANGED <<secure, pc, resources, rem, received, sent>>
    BY DEF Server, Execute, Reject, Produce, Close, Reset
  <1>2. Ownership'
    BY <1>1 DEF Ownership, Owns, Connection, IfSecure
  <1>3. TypeOK'
    <2>1. produced' \in 0..Total /\ received' \in 0..produced'
      BY <1>1, TotalIsNat DEF Server, Execute, Reject, Produce, Close, Reset, TypeOK
    <2> QED
      BY <1>1, <2>1 DEF Server, Execute, Reject, Produce, Close, Reset, TypeOK
  <1>4. Replied'
    BY <1>1 DEF Server, Execute, Reject, Produce, Close, Reset, TypeOK, Replied, Progress
  <1>5. Progress'
    BY <1>1 DEF Server, Execute, Reject, Produce, Close, Reset, TypeOK, Progress
  <1> QED
    BY <1>2, <1>3, <1>4, <1>5

(* A call that succeeds hands over what the next one uses.                    *)
LEMMA AcquireIInv == IInv /\ (NewContext \/ Resolve \/ OpenSocket \/ Connect) => IInv'
  <1> SUFFICES ASSUME IInv, NewContext \/ Resolve \/ OpenSocket \/ Connect
               PROVE  IInv'
    OBVIOUS
  <1> USE DEF IInv, server
  <1>1. resources' \in [Resources -> {"unused", "held", "freed", "freedTwice"}]
    BY DEF NewContext, Resolve, OpenSocket, Connect, Change, Freed, TypeOK
  <1>2. TypeOK' /\ Replied' /\ Progress'
    BY <1>1 DEF NewContext, Resolve, OpenSocket, Connect, TypeOK, Replied, Progress
  <1>3. Ownership'
    <2> USE DEF Change, Freed, TypeOK, Ownership, Owns, Resources, IfSecure, Connection
    <2>1. CASE NewContext
      BY <2>1 DEF NewContext, Progress
    <2>2. CASE Resolve
      BY <2>2 DEF Resolve
    <2>3. CASE OpenSocket
      BY <2>3 DEF OpenSocket
    <2>4. CASE Connect
      BY <2>4 DEF Connect
    <2> QED
      BY <2>1, <2>2, <2>3, <2>4
  <1> QED
    BY <1>2, <1>3

(* Every step, of the client and of the others, keeps the invariant. *)
LEMMA StepIInv == IInv /\ [Next]_vars => IInv'
  <1> SUFFICES ASSUME IInv, [Next]_vars
               PROVE  IInv'
    OBVIOUS
  <1> USE LengthAssumption
  <1>1. CASE Server
    BY <1>1, ServerIInv
  <1>2. CASE NewContext \/ Resolve \/ OpenSocket \/ Connect
    BY <1>2, AcquireIInv
  <1>3. CASE NewContextFails \/ ResolveFails \/ SocketFails \/ ConnectFails
             \/ HandshakeFails \/ SendFails
    <2>1. Throw(Owns) /\ pc \in {"context", "resolve", "socket", "connect", "handshake", "send"}
      BY <1>3 DEF NewContextFails, ResolveFails, SocketFails, ConnectFails, HandshakeFails,
                  SendFails, Owns
    <2> QED
      BY <2>1, ThrowIInv
  <1>4. CASE Handshake
    BY <1>4 DEF Handshake, server, IInv, TypeOK, Ownership, Owns, Connection, IfSecure, Replied, Progress
  <1>5. ASSUME NEW n \in 1..RequestLen, SendSome(n)
        PROVE  IInv'
    BY <1>5 DEF SendSome, server, IInv, TypeOK, Ownership, Owns, Connection, IfSecure, Replied, Progress
  <1>6. CASE Killed
    BY <1>6 DEF Killed, server, IInv, TypeOK, Ownership, Replied, Progress
  <1>7. ASSUME NEW n \in 1..Total, Receive(n)
        PROVE  IInv'
    BY <1>7 DEF Receive, Total, server, IInv, TypeOK, Ownership, Owns, Connection, IfSecure, Replied, Progress
  <1>8. CASE EndOfInput
    <2> USE DEF EndOfInput, IInv, server
    <2>1. resources' \in [Resources -> {"unused", "held", "freed", "freedTwice"}]
      BY <1>8 DEF Change, Freed, TypeOK
    <2>2. TypeOK' /\ Replied' /\ Progress'
      BY <1>8, <2>1 DEF TypeOK, Replied, Progress
    <2>3. Ownership'
      BY <1>8 DEF Change, Freed, TypeOK, Ownership, Owns, Resources, IfSecure, Connection
    <2> QED
      BY <2>2, <2>3
  <1>9. CASE Strip
    BY <1>9 DEF Strip, server, IInv, TypeOK, Ownership, Owns, Replied, Progress
  <1>10. CASE UNCHANGED vars
    BY <1>10 DEF vars, client, server, IInv, TypeOK, Ownership, Owns, Connection, IfSecure, Replied, Progress
  <1> QED
    BY <1>1, <1>2, <1>3, <1>4, <1>5, <1>6, <1>7, <1>8, <1>9, <1>10 DEF Next, Client

(* So it holds at all times. *)
LEMMA Invariance == Spec => []IInv
  BY InitIInv, StepIInv, PTL DEF Spec

(* Every variable keeps its type; not a byte is received that was not sent.   *)
THEOREM TypeCorrect == Spec => []TypeOK
  <1>1. IInv => TypeOK
    BY DEF IInv
  <1> QED
    BY <1>1, Invariance, PTL

(* On every way through httpPost and httpsPost, whichever call fails, what    *)
(* was acquired is used while it is held and released once.                   *)
THEOREM EverythingIsReleased == Spec => []ResourcesReleased
  <1>1. IInv => ResourcesReleased
    BY DEF IInv, Ownership, Owns, ResourcesReleased, Uses, Resources, IfSecure, Connection
  <1> QED
    BY <1>1, Invariance, PTL

(* The server gets the request once, and whole before it executes it.         *)
THEOREM RequestIsSentOnce == Spec => []SentOnce
  <1>1. IInv => SentOnce
    BY LengthAssumption DEF IInv, TypeOK, Replied, Progress, SentOnce
  <1> QED
    BY <1>1, Invariance, PTL

(* The body returned is whole unless the connection was cut.                  *)
THEOREM BodyIsWhole == Spec => []WholeUnlessCut
  <1>1. IInv => WholeUnlessCut
    BY LengthAssumption DEF IInv, TypeOK, Progress, WholeUnlessCut, Total
  <1> QED
    BY <1>1, Invariance, PTL

-----------------------------------------------------------------------------
(* The refinement.                                                            *)

(* A call that begins is a request that is pending. *)
LEMMA InitRefines == Init => Request!Init
  BY DEF Init, Request!Init, Outcome

(* Each step is one of the request, or none: executing is Execute, stripping  *)
(* the header Answer, Refuse or Fail, and every throw Fail.                   *)
LEMMA StepRefines == IInv /\ [Next]_vars => [Request!Next]_(Request!vars)
  <1> SUFFICES ASSUME IInv, [Next]_vars
               PROVE  [Request!Next]_(Request!vars)
    OBVIOUS
  <1> USE LengthAssumption DEF IInv, Outcome, Request!vars, client, server
  <1>1. CASE Execute
    <2>1. ~executed /\ executed' /\ pc' = pc
      BY <1>1 DEF Execute, Replied
    <2>2. pc # "returned"
      BY <1>1 DEF Execute, Replied, Progress, TypeOK
    <2>3. Outcome' = Outcome
      BY <2>1, <2>2
    <2> QED
      BY <2>1, <2>3, <1>1 DEF Request!Next, Request!Execute, Execute
  <1>2. CASE Reject
    <2>1. pc' = pc /\ executed' = executed /\ pc # "returned"
      BY <1>2 DEF Reject, Replied, Progress, TypeOK
    <2> QED
      BY <2>1
  <1>3. CASE Produce \/ Close \/ Reset
    BY <1>3 DEF Produce, Close, Reset
  <1>4. CASE Strip
    <2>1. CASE received >= HeaderLen
      <3>1. reply # "none"
        BY <2>1 DEF TypeOK, Replied
      <3>2. reply = "answer" => executed
        BY DEF Replied
      <3> QED
        BY <1>4, <2>1, <3>1, <3>2
           DEF Strip, TypeOK, Request!Next, Request!Answer, Request!Refuse
    <2>2. CASE ~(received >= HeaderLen)
      BY <1>4, <2>2 DEF Strip, Request!Next, Request!Fail
    <2> QED
      BY <2>1, <2>2
  <1>5. CASE NewContextFails \/ ResolveFails \/ SocketFails \/ ConnectFails
             \/ HandshakeFails \/ SendFails \/ Killed
    BY <1>5 DEF NewContextFails, ResolveFails, SocketFails, ConnectFails, HandshakeFails,
                SendFails, Killed, Throw, Request!Next, Request!Fail
  <1>6. CASE NewContext \/ Resolve \/ OpenSocket \/ Connect \/ Handshake \/ EndOfInput
    BY <1>6 DEF NewContext, Resolve, OpenSocket, Connect, Handshake, EndOfInput
  <1>7. ASSUME NEW n \in 1..RequestLen, SendSome(n)
        PROVE  UNCHANGED Request!vars
    BY <1>7 DEF SendSome
  <1>8. ASSUME NEW n \in 1..Total, Receive(n)
        PROVE  UNCHANGED Request!vars
    BY <1>8 DEF Receive
  <1>9. CASE UNCHANGED vars
    BY <1>9 DEF vars
  <1> QED
    BY <1>1, <1>2, <1>3, <1>4, <1>5, <1>6, <1>7, <1>8, <1>9 DEF Next, Client, Server

(* Every behaviour of a post is one RpcRequest allows: the request is         *)
(* executed at most once, and an answer means that it was.                    *)
THEOREM PostImplementsRequest == Spec => ImplementsRequest
  BY InitRefines, StepRefines, Invariance, PTL DEF Spec, ImplementsRequest, Request!Spec

-----------------------------------------------------------------------------
(* The calls.                                                                 *)

(* The result is what the call makes of what was received.                    *)
Parsed ==
    /\ call \in Calls
    /\ result.how # "pending" => pc \in {"returned", "thrown"}
    /\ result.how # "pending" /\ pc = "returned" => result = Parse(call, SeenValue)
    /\ result.how # "pending" /\ pc = "thrown" => result = Thrown

CallInv == IInv /\ Parsed

(* No result before the response. *)
LEMMA CallInitInv == CallInit => CallInv
  BY InitIInv DEF CallInit, CallInv, Parsed, Pending

(* The transport makes its steps whatever the call does.                      *)
LEMMA CallMakesSteps == [CallNext]_callVars => [Next]_vars
  BY DEF CallNext, callVars, EndCall

(* Once there is a result, the server and the network do not change what it   *)
(* was made from.                                                             *)
LEMMA AnswerStays ==
    ASSUME IInv, [Next]_vars, pc \in {"returned", "thrown"}
    PROVE  /\ pc' = pc
           /\ pc = "returned" => UNCHANGED <<reply, received>>
  <1>1. pc = "returned" => reply # "none"
    BY LengthAssumption DEF IInv, TypeOK, Replied, Progress
  <1>2. ~Client
    BY DEF Client, NewContext, NewContextFails, Resolve, ResolveFails, OpenSocket, SocketFails,
           Connect, ConnectFails, Handshake, HandshakeFails, SendSome, SendFails, Killed,
           Receive, EndOfInput, Strip
  <1>3. CASE Server
    BY <1>1, <1>3 DEF Server, Execute, Reject, Produce, Close, Reset, client, server
  <1>4. CASE UNCHANGED vars
    BY <1>4 DEF vars, client, server
  <1> QED
    BY <1>2, <1>3, <1>4 DEF Next

LEMMA ParseStays ==
    ASSUME UNCHANGED <<call, reply, received>>
    PROVE  Parse(call, SeenValue)' = Parse(call, SeenValue)
  <1>1. SeenValue' = SeenValue
    BY DEF SeenValue
  <1> QED
    BY <1>1 DEF Parse

LEMMA CallStepInv == CallInv /\ [CallNext]_callVars => CallInv'
  <1> SUFFICES ASSUME CallInv, [CallNext]_callVars
               PROVE  CallInv'
    OBVIOUS
  <1>1. IInv'
    BY CallMakesSteps, StepIInv DEF CallInv
  <1>2. CASE EndCall
    <2>1. UNCHANGED <<pc, reply, received, call>>
      BY <1>2 DEF EndCall, vars, client, server
    <2>2. Parse(call, SeenValue)' = Parse(call, SeenValue)
      BY <2>1, ParseStays
    <2>3. call \in Calls
      BY DEF CallInv, Parsed
    <2>4. CASE pc = "returned"
      BY <1>1, <1>2, <2>1, <2>2, <2>3, <2>4 DEF EndCall, CallInv, Parsed
    <2>5. CASE pc = "thrown"
      BY <1>1, <1>2, <2>1, <2>3, <2>5 DEF EndCall, CallInv, Parsed
    <2> QED
      BY <1>2, <2>4, <2>5 DEF EndCall
  <1>3. CASE [Next]_vars /\ UNCHANGED <<call, result>>
    <2>1. CASE result.how = "pending"
      BY <1>1, <1>3, <2>1 DEF CallInv, Parsed
    <2>2. CASE result.how # "pending"
      <3>1. pc' = pc /\ (pc = "returned" => UNCHANGED <<reply, received>>)
        BY <1>3, <2>2, AnswerStays DEF CallInv, Parsed
      <3>2. pc = "returned" => Parse(call, SeenValue)' = Parse(call, SeenValue)
        BY <1>3, <3>1, ParseStays
      <3> QED
        BY <1>1, <1>3, <2>2, <3>1, <3>2 DEF CallInv, Parsed
    <2> QED
      BY <2>1, <2>2
  <1> QED
    BY <1>2, <1>3 DEF CallNext, callVars

LEMMA CallInvariance == CallSpec => []CallInv
  BY CallInitInv, CallStepInv, PTL DEF CallSpec

(* A call posts one request as the transport does, so what is proved of       *)
(* HttpTransport holds while a call runs.                                     *)
THEOREM CallsUseTransport == CallSpec => Spec
  BY CallMakesSteps, PTL DEF CallSpec, CallInit, Spec

-----------------------------------------------------------------------------
(* Base64: what base64DecodeRpc makes of the beginning of a text.             *)

(* The b-th byte, or the zeros that fill the last group. *)
ByteAt(data, b) == IF b <= Len(data) THEN data[b] ELSE 0

(* The characters of the group that follows k groups: six bits each of three  *)
(* bytes. *)
HasGroup(text, data, k) ==
    LET first == ByteAt(data, 3 * k + 1)
        second == ByteAt(data, 3 * k + 2)
        third == ByteAt(data, 3 * k + 3)
    IN /\ text[4 * k + 1] = first \div 4
       /\ text[4 * k + 2] = (first % 4) * 16 + second \div 16
       /\ text[4 * k + 3] = IF 3 * k + 2 <= Len(data) THEN (second % 16) * 4 + third \div 64 ELSE Pad
       /\ text[4 * k + 4] = IF 3 * k + 3 <= Len(data) THEN third % 64 ELSE Pad

(* EncodeGroup makes them. *)
LEMMA GroupHasItsBits ==
    ASSUME NEW bytes \in Seq(0..255), Len(bytes) \in 1..3
    PROVE  /\ EncodeGroup(bytes) \in Seq(0..64) /\ Len(EncodeGroup(bytes)) = 4
           /\ HasGroup(EncodeGroup(bytes), bytes, 0)
  <1> DEFINE b1 == ByteAt(bytes, 1)
             b2 == ByteAt(bytes, 2)
             b3 == ByteAt(bytes, 3)
             val == b1 * 65536 + b2 * 256 + b3
             c3 == IF Len(bytes) > 1 THEN SixBits(val, 6) ELSE Pad
             c4 == IF Len(bytes) > 2 THEN SixBits(val, 0) ELSE Pad
  <1>1. b1 \in 0..255 /\ b2 \in 0..255 /\ b3 \in 0..255
    <2>1. \A i \in 1..Len(bytes) : bytes[i] \in 0..255
      BY ElementOfSeq
    <2> QED
      BY <2>1 DEF ByteAt
  <1>2. EncodeGroup(bytes) = <<SixBits(val, 18), SixBits(val, 12), c3, c4>>
    BY DEF EncodeGroup, ByteAt
  <1> HIDE DEF b1, b2, b3
  <1>3. 2 ^ 18 = 262144 /\ 2 ^ 12 = 4096 /\ 2 ^ 6 = 64 /\ 2 ^ 0 = 1
    OBVIOUS
  <1>4. SixBits(val, 18) = b1 \div 4
    <2>1. (b1 * 65536 + b2 * 256 + b3) \div 262144 = b1 \div 4
      BY <1>1
    <2> QED
      BY <1>1, <1>3, <2>1 DEF SixBits
  <1>5. SixBits(val, 12) = (b1 % 4) * 16 + b2 \div 16
    <2>1. (b1 * 65536 + b2 * 256 + b3) \div 4096 = b1 * 16 + b2 \div 16
      BY <1>1
    <2>2. (b1 * 16 + b2 \div 16) % 64 = (b1 % 4) * 16 + b2 \div 16
      BY <1>1
    <2>3. ((b1 * 65536 + b2 * 256 + b3) \div 4096) % 64 = (b1 % 4) * 16 + b2 \div 16
      BY <2>1, <2>2
    <2> QED
      BY <1>3, <2>3 DEF SixBits
  <1>6. SixBits(val, 6) = (b2 % 16) * 4 + b3 \div 64
    <2>1. ((b1 * 65536 + b2 * 256 + b3) \div 64) % 64 = (b2 % 16) * 4 + b3 \div 64
      BY <1>1
    <2> QED
      BY <1>3, <2>1 DEF SixBits
  <1>7. SixBits(val, 0) = b3 % 64
    <2>1. (b1 * 65536 + b2 * 256 + b3) % 64 = b3 % 64
      BY <1>1
    <2>2. val \div 1 = b1 * 65536 + b2 * 256 + b3
      BY <1>1
    <2> QED
      BY <1>3, <2>1, <2>2 DEF SixBits
  <1>8. /\ SixBits(val, 18) \in 0..64 /\ SixBits(val, 12) \in 0..64 /\ c3 \in 0..64 /\ c4 \in 0..64
    <2>1. /\ b1 \div 4 \in 0..64 /\ (b1 % 4) * 16 + b2 \div 16 \in 0..64
          /\ (b2 % 16) * 4 + b3 \div 64 \in 0..64 /\ b3 % 64 \in 0..64 /\ Pad \in 0..64
      BY <1>1 DEF Pad
    <2> HIDE DEF val
    <2> QED
      BY <1>4, <1>5, <1>6, <1>7, <2>1
  <1> DEFINE c1 == SixBits(val, 18)
             c2 == SixBits(val, 12)
  <1> HIDE DEF c1, c2, c3, c4
  <1>9. /\ <<c1, c2, c3, c4>> \in Seq(0..64) /\ Len(<<c1, c2, c3, c4>>) = 4
        /\ <<c1, c2, c3, c4>>[1] = c1 /\ <<c1, c2, c3, c4>>[2] = c2
        /\ <<c1, c2, c3, c4>>[3] = c3 /\ <<c1, c2, c3, c4>>[4] = c4
    BY <1>8 DEF c1, c2
  <1>10. EncodeGroup(bytes) = <<c1, c2, c3, c4>>
    BY <1>2 DEF c1, c2
  <1>11. /\ c3 = IF 2 <= Len(bytes) THEN (b2 % 16) * 4 + b3 \div 64 ELSE Pad
         /\ c4 = IF 3 <= Len(bytes) THEN b3 % 64 ELSE Pad
    BY <1>6, <1>7 DEF c3, c4
  <1> HIDE DEF val
  <1>12. HasGroup(EncodeGroup(bytes), bytes, 0)
    <2>1. /\ 4 * 0 + 1 = 1 /\ 4 * 0 + 2 = 2 /\ 4 * 0 + 3 = 3 /\ 4 * 0 + 4 = 4
          /\ 3 * 0 + 1 = 1 /\ 3 * 0 + 2 = 2 /\ 3 * 0 + 3 = 3
      OBVIOUS
    <2> QED
      BY <1>4, <1>5, <1>9, <1>10, <1>11, <2>1 DEF HasGroup, c1, c2, b1, b2, b3
  <1> QED
    BY <1>9, <1>10, <1>12

(* Text is made of groups of four. *)
LEMMA EncodingHasItsBits ==
    ASSUME NEW data \in Seq(0..255)
    PROVE  LET text == Base64Encode(data)
           IN /\ text \in Seq(0..64)
              /\ Len(text) = 4 * ((Len(data) + 2) \div 3)
              /\ \A k \in 0..((Len(data) + 2) \div 3 - 1) : HasGroup(text, data, k)
  <1> DEFINE n == Len(data)
             groups == (n + 2) \div 3
             GroupEnd(g) == IF 3 * g < n THEN 3 * g ELSE n
             bytes(g) == SubSeq(data, 3 * g - 2, GroupEnd(g))
             s == [g \in 1..groups |-> EncodeGroup(bytes(g))]
             text == FlattenSeq(s)
  <1>1. n \in Nat /\ groups \in Nat /\ \A i \in 1..n : data[i] \in 0..255
    BY ElementOfSeq
  <1>2. Base64Encode(data) = text
    BY DEF Base64Encode
  <1>3. ASSUME NEW g \in 1..groups
        PROVE  /\ bytes(g) \in Seq(0..255) /\ Len(bytes(g)) \in 1..3
               /\ Len(bytes(g)) = GroupEnd(g) - (3 * g - 3)
               /\ \A i \in 1..Len(bytes(g)) : bytes(g)[i] = data[3 * g - 3 + i]
    <2> DEFINE lo == 3 * g - 2
               hi == GroupEnd(g)
    <2>1. 3 * g <= n + 2 /\ g \in Nat /\ g >= 1
      BY <1>1
    <2>2. lo \in 1..n /\ hi \in 1..n /\ hi - lo \in 0..2
      BY <1>1, <2>1
    <2> HIDE DEF lo, hi
    <2>3. lo \in Nat /\ hi \in Nat /\ 1 <= lo /\ lo <= hi + 1 /\ hi <= Len(data)
      BY <1>1, <2>2
    <2>4. /\ SubSeq(data, lo, hi) \in Seq(0..255) /\ Len(SubSeq(data, lo, hi)) = hi - lo + 1
          /\ \A i \in 1..(hi - lo + 1) : SubSeq(data, lo, hi)[i] = data[lo - 1 + i]
      <3>1. SubSeq(data, lo, hi) \in Seq(0..255) /\ IsPart(SubSeq(data, lo, hi), data, lo, hi)
        BY <2>3, PartOfList
      <3> QED
        BY <3>1, Zenon DEF IsPart
    <2>5. bytes(g) = SubSeq(data, lo, hi)
      BY DEF lo, hi
    <2>6. lo - 1 = 3 * g - 3
      BY <2>1 DEF lo
    <2>7. hi - lo + 1 = GroupEnd(g) - (3 * g - 3) /\ hi - lo + 1 \in 1..3
      BY <1>1, <2>1, <2>2 DEF lo, hi
    <2> HIDE DEF bytes, GroupEnd
    <2> QED
      BY <2>4, <2>5, <2>6, <2>7
  <1> HIDE DEF bytes
  <1>4. s \in Seq(Seq(0..64)) /\ Len(s) = groups /\ \A g \in 1..Len(s) : Len(s[g]) = 4
    <2>1. \A g \in 1..groups : EncodeGroup(bytes(g)) \in Seq(0..64) /\ Len(EncodeGroup(bytes(g))) = 4
      BY <1>3, GroupHasItsBits
    <2> HIDE DEF groups
    <2> QED
      BY <1>1, <2>1
  <1>5. \A g \in 1..groups : s[g] = EncodeGroup(bytes(g))
    OBVIOUS
  <1> HIDE DEF s, text, groups
  <1>6. /\ text \in Seq(0..64) /\ Len(text) = 4 * groups
        /\ \A g \in 1..groups, j \in 1..4 : text[4 * (g - 1) + j] = s[g][j]
    <2>1. \A g \in 1..Len(s) : Len(s[g]) = 4
      BY <1>4
    <2> DEFINE K == 0..64
               w == 4
               whole == FlattenSeq(s)
    <2>2. s \in Seq(Seq(K)) /\ w \in Nat /\ \A g \in 1..Len(s) : Len(s[g]) = w
      BY <1>4
    <2> HIDE DEF K, w
    <2>3. /\ whole \in Seq(K) /\ Len(whole) = w * Len(s)
          /\ \A g \in 1..Len(s), j \in 1..w : whole[w * (g - 1) + j] = s[g][j]
      BY <2>2, EqualLists
    <2> HIDE DEF whole
    <2>4. text = whole
      BY DEF text, whole
    <2>5. /\ text \in Seq(0..64) /\ Len(text) = 4 * Len(s)
          /\ \A g \in 1..Len(s), j \in 1..4 : text[4 * (g - 1) + j] = s[g][j]
      BY <2>3, <2>4 DEF K, w
    <2> QED
      BY <1>4, <2>5
  <1>7. ASSUME NEW k \in 0..(groups - 1)
        PROVE  HasGroup(text, data, k)
    <2> DEFINE g == k + 1
               b == bytes(g)
    <2>1. g \in 1..groups /\ k \in Nat
      BY <1>1
    <2>2. /\ b \in Seq(0..255) /\ Len(b) \in 1..3
          /\ Len(b) = (IF 3 * k + 3 < n THEN 3 * k + 3 ELSE n) - 3 * k
          /\ \A i \in 1..Len(b) : b[i] = data[3 * k + i]
      <3>1. 3 * g = 3 * k + 3
        BY <2>1
      <3> HIDE DEF g
      <3>2. /\ b \in Seq(0..255) /\ Len(b) \in 1..3
            /\ Len(b) = GroupEnd(g) - (3 * g - 3)
            /\ \A i \in 1..Len(b) : b[i] = data[3 * g - 3 + i]
        BY <1>3, <2>1
      <3>3. 3 * g - 3 = 3 * k /\ GroupEnd(g) = IF 3 * k + 3 < n THEN 3 * k + 3 ELSE n
        BY <2>1, <3>1
      <3> HIDE DEF b, GroupEnd
      <3> QED
        BY <3>2, <3>3
    <2>3. HasGroup(EncodeGroup(b), b, 0)
      BY <2>2, GroupHasItsBits
    <2>4. \A j \in 1..4 : text[4 * k + j] = EncodeGroup(b)[j]
      <3>1. 4 * (g - 1) = 4 * k
        BY <2>1
      <3> HIDE DEF g
      <3> QED
        BY <1>5, <1>6, <2>1, <3>1
    <2> HIDE DEF g, b
    <2>5. /\ ByteAt(b, 1) = ByteAt(data, 3 * k + 1)
          /\ ByteAt(b, 2) = ByteAt(data, 3 * k + 2)
          /\ ByteAt(b, 3) = ByteAt(data, 3 * k + 3)
          /\ 2 <= Len(b) <=> 3 * k + 2 <= n
          /\ 3 <= Len(b) <=> 3 * k + 3 <= n
      BY <1>1, <2>1, <2>2 DEF ByteAt
    <2>6. /\ 4 * 0 + 1 = 1 /\ 4 * 0 + 2 = 2 /\ 4 * 0 + 3 = 3 /\ 4 * 0 + 4 = 4
          /\ 3 * 0 + 1 = 1 /\ 3 * 0 + 2 = 2 /\ 3 * 0 + 3 = 3
      OBVIOUS
    <2> DEFINE e == EncodeGroup(b)
    <2> HIDE DEF e
    <2>7. /\ e[1] = ByteAt(b, 1) \div 4
          /\ e[2] = (ByteAt(b, 1) % 4) * 16 + ByteAt(b, 2) \div 16
          /\ e[3] = IF 2 <= Len(b) THEN (ByteAt(b, 2) % 16) * 4 + ByteAt(b, 3) \div 64 ELSE Pad
          /\ e[4] = IF 3 <= Len(b) THEN ByteAt(b, 3) % 64 ELSE Pad
      BY <2>3, <2>6 DEF HasGroup, e
    <2> QED
      BY <2>4, <2>5, <2>7 DEF HasGroup, e
  <1> QED
    BY <1>2, <1>6, <1>7 DEF groups

LowBits == 0..16383

(* The state between two characters. *)
DecoderStates == [val : LowBits, valb : {-8, -6, -4, -2}, out : Seq(0..255)]

(* The lowest bits after one more character are its own and those of the one  *)
(* before it.                                                                 *)
LEMMA BitsOfCharacter ==
    ASSUME NEW v \in LowBits, NEW t \in 0..63
    PROVE  LET val == Accumulate(v, t) IN
           /\ val \in LowBits /\ val % 64 = t
           /\ EightBits(val, 4) = (v % 64) * 4 + t \div 16
           /\ EightBits(val, 2) = (v % 16) * 16 + t \div 4
           /\ EightBits(val, 0) = (v % 4) * 64 + t
  <1> DEFINE val == Accumulate(v, t)
  <1>1. 2 ^ 14 = 16384 /\ 2 ^ 0 = 1 /\ 2 ^ 2 = 4 /\ 2 ^ 4 = 16
    OBVIOUS
  <1>2. v \in 0..16383
    BY DEF LowBits
  <1>3. val = (v % 256) * 64 + t
    <2>1. (v * 64 + t) % 16384 = (v % 256) * 64 + t
      BY <1>2
    <2> QED
      BY <1>1, <2>1 DEF Accumulate
  <1> HIDE DEF val
  <1> DEFINE low == v % 256
  <1>4. low \in 0..255 /\ low % 64 = v % 64 /\ low % 16 = v % 16 /\ low % 4 = v % 4
    BY <1>2
  <1> HIDE DEF low
  <1>5. val = low * 64 + t
    BY <1>3 DEF low
  <1>6. /\ \A a \in Nat, x \in 0..255 : (a * 256 + x) % 256 = x
        /\ \A a \in Nat, x \in 0..63 : (a * 64 + x) % 64 = x
    OBVIOUS
  <1>7. val \in 0..16383 /\ val % 64 = t
    <2>1. low \in Nat
      BY <1>4
    <2>2. (low * 64 + t) % 64 = t
      BY <1>6, <2>1
    <2>3. val \in 0..16383
      BY <1>4, <1>5
    <2>4. val % 64 = t
      BY <1>5, <2>2, Zenon
    <2> QED
      BY <2>3, <2>4
  <1>8. (val \div 16) % 256 = (low % 64) * 4 + t \div 16
    <2>1. val \div 16 = low * 4 + t \div 16
      BY <1>4, <1>5
    <2>2. (low * 4 + t \div 16) % 256 = (low % 64) * 4 + t \div 16
      <3> DEFINE a == low \div 64
                 b == low % 64
                 x == t \div 16
      <3>1. a \in Nat /\ b \in 0..63 /\ low = a * 64 + b /\ x \in 0..3
        BY <1>4
      <3> HIDE DEF a, b, x
      <3>2. low * 4 + x = a * 256 + (b * 4 + x) /\ b * 4 + x \in 0..255
        BY <3>1
      <3>3. (a * 256 + (b * 4 + x)) % 256 = b * 4 + x
        BY <1>6, <3>1, <3>2
      <3>4. (low * 4 + x) % 256 = b * 4 + x
        BY <3>2, <3>3
      <3> QED
        BY <3>4 DEF b, x
    <2> QED
      BY <2>1, <2>2
  <1>9. (val \div 4) % 256 = (low % 16) * 16 + t \div 4
    <2>1. val \div 4 = low * 16 + t \div 4
      BY <1>4, <1>5
    <2>2. (low * 16 + t \div 4) % 256 = (low % 16) * 16 + t \div 4
      <3> DEFINE a == low \div 16
                 b == low % 16
                 x == t \div 4
      <3>1. a \in Nat /\ b \in 0..15 /\ low = a * 16 + b /\ x \in 0..15
        BY <1>4
      <3> HIDE DEF a, b, x
      <3>2. low * 16 + x = a * 256 + (b * 16 + x) /\ b * 16 + x \in 0..255
        BY <3>1
      <3>3. (a * 256 + (b * 16 + x)) % 256 = b * 16 + x
        BY <1>6, <3>1, <3>2
      <3>4. (low * 16 + x) % 256 = b * 16 + x
        BY <3>2, <3>3
      <3> QED
        BY <3>4 DEF b, x
    <2> QED
      BY <2>1, <2>2
  <1>10. (val \div 1) % 256 = (low % 4) * 64 + t
    <2>1. val \div 1 = low * 64 + t
      BY <1>4, <1>5
    <2>2. (low * 64 + t) % 256 = (low % 4) * 64 + t
      <3> DEFINE a == low \div 4
                 b == low % 4
                 x == t
      <3>1. a \in Nat /\ b \in 0..3 /\ low = a * 4 + b /\ x \in 0..63
        BY <1>4
      <3> HIDE DEF a, b, x
      <3>2. low * 64 + x = a * 256 + (b * 64 + x) /\ b * 64 + x \in 0..255
        BY <3>1
      <3>3. (a * 256 + (b * 64 + x)) % 256 = b * 64 + x
        BY <1>6, <3>1, <3>2
      <3>4. (low * 64 + x) % 256 = b * 64 + x
        BY <3>2, <3>3
      <3> QED
        BY <3>4 DEF b, x
    <2> QED
      BY <2>1, <2>2
  <1>11. /\ EightBits(val, 4) = (low % 64) * 4 + t \div 16
         /\ EightBits(val, 2) = (low % 16) * 16 + t \div 4
         /\ EightBits(val, 0) = (low % 4) * 64 + t
    <2>1. EightBits(val, 4) = (val \div 16) % 256
      BY <1>1 DEF EightBits
    <2>2. EightBits(val, 2) = (val \div 4) % 256
      BY <1>1 DEF EightBits
    <2>3. EightBits(val, 0) = (val \div 1) % 256
      BY <1>1 DEF EightBits
    <2>4. EightBits(val, 4) = (low % 64) * 4 + t \div 16
      BY <1>8, <2>1
    <2>5. EightBits(val, 2) = (low % 16) * 16 + t \div 4
      BY <1>9, <2>2
    <2>6. EightBits(val, 0) = (low % 4) * 64 + t
      BY <1>10, <2>3
    <2> QED
      BY <2>4, <2>5, <2>6
  <1>12. /\ EightBits(val, 4) = (v % 64) * 4 + t \div 16
         /\ EightBits(val, 2) = (v % 16) * 16 + t \div 4
         /\ EightBits(val, 0) = (v % 4) * 64 + t
    BY <1>4, <1>11, Zenon
  <1>13. val \in LowBits /\ val % 64 = t
    BY <1>7 DEF LowBits
  <1> QED
    BY <1>12, <1>13, Zenon DEF val

DecoderState(val, valb, out) == [val |-> val, valb |-> valb, out |-> out]

(* A character is decoded in one of four ways, one after the other. *)
StepsOf(v, out, t) ==
    LET val == Accumulate(v, t)
    IN /\ DecodeCharacter(DecoderState(v, -8, out), t) = DecoderState(val, -2, out)
       /\ DecodeCharacter(DecoderState(v, -2, out), t) =
              DecoderState(val, -4, Append(out, (v % 64) * 4 + t \div 16))
       /\ DecodeCharacter(DecoderState(v, -4, out), t) =
              DecoderState(val, -6, Append(out, (v % 16) * 16 + t \div 4))
       /\ DecodeCharacter(DecoderState(v, -6, out), t) =
              DecoderState(val, -8, Append(out, (v % 4) * 64 + t))

(* Which of them depends on the bits that are left over. *)
LEMMA DecoderStep ==
    ASSUME NEW v \in LowBits, NEW out, NEW t \in 0..63
    PROVE  StepsOf(v, out, t)
  <1> DEFINE val == Accumulate(v, t)
  <1>1. /\ EightBits(val, 4) = (v % 64) * 4 + t \div 16
        /\ EightBits(val, 2) = (v % 16) * 16 + t \div 4
        /\ EightBits(val, 0) = (v % 4) * 64 + t
    BY BitsOfCharacter, Zenon
  <1> HIDE DEF val
  <1>2. ASSUME NEW w \in Int
        PROVE  DecodeCharacter(DecoderState(v, w, out), t) =
                   IF w + 6 < 0 THEN DecoderState(val, w + 6, out)
                   ELSE DecoderState(val, w + 6 - 8, Append(out, EightBits(val, w + 6)))
    BY DEF DecodeCharacter, DecoderState, val
  <1>3. DecodeCharacter(DecoderState(v, -8, out), t) = DecoderState(val, -2, out)
    <2>1. -8 + 6 = -2 /\ -8 + 6 < 0 /\ -8 \in Int
      OBVIOUS
    <2> QED
      BY <1>2, <2>1, Zenon
  <1>4. DecodeCharacter(DecoderState(v, -2, out), t) =
            DecoderState(val, -4, Append(out, (v % 64) * 4 + t \div 16))
    <2>1. -2 + 6 = 4 /\ -2 + 6 - 8 = -4 /\ ~(-2 + 6 < 0) /\ -2 \in Int
      OBVIOUS
    <2> QED
      BY <1>1, <1>2, <2>1, Zenon
  <1>5. DecodeCharacter(DecoderState(v, -4, out), t) =
            DecoderState(val, -6, Append(out, (v % 16) * 16 + t \div 4))
    <2>1. -4 + 6 = 2 /\ -4 + 6 - 8 = -6 /\ ~(-4 + 6 < 0) /\ -4 \in Int
      OBVIOUS
    <2> QED
      BY <1>1, <1>2, <2>1, Zenon
  <1>6. DecodeCharacter(DecoderState(v, -6, out), t) =
            DecoderState(val, -8, Append(out, (v % 4) * 64 + t))
    <2>1. -6 + 6 = 0 /\ -6 + 6 - 8 = -8 /\ ~(-6 + 6 < 0) /\ -6 \in Int
      OBVIOUS
    <2> QED
      BY <1>1, <1>2, <2>1, Zenon
  <1> QED
    BY <1>3, <1>4, <1>5, <1>6, Zenon DEF val, StepsOf

(* Three bytes are made of the bits of their four characters.                 *)
MadeOfBits(b1, b2, b3) ==
    LET c1 == b1 \div 4
        c2 == (b1 % 4) * 16 + b2 \div 16
        c3 == (b2 % 16) * 4 + b3 \div 64
        c4 == b3 % 64
    IN /\ c1 \in 0..63 /\ c2 \in 0..63 /\ c3 \in 0..63 /\ c4 \in 0..63
       /\ c1 * 4 + c2 \div 16 = b1
       /\ (c2 % 16) * 16 + c3 \div 4 = b2
       /\ (c3 % 4) * 64 + c4 = b3

(* No bit is lost, and each character has six. *)
LEMMA ThreeBytes ==
    ASSUME NEW b1 \in 0..255, NEW b2 \in 0..255, NEW b3 \in 0..255
    PROVE  MadeOfBits(b1, b2, b3)
  <1> DEFINE c1 == b1 \div 4
             c2 == (b1 % 4) * 16 + b2 \div 16
             c3 == (b2 % 16) * 4 + b3 \div 64
             c4 == b3 % 64
  <1>1. c1 \in 0..63 /\ c4 \in 0..63
    OBVIOUS
  <1>2. b1 = (b1 \div 4) * 4 + (b1 % 4) /\ b1 % 4 \in 0..3
    OBVIOUS
  <1>3. b2 = (b2 \div 16) * 16 + (b2 % 16) /\ b2 % 16 \in 0..15 /\ b2 \div 16 \in 0..15
    OBVIOUS
  <1>4. b3 = (b3 \div 64) * 64 + (b3 % 64) /\ b3 % 64 \in 0..63 /\ b3 \div 64 \in 0..3
    OBVIOUS
  <1>5. ASSUME NEW hi \in 0..3, NEW lo \in 0..15, c2 = hi * 16 + lo
        PROVE  c2 \in 0..63 /\ c2 \div 16 = hi /\ c2 % 16 = lo
    BY <1>5
  <1>6. ASSUME NEW hi \in 0..15, NEW lo \in 0..3, c3 = hi * 4 + lo
        PROVE  c3 \in 0..63 /\ c3 \div 4 = hi /\ c3 % 4 = lo
    BY <1>6
  <1>7. c2 \in 0..63 /\ c2 \div 16 = b1 % 4 /\ c2 % 16 = b2 \div 16
    BY <1>2, <1>3, <1>5
  <1>8. c3 \in 0..63 /\ c3 \div 4 = b2 % 16 /\ c3 % 4 = b3 \div 64
    BY <1>3, <1>4, <1>6
  <1> QED
    BY <1>1, <1>2, <1>3, <1>4, <1>7, <1>8 DEF MadeOfBits

(* How many characters stand for n bytes; the others are Pad. *)
CharactersFor(n) == (4 * n + 2) \div 3

(* Which characters of a group these are. *)
LEMMA GroupsOfCharacters ==
    ASSUME NEW n \in Nat
    PROVE  /\ CharactersFor(n) \in Nat
           /\ CharactersFor(n) <= 4 * ((n + 2) \div 3)
           /\ (3 * CharactersFor(n)) \div 4 = n
           /\ \A k \in Nat : /\ 4 * k + 1 <= CharactersFor(n) <=> 3 * k + 1 <= n
                             /\ 4 * k + 2 <= CharactersFor(n) <=> 3 * k + 1 <= n
                             /\ 4 * k + 3 <= CharactersFor(n) <=> 3 * k + 2 <= n
                             /\ 4 * k + 4 <= CharactersFor(n) <=> 3 * k + 3 <= n
                             /\ k < (n + 2) \div 3 <=> 3 * k + 1 <= n
  <1> DEFINE q == n \div 3
             r == n % 3
  <1>1. q \in Nat /\ r \in {0, 1, 2} /\ n = 3 * q + r
    OBVIOUS
  <1> HIDE DEF q, r
  <1>2. CASE r = 0
    <2>1. (4 * n + 2) \div 3 = 4 * q /\ (n + 2) \div 3 = q
      BY <1>1, <1>2
    <2> QED
      BY <1>1, <1>2, <2>1 DEF CharactersFor
  <1>3. CASE r = 1
    <2>1. (4 * n + 2) \div 3 = 4 * q + 2 /\ (n + 2) \div 3 = q + 1
      BY <1>1, <1>3
    <2> QED
      BY <1>1, <1>3, <2>1 DEF CharactersFor
  <1>4. CASE r = 2
    <2>1. (4 * n + 2) \div 3 = 4 * q + 3 /\ (n + 2) \div 3 = q + 1
      BY <1>1, <1>4
    <2> QED
      BY <1>1, <1>4, <2>1 DEF CharactersFor
  <1> QED
    BY <1>1, <1>2, <1>3, <1>4

(* The group of a character, and its place there. *)
LEMMA PlaceInGroup ==
    ASSUME NEW i \in Nat
    PROVE  \E k \in Nat : i = 4 * k \/ i = 4 * k + 1 \/ i = 4 * k + 2 \/ i = 4 * k + 3
  <1> DEFINE k == i \div 4
  <1>1. k \in Nat /\ (i = 4 * k \/ i = 4 * k + 1 \/ i = 4 * k + 2 \/ i = 4 * k + 3)
    OBVIOUS
  <1> HIDE DEF k
  <1> QED
    BY <1>1

(* What the characters of one group are, as long as they stand for bytes.     *)
LEMMA CharactersOfGroup ==
    ASSUME NEW data \in Seq(0..255), NEW k \in Nat, NEW e, HasGroup(e, data, k), 3 * k + 1 <= Len(data)
    PROVE  /\ e[4 * k + 1] \in 0..63 /\ e[4 * k + 2] \in 0..63
           /\ e[4 * k + 1] * 4 + e[4 * k + 2] \div 16 = data[3 * k + 1]
           /\ 3 * k + 2 <= Len(data) =>
                  /\ e[4 * k + 3] \in 0..63
                  /\ (e[4 * k + 2] % 16) * 16 + e[4 * k + 3] \div 4 = data[3 * k + 2]
           /\ 3 * k + 3 <= Len(data) =>
                  /\ e[4 * k + 4] \in 0..63
                  /\ (e[4 * k + 3] % 4) * 64 + e[4 * k + 4] = data[3 * k + 3]
           /\ ~(3 * k + 2 <= Len(data)) => e[4 * k + 3] = Pad
           /\ ~(3 * k + 3 <= Len(data)) => e[4 * k + 4] = Pad
  <1> DEFINE b1 == ByteAt(data, 3 * k + 1)
             b2 == ByteAt(data, 3 * k + 2)
             b3 == ByteAt(data, 3 * k + 3)
             c1 == b1 \div 4
             c2 == (b1 % 4) * 16 + b2 \div 16
             c3 == (b2 % 16) * 4 + b3 \div 64
             c4 == b3 % 64
  <1>1. /\ b1 \in 0..255 /\ b2 \in 0..255 /\ b3 \in 0..255
        /\ b1 = data[3 * k + 1]
        /\ 3 * k + 2 <= Len(data) => b2 = data[3 * k + 2]
        /\ 3 * k + 3 <= Len(data) => b3 = data[3 * k + 3]
    <2>1. \A i \in 1..Len(data) : data[i] \in 0..255
      BY ElementOfSeq
    <2> QED
      BY <2>1 DEF ByteAt
  <1>2. /\ e[4 * k + 1] = c1 /\ e[4 * k + 2] = c2
        /\ 3 * k + 2 <= Len(data) => e[4 * k + 3] = c3
        /\ 3 * k + 3 <= Len(data) => e[4 * k + 4] = c4
        /\ ~(3 * k + 2 <= Len(data)) => e[4 * k + 3] = Pad
        /\ ~(3 * k + 3 <= Len(data)) => e[4 * k + 4] = Pad
    BY DEF HasGroup
  <1> HIDE DEF b1, b2, b3
  <1>3. /\ c1 \in 0..63 /\ c2 \in 0..63 /\ c3 \in 0..63 /\ c4 \in 0..63
        /\ c1 * 4 + c2 \div 16 = b1
        /\ (c2 % 16) * 16 + c3 \div 4 = b2
        /\ (c3 % 4) * 64 + c4 = b3
    <2>1. MadeOfBits(b1, b2, b3)
      BY <1>1, ThreeBytes
    <2> QED
      BY <2>1 DEF MadeOfBits
  <1> HIDE DEF c1, c2, c3, c4
  <1>4. 3 * k + 3 <= Len(data) => 3 * k + 2 <= Len(data)
    OBVIOUS
  <1> QED
    BY <1>1, <1>2, <1>3, <1>4

(* What the decoder has come to after i characters e of the bytes of data.    *)
Decoded(data, e, i, s) ==
    \E k \in Nat, v \in LowBits :
       \/ i = 4 * k /\ s = DecoderState(v, -8, FirstPart(data, 3 * k))
       \/ i = 4 * k + 1 /\ s = DecoderState(v, -2, FirstPart(data, 3 * k)) /\ v % 64 = e[i]
       \/ i = 4 * k + 2 /\ s = DecoderState(v, -4, FirstPart(data, 3 * k + 1)) /\ v % 64 = e[i]
       \/ i = 4 * k + 3 /\ s = DecoderState(v, -6, FirstPart(data, 3 * k + 2)) /\ v % 64 = e[i]

(* One character more. *)
LEMMA DecodedOneMore ==
    ASSUME NEW data \in Seq(0..255), NEW i \in Nat, NEW s,
           i + 1 <= CharactersFor(Len(data)), Decoded(data, Base64Encode(data), i, s)
    PROVE  /\ Base64Encode(data)[i + 1] \in 0..63
           /\ Decoded(data, Base64Encode(data), i + 1, DecodeCharacter(s, Base64Encode(data)[i + 1]))
  <1> DEFINE e == Base64Encode(data)
             n == Len(data)
             c == e[i + 1]
             r == DecodeCharacter(s, c)
  <1>1. PICK k \in Nat, v \in LowBits :
            \/ i = 4 * k /\ s = DecoderState(v, -8, FirstPart(data, 3 * k))
            \/ i = 4 * k + 1 /\ s = DecoderState(v, -2, FirstPart(data, 3 * k)) /\ v % 64 = e[i]
            \/ i = 4 * k + 2 /\ s = DecoderState(v, -4, FirstPart(data, 3 * k + 1)) /\ v % 64 = e[i]
            \/ i = 4 * k + 3 /\ s = DecoderState(v, -6, FirstPart(data, 3 * k + 2)) /\ v % 64 = e[i]
    BY DEF Decoded
  <1>2. n \in Nat
    OBVIOUS
  <1>3. /\ 4 * k + 1 <= CharactersFor(n) <=> 3 * k + 1 <= n
        /\ 4 * k + 2 <= CharactersFor(n) <=> 3 * k + 1 <= n
        /\ 4 * k + 3 <= CharactersFor(n) <=> 3 * k + 2 <= n
        /\ 4 * k + 4 <= CharactersFor(n) <=> 3 * k + 3 <= n
        /\ k < (n + 2) \div 3 <=> 3 * k + 1 <= n
        /\ CharactersFor(n) \in Nat
    BY <1>2, GroupsOfCharacters
  <1>4. 3 * k + 1 <= n
    BY <1>1, <1>2, <1>3
  <1>5. HasGroup(e, data, k)
    <2>1. k \in 0..((n + 2) \div 3 - 1)
      BY <1>2, <1>3, <1>4
    <2> HIDE DEF n
    <2> QED
      BY <2>1, EncodingHasItsBits DEF n
  <1>6. /\ e[4 * k + 1] \in 0..63 /\ e[4 * k + 2] \in 0..63
        /\ e[4 * k + 1] * 4 + e[4 * k + 2] \div 16 = data[3 * k + 1]
        /\ 3 * k + 2 <= n =>
               /\ e[4 * k + 3] \in 0..63
               /\ (e[4 * k + 2] % 16) * 16 + e[4 * k + 3] \div 4 = data[3 * k + 2]
        /\ 3 * k + 3 <= n =>
               /\ e[4 * k + 4] \in 0..63
               /\ (e[4 * k + 3] % 4) * 64 + e[4 * k + 4] = data[3 * k + 3]
    <2> HIDE DEF e
    <2> QED
      BY <1>4, <1>5, CharactersOfGroup
  <1>7. ASSUME NEW b \in 1..n
        PROVE  FirstPart(data, b) = Append(FirstPart(data, b - 1), data[b])
    BY FirstElements
  <1> HIDE DEF e, n, c, r
  <1>8. ASSUME c \in 0..63
        PROVE  Accumulate(v, c) \in LowBits /\ Accumulate(v, c) % 64 = c
    BY <1>8, BitsOfCharacter
  <1>9. CASE i = 4 * k /\ s = DecoderState(v, -8, FirstPart(data, 3 * k))
    <2>1. c = e[4 * k + 1] /\ c \in 0..63
      BY <1>6, <1>9 DEF c
    <2>2. r = DecoderState(Accumulate(v, c), -2, FirstPart(data, 3 * k))
      <3> DEFINE have == FirstPart(data, 3 * k)
      <3>1. s = DecoderState(v, -8, have)
        BY <1>9
      <3> HIDE DEF have
      <3>2. StepsOf(v, have, c)
        BY <2>1, DecoderStep
      <3>3. r = DecoderState(Accumulate(v, c), -2, have)
        BY <3>1, <3>2, Zenon DEF r, StepsOf
      <3> QED
        BY <3>3 DEF have
    <2>3. i + 1 = 4 * k + 1
      BY <1>9
    <2>4. Accumulate(v, c) \in LowBits /\ Accumulate(v, c) % 64 = e[i + 1]
      BY <1>8, <2>1 DEF c
    <2>5. Decoded(data, e, i + 1, r)
      BY <2>2, <2>3, <2>4 DEF Decoded
    <2> QED
      BY <2>1, <2>5 DEF c, e, r
  <1>10. CASE i = 4 * k + 1 /\ s = DecoderState(v, -2, FirstPart(data, 3 * k)) /\ v % 64 = e[i]
    <2>1. c = e[4 * k + 2] /\ c \in 0..63 /\ v % 64 = e[4 * k + 1]
      BY <1>6, <1>10 DEF c
    <2>2. r = DecoderState(Accumulate(v, c), -4, Append(FirstPart(data, 3 * k), (v % 64) * 4 + c \div 16))
      <3> DEFINE have == FirstPart(data, 3 * k)
      <3>1. s = DecoderState(v, -2, have)
        BY <1>10
      <3> HIDE DEF have
      <3>2. DecodeCharacter(DecoderState(v, -2, have), c) =
                DecoderState(Accumulate(v, c), -4, Append(have, (v % 64) * 4 + c \div 16))
        <4>1. StepsOf(v, have, c)
          BY <2>1, DecoderStep
        <4> QED
          BY <4>1, Zenon DEF StepsOf
      <3>3. r = DecoderState(Accumulate(v, c), -4, Append(have, (v % 64) * 4 + c \div 16))
        BY <3>1, <3>2 DEF r
      <3> QED
        BY <3>3 DEF have
    <2>3. (v % 64) * 4 + c \div 16 = data[3 * k + 1]
      BY <1>6, <2>1
    <2>4. FirstPart(data, 3 * k + 1) = Append(FirstPart(data, 3 * k), data[3 * k + 1])
      <3>1. 3 * k + 1 \in 1..n /\ (3 * k + 1) - 1 = 3 * k
        BY <1>2, <1>4
      <3> QED
        BY <1>7, <3>1
    <2>5. r = DecoderState(Accumulate(v, c), -4, FirstPart(data, 3 * k + 1))
      BY <2>2, <2>3, <2>4
    <2>6. i + 1 = 4 * k + 2
      BY <1>10
    <2>7. Accumulate(v, c) \in LowBits /\ Accumulate(v, c) % 64 = e[i + 1]
      BY <1>8, <2>1 DEF c
    <2>8. Decoded(data, e, i + 1, r)
      BY <2>5, <2>6, <2>7 DEF Decoded
    <2> QED
      BY <2>1, <2>8 DEF c, e, r
  <1>11. CASE i = 4 * k + 2 /\ s = DecoderState(v, -4, FirstPart(data, 3 * k + 1)) /\ v % 64 = e[i]
    <2>1. 3 * k + 2 <= n
      BY <1>3, <1>11 DEF n
    <2>2. c = e[4 * k + 3] /\ c \in 0..63 /\ v % 64 = e[4 * k + 2]
      BY <1>6, <1>11, <2>1 DEF c
    <2>3. r = DecoderState(Accumulate(v, c), -6, Append(FirstPart(data, 3 * k + 1), (v % 16) * 16 + c \div 4))
      <3> DEFINE have == FirstPart(data, 3 * k + 1)
      <3>1. s = DecoderState(v, -4, have)
        BY <1>11
      <3> HIDE DEF have
      <3>2. DecodeCharacter(DecoderState(v, -4, have), c) =
                DecoderState(Accumulate(v, c), -6, Append(have, (v % 16) * 16 + c \div 4))
        <4>1. StepsOf(v, have, c)
          BY <2>2, DecoderStep
        <4> QED
          BY <4>1, Zenon DEF StepsOf
      <3>3. r = DecoderState(Accumulate(v, c), -6, Append(have, (v % 16) * 16 + c \div 4))
        BY <3>1, <3>2 DEF r
      <3> QED
        BY <3>3 DEF have
    <2>4. (v % 16) * 16 + c \div 4 = data[3 * k + 2]
      <3>1. v % 16 = (v % 64) % 16
        BY DEF LowBits
      <3> QED
        BY <1>6, <2>1, <2>2, <3>1
    <2>5. FirstPart(data, 3 * k + 2) = Append(FirstPart(data, 3 * k + 1), data[3 * k + 2])
      <3>1. 3 * k + 2 \in 1..n /\ (3 * k + 2) - 1 = 3 * k + 1
        BY <1>2, <2>1
      <3> QED
        BY <1>7, <3>1
    <2>6. r = DecoderState(Accumulate(v, c), -6, FirstPart(data, 3 * k + 2))
      BY <2>3, <2>4, <2>5
    <2>7. i + 1 = 4 * k + 3
      BY <1>11
    <2>8. Accumulate(v, c) \in LowBits /\ Accumulate(v, c) % 64 = e[i + 1]
      BY <1>8, <2>2 DEF c
    <2>9. Decoded(data, e, i + 1, r)
      BY <2>6, <2>7, <2>8 DEF Decoded
    <2> QED
      BY <2>2, <2>9 DEF c, e, r
  <1>12. CASE i = 4 * k + 3 /\ s = DecoderState(v, -6, FirstPart(data, 3 * k + 2)) /\ v % 64 = e[i]
    <2>1. 3 * k + 3 <= n /\ 3 * k + 2 <= n
      BY <1>2, <1>3, <1>12 DEF n
    <2>2. c = e[4 * k + 4] /\ c \in 0..63 /\ v % 64 = e[4 * k + 3]
      BY <1>6, <1>12, <2>1 DEF c
    <2>3. r = DecoderState(Accumulate(v, c), -8, Append(FirstPart(data, 3 * k + 2), (v % 4) * 64 + c))
      <3> DEFINE have == FirstPart(data, 3 * k + 2)
      <3>1. s = DecoderState(v, -6, have)
        BY <1>12
      <3> HIDE DEF have
      <3>2. DecodeCharacter(DecoderState(v, -6, have), c) =
                DecoderState(Accumulate(v, c), -8, Append(have, (v % 4) * 64 + c))
        <4>1. StepsOf(v, have, c)
          BY <2>2, DecoderStep
        <4> QED
          BY <4>1, Zenon DEF StepsOf
      <3>3. r = DecoderState(Accumulate(v, c), -8, Append(have, (v % 4) * 64 + c))
        BY <3>1, <3>2 DEF r
      <3> QED
        BY <3>3 DEF have
    <2>4. (v % 4) * 64 + c = data[3 * k + 3]
      <3>1. v % 4 = (v % 64) % 4
        BY DEF LowBits
      <3> QED
        BY <1>6, <2>1, <2>2, <3>1
    <2> DEFINE m == k + 1
    <2>5. FirstPart(data, 3 * m) = Append(FirstPart(data, 3 * k + 2), data[3 * k + 3])
      <3>1. 3 * k + 3 \in 1..n /\ (3 * k + 3) - 1 = 3 * k + 2 /\ 3 * m = 3 * k + 3
        BY <1>2, <2>1
      <3> HIDE DEF m
      <3> QED
        BY <1>7, <3>1
    <2>6. i + 1 = 4 * m /\ m \in Nat
      BY <1>12
    <2> HIDE DEF m
    <2>7. r = DecoderState(Accumulate(v, c), -8, FirstPart(data, 3 * m))
      BY <2>3, <2>4, <2>5
    <2>8. Accumulate(v, c) \in LowBits
      BY <1>8, <2>2
    <2>9. Decoded(data, e, i + 1, r)
      BY <2>7, <2>6, <2>8 DEF Decoded
    <2> QED
      BY <2>2, <2>9 DEF c, e, r
  <1> QED
    BY <1>1, <1>9, <1>10, <1>11, <1>12

(* The decoder stays within its states. *)
LEMMA DecoderGoesOn ==
    ASSUME NEW s \in DecoderStates, NEW t \in 0..63
    PROVE  DecodeCharacter(s, t) \in DecoderStates
  <1> DEFINE v == s.val
             have == s.out
             z == Accumulate(v, t)
  <1>1. v \in LowBits /\ s.valb \in {-8, -6, -4, -2} /\ have \in Seq(0..255)
    BY DEF DecoderStates
  <1>2. s = DecoderState(v, s.valb, have)
    BY DEF DecoderStates, DecoderState
  <1> HIDE DEF v, have
  <1>3. z \in LowBits
    BY <1>1, BitsOfCharacter
  <1> HIDE DEF z
  <1>4. StepsOf(v, have, t)
    BY <1>1, DecoderStep
  <1>5. ASSUME NEW w \in {-8, -6, -4, -2}, NEW o \in Seq(0..255)
        PROVE  DecoderState(z, w, o) \in DecoderStates
    BY <1>3, <1>5 DEF DecoderState, DecoderStates
  <1>6. ASSUME NEW b \in 0..255
        PROVE  Append(have, b) \in Seq(0..255)
    BY <1>1
  <1>7. /\ (v % 64) * 4 + t \div 16 \in 0..255
        /\ (v % 16) * 16 + t \div 4 \in 0..255
        /\ (v % 4) * 64 + t \in 0..255
    BY <1>1 DEF LowBits
  <1>8. CASE s.valb = -8
    <2>1. DecodeCharacter(s, t) = DecoderState(z, -2, have)
      BY <1>2, <1>4, <1>8, Zenon DEF StepsOf, z
    <2> QED
      BY <1>1, <1>5, <2>1
  <1>9. CASE s.valb = -2
    <2> DEFINE b == (v % 64) * 4 + t \div 16
    <2>1. DecodeCharacter(s, t) = DecoderState(z, -4, Append(have, b))
      BY <1>2, <1>4, <1>9, Zenon DEF StepsOf, z
    <2>2. b \in 0..255
      BY <1>7
    <2> HIDE DEF b
    <2> QED
      BY <1>5, <1>6, <2>1, <2>2
  <1>10. CASE s.valb = -4
    <2> DEFINE b == (v % 16) * 16 + t \div 4
    <2>1. DecodeCharacter(s, t) = DecoderState(z, -6, Append(have, b))
      BY <1>2, <1>4, <1>10, Zenon DEF StepsOf, z
    <2>2. b \in 0..255
      BY <1>7
    <2> HIDE DEF b
    <2> QED
      BY <1>5, <1>6, <2>1, <2>2
  <1>11. CASE s.valb = -6
    <2> DEFINE b == (v % 4) * 64 + t
    <2>1. DecodeCharacter(s, t) = DecoderState(z, -8, Append(have, b))
      BY <1>2, <1>4, <1>11, Zenon DEF StepsOf, z
    <2>2. b \in 0..255
      BY <1>7
    <2> HIDE DEF b
    <2> QED
      BY <1>5, <1>6, <2>1, <2>2
  <1> QED
    BY <1>1, <1>8, <1>9, <1>10, <1>11

(* The text ends with the last character that stands for a byte.              *)
LEMMA TextOfCut ==
    ASSUME NEW data \in Seq(0..255), NEW cut \in Seq(Int),
           Len(cut) <= Len(Base64Encode(data)),
           \A i \in 1..Len(cut) : cut[i] = Base64Encode(data)[i]
    PROVE  LET chars == UpTo(cut, EndOfText(cut))
               r == CharactersFor(Len(data))
           IN /\ Len(chars) = IF Len(cut) <= r THEN Len(cut) ELSE r
              /\ \A i \in 1..Len(chars) : chars[i] = Base64Encode(data)[i] /\ chars[i] \in 0..63
  <1> DEFINE e == Base64Encode(data)
             n == Len(data)
             m == Len(cut)
             r == CharactersFor(n)
             Stands(i) == cut[i] \in 0..63
             I == {i \in 1..m : ~Stands(i)}
             chars == UpTo(cut, EndOfText(cut))
  <1>1. n \in Nat /\ m \in Nat /\ r \in Nat /\ r <= 4 * ((n + 2) \div 3)
    <2>1. n \in Nat /\ m \in Nat
      OBVIOUS
    <2> HIDE DEF n
    <2> QED
      BY <2>1, GroupsOfCharacters
  <1>2. m <= 4 * ((n + 2) \div 3)
    BY EncodingHasItsBits
  <1>3. \A i \in 1..m : cut[i] = e[i]
    OBVIOUS
  <1>4. ASSUME NEW i \in 1..m
        PROVE  cut[i] \in 0..63 <=> i <= r
    <2> DEFINE j == i - 1
    <2>1. j \in Nat /\ i = j + 1
      BY <1>1
    <2> HIDE DEF j
    <2>2. PICK k \in Nat : j = 4 * k \/ j = 4 * k + 1 \/ j = 4 * k + 2 \/ j = 4 * k + 3
      BY <2>1, PlaceInGroup
    <2>3. /\ 4 * k + 1 <= r <=> 3 * k + 1 <= n
          /\ 4 * k + 2 <= r <=> 3 * k + 1 <= n
          /\ 4 * k + 3 <= r <=> 3 * k + 2 <= n
          /\ 4 * k + 4 <= r <=> 3 * k + 3 <= n
          /\ k < (n + 2) \div 3 <=> 3 * k + 1 <= n
      BY <1>1, GroupsOfCharacters
    <2>4. k < (n + 2) \div 3
      <3> DEFINE q == (n + 2) \div 3
      <3>1. q \in Nat /\ 4 * k + 1 <= 4 * q
        BY <1>1, <1>2, <2>1, <2>2
      <3> HIDE DEF q
      <3>2. k < q
        BY <3>1
      <3> QED
        BY <3>2 DEF q
    <2>5. 3 * k + 1 <= n
      BY <2>3, <2>4
    <2>6. HasGroup(e, data, k)
      <3>1. k \in 0..((n + 2) \div 3 - 1)
        BY <1>1, <2>4
      <3> HIDE DEF n
      <3> QED
        BY <3>1, EncodingHasItsBits DEF n
    <2> HIDE DEF e
    <2>7. /\ e[4 * k + 1] \in 0..63 /\ e[4 * k + 2] \in 0..63
          /\ 3 * k + 2 <= n => e[4 * k + 3] \in 0..63
          /\ 3 * k + 3 <= n => e[4 * k + 4] \in 0..63
          /\ ~(3 * k + 2 <= n) => e[4 * k + 3] = Pad
          /\ ~(3 * k + 3 <= n) => e[4 * k + 4] = Pad
      BY <2>5, <2>6, CharactersOfGroup
    <2>8. Pad \notin 0..63
      BY DEF Pad
    <2>9. cut[i] = e[i]
      BY <1>3
    <2> HIDE DEF r, n
    <2>10. CASE j = 4 * k
      BY <2>1, <2>3, <2>5, <2>7, <2>9, <2>10
    <2>11. CASE j = 4 * k + 1
      <3>1. i = 4 * k + 2
        BY <2>1, <2>11
      <3> QED
        BY <2>3, <2>5, <2>7, <2>9, <3>1
    <2>12. CASE j = 4 * k + 2
      <3>1. i = 4 * k + 3
        BY <2>1, <2>12
      <3> QED
        BY <2>3, <2>7, <2>8, <2>9, <3>1
    <2>13. CASE j = 4 * k + 3
      <3>1. i = 4 * k + 4
        BY <2>1, <2>13
      <3> QED
        BY <2>3, <2>7, <2>8, <2>9, <3>1
    <2> QED
      BY <2>2, <2>10, <2>11, <2>12, <2>13
  <1>5. \A i \in 1..m : i <= r <=> Stands(i)
    BY <1>4
  <1>6. EndOfText(cut) = IF I # {} THEN Min(I) ELSE 0
    BY DEF EndOfText, SelectInSeq
  <1> HIDE DEF e, n, r, Stands, chars
  <1>7. CASE m <= r
    <2>1. I = {}
      BY <1>1, <1>7, <1>5
    <2>2. chars = cut
      BY <1>6, <2>1 DEF UpTo, chars
    <2>3. \A i \in 1..m : chars[i] = e[i] /\ chars[i] \in 0..63
      BY <1>1, <1>3, <1>7, <1>5, <2>2 DEF Stands
    <2> QED
      BY <1>7, <2>2, <2>3 DEF e, r, n, chars
  <1>8. CASE m > r
    <2>1. r + 1 \in I
      BY <1>1, <1>8, <1>5
    <2>2. \A i \in I : i \in Nat /\ r + 1 <= i
      BY <1>1, <1>5
    <2>3. Min(I) = r + 1
      <3> HIDE DEF I
      <3> QED
        BY <1>1, <2>1, <2>2 DEF Min
    <2>4. EndOfText(cut) = r + 1
      BY <1>6, <2>1, <2>3
    <2>5. chars = SubSeq(cut, 1, r)
      BY <1>1, <2>4 DEF UpTo, chars
    <2>6. /\ Len(SubSeq(cut, 1, r)) = r
          /\ \A i \in 1..r : SubSeq(cut, 1, r)[i] = cut[i]
      BY <1>1, <1>8
    <2>7. \A i \in 1..r : cut[i] = e[i] /\ cut[i] \in 0..63
      BY <1>1, <1>3, <1>8, <1>5 DEF Stands
    <2>8. Len(chars) = r /\ \A i \in 1..r : chars[i] = e[i] /\ chars[i] \in 0..63
      BY <2>5, <2>6, <2>7
    <2> QED
      BY <1>1, <1>8, <2>8 DEF e, r, n, chars
  <1> QED
    BY <1>1, <1>7, <1>8

(* The beginning of a text is decoded to the beginning of its bytes, and the  *)
(* whole text to all of them.                                                 *)
LEMMA Base64OfCut ==
    ASSUME NEW data \in Seq(0..255), NEW cut \in Seq(Int),
           Len(cut) <= Len(Base64Encode(data)),
           \A i \in 1..Len(cut) : cut[i] = Base64Encode(data)[i]
    PROVE  \E b \in 0..Len(data) :
              /\ Base64Decode(cut) = FirstPart(data, b)
              /\ Len(cut) = Len(Base64Encode(data)) => b = Len(data)
  <1> DEFINE e == Base64Encode(data)
             n == Len(data)
             chars == UpTo(cut, EndOfText(cut))
             p == Len(chars)
             first == [val |-> 0, valb |-> -8, out |-> <<>>]
             IsAfter(f) == f = [i \in 0..p |-> IF i = 0 THEN first
                                               ELSE DecodeCharacter(f[i - 1], chars[i])]
             after == CHOOSE f : IsAfter(f)
  <1>1. /\ p = IF Len(cut) <= CharactersFor(n) THEN Len(cut) ELSE CharactersFor(n)
        /\ \A i \in 1..p : chars[i] = e[i] /\ chars[i] \in 0..63
    BY TextOfCut
  <1>2. /\ CharactersFor(n) \in Nat /\ CharactersFor(n) <= 4 * ((n + 2) \div 3)
        /\ (3 * CharactersFor(n)) \div 4 = n /\ n \in Nat
    <2>1. n \in Nat
      OBVIOUS
    <2> HIDE DEF n
    <2> QED
      BY <2>1, GroupsOfCharacters
  <1>3. p \in Nat /\ p <= CharactersFor(n)
    BY <1>1, <1>2
  <1>4. Len(e) = 4 * ((n + 2) \div 3)
    BY EncodingHasItsBits
  <1>5. Base64Decode(cut) = after[p].out
    BY DEF Base64Decode
  <1>6. first \in DecoderStates
    BY DEF DecoderStates, LowBits
  <1>7. Decoded(data, e, 0, first)
    <2>1. first = DecoderState(0, -8, FirstPart(data, 3 * 0))
      <3>1. FirstPart(data, 0) = <<>> /\ 3 * 0 = 0
        BY FirstElements
      <3> QED
        BY <3>1 DEF DecoderState
    <2>2. 0 \in LowBits /\ 0 = 4 * 0 /\ 0 \in Nat
      BY DEF LowBits
    <2> HIDE DEF first, e
    <2> QED
      BY <2>1, <2>2 DEF Decoded
  <1> HIDE DEF e, n, chars, p, first
  <1>8. \E f : IsAfter(f)
    <2> DEFINE T == DecoderStates
               next == [i \in 1..p |-> [s \in T |-> DecodeCharacter(s, chars[i])]]
    <2>1. ASSUME NEW i \in 1..p, NEW s \in T
          PROVE  DecodeCharacter(s, chars[i]) \in T
      BY <1>1, DecoderGoesOn
    <2> HIDE DEF T
    <2>2. next \in [1..p -> [T -> T]]
      BY <2>1, Zenon
    <2>3. first \in T
      BY <1>6 DEF T
    <2>4. ASSUME NEW i \in 1..p, NEW s \in T
          PROVE  next[i][s] = DecodeCharacter(s, chars[i])
      BY <2>4, Zenon
    <2> HIDE DEF next
    <2>5. \E f \in [0..p -> T] : AreRounds(f, first, next, p)
      BY <1>3, <2>2, <2>3, SomeRounds
    <2>6. PICK f \in [0..p -> T] : AreRounds(f, first, next, p)
      BY <2>5
    <2>7. ASSUME NEW i \in 0..p
          PROVE  f[i] = IF i = 0 THEN first ELSE DecodeCharacter(f[i - 1], chars[i])
      <3>1. CASE i = 0
        BY <2>6, <3>1 DEF AreRounds
      <3>2. CASE i # 0
        <4>1. i \in 1..p /\ i - 1 \in 0..p
          BY <1>3, <3>2
        <4>2. f[i] = next[i][f[i - 1]] /\ f[i - 1] \in T
          BY <2>6, <4>1 DEF AreRounds
        <4> QED
          BY <2>4, <3>2, <4>1, <4>2
      <3> QED
        BY <3>1, <3>2
    <2>8. f = [i \in 0..p |-> f[i]]
      BY <2>6
    <2>9. IsAfter(f)
      BY <2>7, <2>8, Zenon
    <2> QED
      BY <2>9, Zenon
  <1>9. IsAfter(after)
    BY <1>8, Zenon
  <1> HIDE DEF after
  <1>10. \A i \in 0..p : after[i] = IF i = 0 THEN first ELSE DecodeCharacter(after[i - 1], chars[i])
    BY <1>9, Zenon
  <1> DEFINE Reached == {i \in Nat : i <= p => Decoded(data, e, i, after[i])}
  <1>11. p \in Reached
    <2>1. 0 \in Reached
      BY <1>3, <1>7, <1>10
    <2>2. ASSUME NEW i \in Nat, i \in Reached
          PROVE  i + 1 \in Reached
      <3> SUFFICES ASSUME i + 1 <= p
                   PROVE  Decoded(data, e, i + 1, after[i + 1])
        OBVIOUS
      <3> DEFINE j == i + 1
      <3>1. j \in 1..p /\ j \in 0..p /\ j # 0 /\ j - 1 = i
        BY <1>3
      <3>2. Decoded(data, e, i, after[i]) /\ j <= CharactersFor(n)
        BY <1>2, <1>3, <2>2, <3>1
      <3> HIDE DEF j
      <3>3. after[j] = DecodeCharacter(after[i], e[j])
        BY <1>1, <1>10, <3>1, Zenon
      <3>4. Decoded(data, e, j, DecodeCharacter(after[i], e[j]))
        BY <3>2, DecodedOneMore DEF j, e, n
      <3> QED
        BY <3>3, <3>4 DEF j
    <2> HIDE DEF Reached
    <2> QED
      BY <1>3, <2>1, <2>2, AllNumbers
  <1>12. after[p].out = FirstPart(data, (3 * p) \div 4)
    <2>1. PICK k \in Nat, v \in LowBits :
              \/ p = 4 * k /\ after[p] = DecoderState(v, -8, FirstPart(data, 3 * k))
              \/ p = 4 * k + 1 /\ after[p] = DecoderState(v, -2, FirstPart(data, 3 * k))
              \/ p = 4 * k + 2 /\ after[p] = DecoderState(v, -4, FirstPart(data, 3 * k + 1))
              \/ p = 4 * k + 3 /\ after[p] = DecoderState(v, -6, FirstPart(data, 3 * k + 2))
      BY <1>3, <1>11 DEF Decoded
    <2>2. /\ p = 4 * k => (3 * p) \div 4 = 3 * k
          /\ p = 4 * k + 1 => (3 * p) \div 4 = 3 * k
          /\ p = 4 * k + 2 => (3 * p) \div 4 = 3 * k + 1
          /\ p = 4 * k + 3 => (3 * p) \div 4 = 3 * k + 2
      <3>1. /\ (3 * (4 * k)) \div 4 = 3 * k
            /\ (3 * (4 * k + 1)) \div 4 = 3 * k
            /\ (3 * (4 * k + 2)) \div 4 = 3 * k + 1
            /\ (3 * (4 * k + 3)) \div 4 = 3 * k + 2
        OBVIOUS
      <3> QED
        BY <3>1
    <2> QED
      BY <2>1, <2>2 DEF DecoderState
  <1> DEFINE b == (3 * p) \div 4
  <1>13. b \in 0..n
    BY <1>2, <1>3
  <1>14. Len(cut) = Len(e) => b = n
    BY <1>1, <1>2, <1>4, SMTT(30)
  <1> HIDE DEF b
  <1> QED
    BY <1>5, <1>12, <1>13, <1>14 DEF e, n, b

-----------------------------------------------------------------------------
(* Numbers: what asUint makes of the beginning of one.                        *)

(* worth[i] is what the first i of these digits say. *)
Spelled(digits, worth) ==
    /\ worth[0] = 0
    /\ \A i \in 1..Len(digits) : worth[i] = 10 * worth[i - 1] + digits[i]

Spells(digits, n) ==
    /\ digits \in Seq(0..9)
    /\ \E worth \in [0..Len(digits) -> Nat] : Spelled(digits, worth) /\ worth[Len(digits)] = n

(* One more digit. *)
LEMMA SpellsOneMore ==
    ASSUME NEW digits, NEW n, Spells(digits, n), NEW d \in 0..9
    PROVE  Spells(digits \o <<d>>, 10 * n + d)
  <1>1. PICK worth \in [0..Len(digits) -> Nat] : Spelled(digits, worth) /\ worth[Len(digits)] = n
    BY DEF Spells
  <1> DEFINE size == Len(digits)
             all == digits \o <<d>>
             more == [i \in 0..(size + 1) |-> IF i <= size THEN worth[i] ELSE 10 * n + d]
  <1>2. digits \in Seq(0..9) /\ size \in Nat
    BY DEF Spells
  <1>3. /\ all \in Seq(0..9) /\ Len(all) = size + 1 /\ all[size + 1] = d
        /\ \A i \in 1..size : all[i] = digits[i]
    BY <1>2
  <1>4. n \in Nat /\ 10 * n + d \in Nat
    BY <1>1, <1>2
  <1>5. more \in [0..(size + 1) -> Nat]
    BY <1>1, <1>2, <1>4
  <1>6. more[0] = 0 /\ more[size + 1] = 10 * n + d
    BY <1>1, <1>2 DEF Spelled
  <1>7. ASSUME NEW i \in 1..(size + 1)
        PROVE  more[i] = 10 * more[i - 1] + all[i]
    BY <1>1, <1>2, <1>3, <1>4, SMTT(30) DEF Spelled
  <1> HIDE DEF all, more, size
  <1>8. more \in [0..Len(all) -> Nat] /\ Spelled(all, more) /\ more[Len(all)] = 10 * n + d
    BY <1>3, <1>5, <1>6, <1>7 DEF Spelled
  <1>9. \E w \in [0..Len(all) -> Nat] : Spelled(all, w) /\ w[Len(all)] = 10 * n + d
    BY <1>8
  <1> QED
    BY <1>3, <1>9 DEF Spells, all

(* A digit stands for itself. *)
LEMMA SpellsDigit ==
    ASSUME NEW d \in 0..9
    PROVE  Spells(<<d>>, d)
  <1> DEFINE worth == [i \in 0..1 |-> IF i = 0 THEN 0 ELSE d]
  <1>1. <<d>> \in Seq(0..9) /\ Len(<<d>>) = 1 /\ <<d>>[1] = d
    OBVIOUS
  <1>2. worth \in [0..1 -> Nat] /\ worth[0] = 0 /\ worth[1] = d
    OBVIOUS
  <1> HIDE DEF worth
  <1>3. Spelled(<<d>>, worth) /\ worth[Len(<<d>>)] = d
    BY <1>1, <1>2 DEF Spelled
  <1> QED
    BY <1>1, <1>2, <1>3 DEF Spells

(* A number is written with digits that spell it. *)
LEMMA NumberIsSpelled ==
    ASSUME NEW n \in Nat
    PROVE  Spells(WriteNumber(n), n)
  <1> DEFINE D == Nat
             T == Seq(Nat)
             size == [m \in D |-> m]
             stop == 0..9
             base == [m \in Nat |-> <<m>>]
             prev == [m \in Nat |-> m \div 10]
             next == [m \in Nat |-> [t \in T |-> t \o <<m % 10>>]]
             IsFrom(f) == f = [m \in Nat |-> IF m < 10 THEN <<m>> ELSE f[m \div 10] \o <<m % 10>>]
             from == CHOOSE f : IsFrom(f)
  <1>1. /\ size \in [D -> Nat] /\ stop \in SUBSET D
        /\ base \in [D -> T] /\ prev \in [D -> D] /\ next \in [D -> [T -> T]]
    <2>1. ASSUME NEW m \in Nat
          PROVE  m \div 10 \in Nat /\ m % 10 \in Nat /\ <<m>> \in T
      OBVIOUS
    <2>2. ASSUME NEW m \in Nat, NEW t \in T
          PROVE  t \o <<m % 10>> \in T
      <3> DEFINE d == m % 10
      <3>1. d \in Nat
        OBVIOUS
      <3> HIDE DEF d
      <3> QED
        BY <3>1
    <2> QED
      BY <2>1, <2>2
  <1>2. ASSUME NEW m \in D, m \notin stop
        PROVE  size[prev[m]] < size[m]
    BY <1>2
  <1>3. \E f \in [D -> T] : IsRecursion(f, D, stop, base, prev, next)
    <2> HIDE DEF D, T, size, stop, base, prev, next
    <2> QED
      BY <1>1, <1>2, RecursionExists
  <1>4. PICK f \in [D -> T] : IsRecursion(f, D, stop, base, prev, next)
    BY <1>3
  <1>5. ASSUME NEW m \in Nat
        PROVE  f[m] = IF m < 10 THEN <<m>> ELSE f[m \div 10] \o <<m % 10>>
    <2>1. m \div 10 \in Nat /\ f[m \div 10] \in T
      OBVIOUS
    <2>2. f[m] = IF m \in stop THEN base[m] ELSE next[m][f[prev[m]]]
      BY <1>4 DEF IsRecursion
    <2>3. base[m] = <<m>> /\ prev[m] = m \div 10
      OBVIOUS
    <2>4. next[m][f[m \div 10]] = f[m \div 10] \o <<m % 10>>
      <3> DEFINE s == f[m \div 10]
      <3>1. s \in T
        BY <2>1
      <3> HIDE DEF s
      <3>2. next[m][s] = s \o <<m % 10>>
        BY <3>1, Zenon
      <3> QED
        BY <3>2 DEF s
    <2>5. m \in stop <=> m < 10
      OBVIOUS
    <2> HIDE DEF base, prev, next, stop
    <2> QED
      BY <2>2, <2>3, <2>4, <2>5, Zenon
  <1>6. IsFrom(f)
    BY <1>4, <1>5, Zenon
  <1>7. IsFrom(from)
    BY <1>6, Zenon
  <1>8. WriteNumber(n) = from[n]
    BY DEF WriteNumber
  <1>9. \A m \in Nat : from[m] = IF m < 10 THEN <<m>> ELSE from[m \div 10] \o <<m % 10>>
    <2> HIDE DEF from
    <2> QED
      BY <1>7, Zenon
  <1> HIDE DEF from
  <1> DEFINE Small == {k \in Nat : \A m \in Nat : m < k => Spells(from[m], m)}
  <1>10. 0 \in Small
    OBVIOUS
  <1>11. ASSUME NEW k \in Nat, k \in Small
         PROVE  k + 1 \in Small
    <2>1. CASE k < 10
      <3>1. from[k] = <<k>>
        BY <1>9, <2>1, Zenon
      <3>2. k \in 0..9
        BY <2>1
      <3>3. Spells(from[k], k)
        BY <3>1, <3>2, SpellsDigit
      <3> QED
        BY <1>11, <3>3
    <2>2. CASE ~(k < 10)
      <3> DEFINE q == k \div 10
                 r == k % 10
      <3>1. q \in Nat /\ q < k /\ r \in 0..9 /\ k = 10 * q + r
        BY <2>2
      <3>2. from[k] = from[q] \o <<r>>
        BY <1>9, <2>2
      <3> HIDE DEF q, r
      <3>3. Spells(from[q], q)
        BY <1>11, <3>1
      <3>4. Spells(from[q] \o <<r>>, 10 * q + r)
        BY <3>1, <3>3, SpellsOneMore
      <3>5. Spells(from[k], k)
        BY <3>1, <3>2, <3>4
      <3> QED
        BY <1>11, <3>5
    <2> QED
      BY <2>1, <2>2
  <1>12. n + 1 \in Small
    <2> HIDE DEF Small
    <2> QED
      BY <1>10, <1>11, AllNumbers
  <1> QED
    BY <1>8, <1>12

(* seen is what there is of a value: its beginning, or all of it and more.    *)
Begins(seen, value) ==
    /\ seen \in Seq(Int)
    /\ \A i \in 1..Len(seen) : i <= Len(value) => seen[i] = value[i]

(* The digits of a number end where the number does. *)
LEMMA DigitsOfCut ==
    ASSUME NEW digits \in Seq(0..9), NEW seen, Begins(seen, digits \o <<Shut>>)
    PROVE  /\ Digits(seen) \in Seq(Int)
           /\ Len(Digits(seen)) = IF Len(seen) <= Len(digits) THEN Len(seen) ELSE Len(digits)
           /\ \A i \in 1..Len(Digits(seen)) : Digits(seen)[i] = digits[i]
  <1> DEFINE n == Len(digits)
             value == digits \o <<Shut>>
             I == {i \in 1..Len(seen) : seen[i] < 0}
  <1>1. /\ n \in Nat /\ Len(value) = n + 1 /\ value[n + 1] = Shut
        /\ \A i \in 1..n : value[i] = digits[i] /\ digits[i] \in 0..9
    BY DEF Shut
  <1>2. seen \in Seq(Int) /\ Len(seen) \in Nat
    BY DEF Begins
  <1>3. \A i \in 1..Len(seen) : i <= n => seen[i] = digits[i]
    BY <1>1, <1>2 DEF Begins
  <1>4. \A i \in 1..Len(seen) : seen[i] < 0 => i >= n + 1
    <2> SUFFICES ASSUME NEW i \in 1..Len(seen), i <= n
                 PROVE  ~(seen[i] < 0)
      BY <1>1, <1>2
    <2>1. digits[i] \in 0..9 /\ seen[i] = digits[i]
      BY <1>1, <1>2, <1>3
    <2> QED
      BY <2>1
  <1>5. n + 1 <= Len(seen) => seen[n + 1] = Shut
    BY <1>1, <1>2, SMTT(30) DEF Begins
  <1>6. EndOfDigits(seen) = IF I # {} THEN Min(I) ELSE 0
    BY DEF EndOfDigits, SelectInSeq
  <1> HIDE DEF value
  <1>7. CASE Len(seen) <= n
    <2>1. I = {}
      BY <1>1, <1>2, <1>7, <1>4
    <2>2. Digits(seen) = seen
      BY <1>6, <2>1 DEF Digits, UpTo
    <2> QED
      BY <1>2, <1>3, <1>7, <2>2
  <1>8. CASE Len(seen) > n
    <2>1. n + 1 \in I
      BY <1>1, <1>2, <1>5, <1>8 DEF Shut
    <2>2. \A i \in I : i \in Nat /\ n + 1 <= i
      BY <1>1, <1>2, <1>4
    <2>3. Min(I) = n + 1
      <3> HIDE DEF I
      <3> QED
        BY <1>1, <2>1, <2>2 DEF Min
    <2>4. EndOfDigits(seen) = n + 1
      BY <1>6, <2>1, <2>3
    <2>5. Digits(seen) = SubSeq(seen, 1, n)
      BY <1>1, <2>4 DEF Digits, UpTo
    <2>6. /\ SubSeq(seen, 1, n) \in Seq(Int) /\ Len(SubSeq(seen, 1, n)) = n
          /\ \A i \in 1..n : SubSeq(seen, 1, n)[i] = seen[i]
      BY <1>1, <1>2, <1>8
    <2> QED
      BY <1>1, <1>3, <1>8, <2>5, <2>6
  <1> QED
    BY <1>1, <1>2, <1>7, <1>8

(* What is read of a number that was cut is not more than the number. *)
LEMMA NumberOfCut ==
    ASSUME NEW n \in Nat, NEW seen, Begins(seen, WriteNumber(n) \o <<Shut>>)
    PROVE  /\ AsUint(seen) \in 0..n
           /\ Len(seen) >= Len(WriteNumber(n)) => AsUint(seen) = n
  <1> DEFINE digits == WriteNumber(n)
             read == Digits(seen)
             k == Len(read)
             IsUpto(f) == f = [i \in 0..k |-> IF i = 0 THEN 0 ELSE 10 * f[i - 1] + read[i]]
             upto == CHOOSE f : IsUpto(f)
  <1>1. Spells(digits, n)
    BY NumberIsSpelled
  <1>2. digits \in Seq(0..9) /\ Len(digits) \in Nat /\ \A i \in 1..Len(digits) : digits[i] \in 0..9
    BY <1>1 DEF Spells
  <1>3. PICK worth \in [0..Len(digits) -> Nat] :
            Spelled(digits, worth) /\ worth[Len(digits)] = n
    BY <1>1 DEF Spells
  <1>4. /\ k = IF Len(seen) <= Len(digits) THEN Len(seen) ELSE Len(digits)
        /\ \A i \in 1..k : read[i] = digits[i]
    BY <1>2, DigitsOfCut
  <1>5. k \in 0..Len(digits) /\ (Len(seen) >= Len(digits) => k = Len(digits))
    BY <1>2, <1>4 DEF Begins
  <1>6. AsUint(seen) = upto[k]
    BY DEF AsUint
  <1> HIDE DEF digits, read, k
  <1>7. \E f : IsUpto(f)
    <2> DEFINE part == [i \in 0..k |-> worth[i]]
    <2>1. ASSUME NEW i \in 0..k
          PROVE  part[i] = IF i = 0 THEN 0 ELSE 10 * part[i - 1] + read[i]
      BY <1>3, <1>4, <1>5 DEF Spelled
    <2>2. part = [i \in 0..k |-> part[i]]
      OBVIOUS
    <2> HIDE DEF part
    <2>3. IsUpto(part)
      BY <2>1, <2>2, Zenon
    <2> QED
      BY <2>3
  <1>8. IsUpto(upto)
    BY <1>7, Zenon
  <1> HIDE DEF upto
  <1>9. \A i \in 0..k : upto[i] = IF i = 0 THEN 0 ELSE 10 * upto[i - 1] + read[i]
    BY <1>8, Zenon
  <1> DEFINE Same == {i \in Nat : i <= k => upto[i] = worth[i]}
             Below == {i \in Nat : i <= Len(digits) - k => worth[k] <= worth[k + i]}
  <1>10. k \in Same
    <2>1. 0 \in Same
      BY <1>3, <1>5, <1>9 DEF Spelled
    <2>2. ASSUME NEW i \in Nat, i \in Same
          PROVE  i + 1 \in Same
      <3> SUFFICES ASSUME i + 1 <= k
                   PROVE  upto[i + 1] = worth[i + 1]
        OBVIOUS
      <3> DEFINE j == i + 1
      <3>1. j \in 1..k /\ j \in 0..k /\ j # 0 /\ j - 1 = i /\ j \in 1..Len(digits)
        BY <1>5
      <3> HIDE DEF j
      <3>2. upto[j] = 10 * upto[j - 1] + read[j]
        BY <1>9, <3>1, Zenon
      <3>3. worth[j] = 10 * worth[j - 1] + digits[j]
        BY <1>3, <3>1 DEF Spelled
      <3>4. upto[i] = worth[i]
        BY <1>5, <2>2, <3>1
      <3>5. upto[j] = worth[j]
        BY <1>4, <3>1, <3>2, <3>3, <3>4
      <3> QED
        BY <3>5 DEF j
    <2> HIDE DEF Same
    <2> QED
      BY <1>5, <2>1, <2>2, AllNumbers
  <1>11. Len(digits) - k \in Below
    <2>1. 0 \in Below
      BY <1>3, <1>5
    <2>2. ASSUME NEW i \in Nat, i \in Below
          PROVE  i + 1 \in Below
      <3> SUFFICES ASSUME i + 1 <= Len(digits) - k
                   PROVE  worth[k] <= worth[k + (i + 1)]
        OBVIOUS
      <3> DEFINE j == k + (i + 1)
      <3>1. j \in 1..Len(digits) /\ j - 1 = k + i /\ j - 1 \in 0..Len(digits) /\ k \in 0..Len(digits)
        BY <1>2, <1>5
      <3> HIDE DEF j
      <3>2. worth[j] = 10 * worth[j - 1] + digits[j]
        BY <1>3, <3>1 DEF Spelled
      <3>3. worth[k] <= worth[j - 1]
        BY <1>2, <1>5, <2>2, <3>1
      <3>4. worth[k] \in Nat /\ worth[j - 1] \in Nat /\ digits[j] \in Nat
        BY <1>2, <1>3, <3>1, SMTT(30)
      <3>5. worth[k] <= worth[j]
        BY <3>2, <3>3, <3>4
      <3> QED
        BY <3>5 DEF j
    <2> HIDE DEF Below
    <2>3. Len(digits) - k \in Nat
      BY <1>2, <1>5
    <2> QED
      BY <2>1, <2>2, <2>3, AllNumbers
  <1>12. upto[k] = worth[k] /\ worth[k] \in Nat /\ worth[k] <= n
    BY <1>2, <1>3, <1>5, <1>10, <1>11
  <1> QED
    BY <1>3, <1>5, <1>6, <1>12 DEF digits

-----------------------------------------------------------------------------
(* Strings.                                                                   *)

(* text begins like the string that is written for held, and may be cut       *)
(* anywhere after its opening quote, or go on after its closing one.          *)
BeginsLikeString(text, held) ==
    /\ text \in Seq(Int) /\ Len(text) >= 1
    /\ text[1] = Quote
    /\ \A i \in 1..Len(held) : i + 1 <= Len(text) => text[i + 1] = held[i]
    /\ Len(held) + 2 <= Len(text) => text[Len(held) + 2] = Quote

(* The search for the closing quote finds it if it is there, and no other.    *)
LEMMA QuoteIsFound ==
    ASSUME NEW held \in Seq(Nat), NEW text, BeginsLikeString(text, held)
    PROVE  /\ Closed(text) <=> Len(held) + 2 <= Len(text)
           /\ Closed(text) =>
                  QuoteIn(Tail(text)) = Len(held) + 1
  <1> DEFINE n == Len(held)
             rest == Tail(text)
  <1>1. n \in Nat /\ Len(text) \in Nat /\ \A i \in 1..n : held[i] \in Nat
    BY ElementOfSeq DEF BeginsLikeString
  <1>2. \A i \in 2..Len(text) : text[i] = Quote => i >= n + 2
    <2> SUFFICES ASSUME NEW i \in 2..Len(text), text[i] = Quote, i < n + 2
                 PROVE  FALSE
      BY <1>1
    <2> DEFINE j == i - 1
    <2>1. j \in 1..n /\ j + 1 = i
      BY <1>1
    <2> HIDE DEF j
    <2>2. text[i] = held[j]
      BY <2>1 DEF BeginsLikeString
    <2> QED
      BY <1>1, <2>1, <2>2 DEF Quote
  <1>3. Closed(text) <=> n + 2 <= Len(text)
    <2>1. ASSUME n + 2 <= Len(text)
          PROVE  Closed(text)
      <3>1. n + 2 \in 2..Len(text)
        BY <1>1, <2>1
      <3> QED
        BY <2>1, <3>1 DEF Closed, BeginsLikeString
    <2>2. ASSUME Closed(text)
          PROVE  n + 2 <= Len(text)
      BY <1>1, <1>2, <2>2 DEF Closed
    <2> QED
      BY <2>1, <2>2
  <1>4. ASSUME Closed(text)
        PROVE  QuoteIn(rest) = n + 1
    <2> DEFINE I == {i \in 1..Len(rest) : rest[i] = Quote}
    <2>1. Len(rest) = Len(text) - 1 /\ \A i \in 1..Len(rest) : rest[i] = text[i + 1]
      BY DEF BeginsLikeString
    <2>2. n + 1 \in I
      BY <1>1, <1>3, <1>4, <2>1 DEF BeginsLikeString
    <2>3. \A i \in I : i \in Nat /\ n + 1 <= i
      BY <1>1, <1>2, <2>1
    <2>4. Min(I) = n + 1
      <3> HIDE DEF I
      <3> QED
        BY <1>1, <2>2, <2>3 DEF Min
    <2> QED
      BY <2>2, <2>4 DEF QuoteIn, SelectInSeq
  <1> QED
    BY <1>3, <1>4

(* What asString makes of a string that was cut is the beginning of it, and   *)
(* what it makes of a whole one is the string.                                *)
LEMMA AsStringOfCut ==
    ASSUME NEW held \in Seq(Nat), NEW text, BeginsLikeString(text, held)
    PROVE  /\ AsString(text).how \in {"returned", "thrown"}
           /\ AsString(text).how = "returned" =>
                  /\ AsString(text) = Returned(AsString(text).value)
                  /\ AsString(text).value \in Seq(Int)
                  /\ IsPrefix(AsString(text).value, held)
           /\ Len(held) + 2 <= Len(text) => AsString(text) = Returned(held)
  <1> DEFINE n == Len(held)
             rest == Tail(text)
  <1>1. n \in Nat /\ Len(text) \in Nat /\ text \in Seq(Int)
    BY DEF BeginsLikeString
  <1>2. /\ rest \in Seq(Int) /\ Len(rest) = Len(text) - 1
        /\ \A i \in 1..Len(rest) : rest[i] = text[i + 1]
    BY DEF BeginsLikeString
  <1>3. \A i \in 1..n : i <= Len(rest) => rest[i] = held[i]
    BY <1>1, <1>2 DEF BeginsLikeString
  <1>6. /\ Closed(text) <=> n + 2 <= Len(text)
        /\ Closed(text) => QuoteIn(rest) = n + 1
    BY QuoteIsFound
  <1> HIDE DEF n, rest
  <1>4. CASE Closed(text)
    <2>1. QuoteIn(rest) = n + 1 /\ n + 1 <= Len(rest)
      BY <1>1, <1>2, <1>4, <1>6
    <2>2. AsString(text) = Returned(UpTo(rest, n + 1))
      BY <1>4, <2>1 DEF AsString, rest
    <2>3. UpTo(rest, n + 1) = SubSeq(rest, 1, n)
      BY <1>1 DEF UpTo
    <2>4. SubSeq(rest, 1, n) = held
      <3>1. SubSeq(rest, 1, n) \in Seq(Int) /\ Len(SubSeq(rest, 1, n)) = n
        BY <1>1, <1>2, <2>1
      <3>2. \A i \in 1..n : SubSeq(rest, 1, n)[i] = held[i]
        BY <1>1, <1>2, <1>3, <2>1
      <3> QED
        BY <3>1, <3>2 DEF n
    <2>5. IsPrefix(held, held)
      BY <1>1 DEF IsPrefix
    <2>6. AsString(text) = Returned(held)
      BY <2>2, <2>3, <2>4
    <2>7. /\ Returned(held).how = "returned" /\ Returned(held).value = held
          /\ held \in Seq(Int)
      BY <1>1, ElementOfSeq DEF Returned
    <2> QED
      BY <2>5, <2>6, <2>7
  <1>5. CASE ~Closed(text)
    <2>1. Len(text) < n + 2
      BY <1>1, <1>5, <1>6
    <2>2. CASE Len(text) = 1
      <3>1. AsString(text) = Thrown
        BY <1>5, <2>2 DEF AsString
      <3> QED
        BY <2>1, <3>1 DEF Thrown, n
    <2>3. CASE Len(text) # 1
      <3> DEFINE front == Front(rest)
                 m == Len(rest) - 1
      <3>1. AsString(text) = Returned(front)
        BY <1>5, <2>3 DEF AsString, rest
      <3>2. m \in 0..n /\ m <= Len(rest)
        BY <1>1, <1>2, <2>1, <2>3 DEF BeginsLikeString
      <3>3. Len(front) = m /\ \A i \in 1..m : front[i] = held[i]
        <4>1. front = SubSeq(rest, 1, m)
          BY DEF Front
        <4> HIDE DEF front, m
        <4>2. /\ Len(SubSeq(rest, 1, m)) = m
              /\ \A i \in 1..m : SubSeq(rest, 1, m)[i] = rest[i]
          BY <1>2, <3>2
        <4> QED
          BY <1>1, <1>3, <3>2, <4>1, <4>2
      <3>4. IsPrefix(front, held) /\ front \in Seq(Int)
        <4>1. front \in Seq(Int)
          BY <1>2, <3>2 DEF Front
        <4>2. Len(front) <= Len(held) /\ \A i \in 1..Len(front) : front[i] = held[i]
          BY <1>1, <3>2, <3>3 DEF n
        <4> HIDE DEF front, m
        <4> QED
          BY <1>1, <4>1, <4>2, PrefixByElements
      <3> HIDE DEF front
      <3> QED
        BY <2>1, <3>1, <3>4 DEF Returned, n
    <2> QED
      BY <2>2, <2>3
  <1> QED
    BY <1>4, <1>5

-----------------------------------------------------------------------------
(* Accounts.                                                                  *)

(* How an account that exists is written: the text of its data, and the       *)
(* digits of its balance.                                                     *)
IsWritten(value, text, digits) ==
    /\ value \in Seq(Int) /\ Len(value) = Len(text) + Len(digits) + 4
    /\ value[1] = Open /\ value[2] = Quote /\ value[Len(text) + 3] = Quote
    /\ \A i \in 1..Len(text) : value[i + 2] = text[i]
    /\ \A i \in 1..Len(digits) : value[Len(text) + 3 + i] = digits[i]
    /\ value[Len(text) + Len(digits) + 4] = Shut

(* The value with this text and these digits. *)
AccountText(text, digits) == <<Open>> \o WriteString(text) \o digits \o <<Shut>>

(* Its parts are where they were put. *)
LEMMA AccountHasItsParts ==
    ASSUME NEW text \in Seq(Nat), NEW digits \in Seq(Nat)
    PROVE  IsWritten(AccountText(text, digits), text, digits)
  <1> DEFINE first == WriteString(text)
             second == <<Open>> \o first
             third == Joined(second, digits)
             value == Joined(third, <<Shut>>)
  <1>1. value = AccountText(text, digits)
    BY DEF AccountText, Joined
  <1>2. Len(text) \in Nat /\ Len(digits) \in Nat
    OBVIOUS
  <1>3. /\ first \in Seq(Int) /\ Len(first) = Len(text) + 2
        /\ first[1] = Quote /\ first[Len(text) + 2] = Quote
        /\ \A i \in 1..Len(text) : first[i + 1] = text[i]
    BY <1>2 DEF WriteString, Quote
  <1> HIDE DEF first
  <1>4. /\ second \in Seq(Int) /\ Len(second) = Len(text) + 3 /\ second[1] = Open
        /\ \A i \in 1..(Len(text) + 2) : second[i + 1] = first[i]
    <2>1. Open \in Int
      BY DEF Open
    <2> QED
      BY <1>3, <2>1, InFront
  <1> HIDE DEF second
  <1>5. /\ third \in Seq(Int) /\ Len(third) = Len(text) + 3 + Len(digits)
        /\ \A i \in 1..(Len(text) + 3) : third[i] = second[i]
        /\ \A i \in 1..Len(digits) : third[Len(text) + 3 + i] = digits[i]
    <2>1. digits \in Seq(Int) /\ second \in Seq(Int)
      BY <1>2, <1>4
    <2>2. third \in Seq(Int) /\ AreJoined(third, second, digits)
      BY <2>1, JoinedPlaces
    <2> HIDE DEF third
    <2> QED
      BY <1>4, <2>2 DEF AreJoined
  <1> HIDE DEF third
  <1>6. /\ value \in Seq(Int) /\ Len(value) = Len(text) + Len(digits) + 4
        /\ \A i \in 1..(Len(text) + 3 + Len(digits)) : value[i] = third[i]
        /\ value[Len(text) + Len(digits) + 4] = Shut
    <2> DEFINE last == <<Shut>>
    <2>1. last \in Seq(Int) /\ Len(last) = 1 /\ last[1] = Shut
      BY DEF Shut
    <2> HIDE DEF last
    <2>2. value = Joined(third, last)
      BY DEF last
    <2>3. /\ Len(third) + 1 = Len(text) + Len(digits) + 4 /\ 1 \in 1..1
          /\ third \in Seq(Int) /\ last \in Seq(Int)
      BY <1>2, <1>5, <2>1
    <2>4. value \in Seq(Int) /\ AreJoined(value, third, last)
      BY <2>2, <2>3, JoinedPlaces
    <2> HIDE DEF value
    <2> QED
      BY <1>5, <2>1, <2>3, <2>4 DEF AreJoined
  <1> HIDE DEF value
  <1>7. value[1] = Open
    <2>1. 1 \in 1..(Len(text) + 3) /\ 1 \in 1..(Len(text) + 3 + Len(digits))
      BY <1>2
    <2> QED
      BY <1>4, <1>5, <1>6, <2>1
  <1>8. \A i \in 1..(Len(text) + 2) : value[i + 1] = first[i]
    <2> SUFFICES ASSUME NEW i \in 1..(Len(text) + 2)
                 PROVE  value[i + 1] = first[i]
      OBVIOUS
    <2>1. i + 1 \in 1..(Len(text) + 3) /\ i + 1 \in 1..(Len(text) + 3 + Len(digits))
      BY <1>2
    <2> QED
      BY <1>4, <1>5, <1>6, <2>1
  <1>9. value[2] = Quote /\ value[Len(text) + 3] = Quote
    BY <1>2, <1>3, <1>8
  <1>10. \A i \in 1..Len(text) : value[i + 2] = text[i]
    <2> SUFFICES ASSUME NEW i \in 1..Len(text)
                 PROVE  value[i + 2] = text[i]
      OBVIOUS
    <2>1. i + 1 \in 1..(Len(text) + 2) /\ (i + 1) + 1 = i + 2
      BY <1>2
    <2>2. value[i + 2] = first[i + 1]
      BY <1>8, <2>1
    <2> QED
      BY <1>3, <2>2
  <1>11. \A i \in 1..Len(digits) : value[Len(text) + 3 + i] = digits[i]
    <2> SUFFICES ASSUME NEW i \in 1..Len(digits)
                 PROVE  value[Len(text) + 3 + i] = digits[i]
      OBVIOUS
    <2>1. Len(text) + 3 + i \in 1..(Len(text) + 3 + Len(digits))
      BY <1>2
    <2> QED
      BY <1>5, <1>6, <2>1
  <1>12. IsWritten(value, text, digits)
    BY <1>6, <1>7, <1>9, <1>10, <1>11 DEF IsWritten
  <1> QED
    BY <1>1, <1>12

(* Nothing that is not the account's. *)
IsPartOf(info, account) ==
    AccountBelow(info, account) /\ (info.exists => info.data \in Seq(0..255))

(* What the parser made of an account is not more than the account.           *)
TakesNothing(got, account) ==
    got = Thrown \/ \E info : got = Returned(info) /\ IsPartOf(info, account)

(* Of an account that is missing, null or cut before its first member. *)
LEMMA NoAccountIsBelow ==
    ASSUME NEW account \in Accounts
    PROVE  TakesNothing(Returned(NoAccount), account)
  BY DEF TakesNothing, IsPartOf, AccountBelow, NoAccount

(* What there is of an account that exists. *)
LEMMA AccountHasFields ==
    ASSUME NEW account \in Accounts, account.exists
    PROVE  /\ account.lamports \in Nat /\ account.data \in Seq(0..255)
           /\ account = [exists |-> TRUE, lamports |-> account.lamports, data |-> account.data]
  <1>1. account # NoAccount
    BY DEF NoAccount
  <1>2. account \in [exists : {TRUE}, lamports : Nat, data : Seq(0..255)]
    BY <1>1 DEF Accounts
  <1> QED
    BY <1>2

(* There is nothing but the opening of the object. *)
LEMMA OpenedAccount ==
    ASSUME NEW account \in Accounts, account.exists
    PROVE  TakesNothing(Returned([exists |-> TRUE, lamports |-> 0, data |-> <<>>]), account)
  <1> DEFINE info == [exists |-> TRUE, lamports |-> 0, data |-> <<>>]
  <1>1. account.lamports \in Nat /\ account.data \in Seq(0..255)
    BY AccountHasFields
  <1>2. info.exists /\ info.lamports = 0 /\ info.data = <<>>
    OBVIOUS
  <1>3. IsPrefix(info.data, account.data) /\ info.data \in Seq(0..255)
    <2>1. FirstPart(account.data, 0) = <<>> /\ IsPrefix(FirstPart(account.data, 0), account.data)
      <3>1. 0 \in 0..Len(account.data)
        BY <1>1
      <3> QED
        BY <1>1, <3>1, FirstElements, FirstPartIsPrefix
    <2> QED
      BY <1>2, <2>1
  <1>4. AccountBelow(info, account)
    <2> HIDE DEF info
    <2> QED
      BY <1>1, <1>2, <1>3 DEF AccountBelow
  <1> HIDE DEF info
  <1>5. TakesNothing(Returned(info), account)
    BY <1>3, <1>4 DEF TakesNothing, IsPartOf
  <1> QED
    BY <1>5 DEF info

(* The data that is read of a text that was cut.                              *)
LEMMA DataOfCut ==
    ASSUME NEW data \in Seq(0..255), NEW cut \in Seq(Int), IsPrefix(cut, Base64Encode(data))
    PROVE  /\ IsPrefix(Base64Decode(cut), data) /\ Base64Decode(cut) \in Seq(0..255)
           /\ cut = Base64Encode(data) => Base64Decode(cut) = data
  <1> DEFINE e == Base64Encode(data)
  <1>1. e \in Seq(0..64)
    BY EncodingHasItsBits
  <1>2. Len(cut) <= Len(e) /\ \A i \in 1..Len(cut) : cut[i] = e[i]
    <2> HIDE DEF e
    <2>1. IsPrefix(cut, e)
      BY DEF e
    <2> QED
      BY <1>1, <2>1, PrefixByElements
  <1>3. PICK b \in 0..Len(data) : /\ Base64Decode(cut) = FirstPart(data, b)
                                  /\ Len(cut) = Len(e) => b = Len(data)
    BY <1>2, Base64OfCut
  <1> HIDE DEF e
  <1>4. IsPrefix(FirstPart(data, b), data)
    BY FirstPartIsPrefix
  <1>5. cut = e => Base64Decode(cut) = data
    BY <1>3, FirstElements
  <1>6. FirstPart(data, b) \in Seq(0..255)
    BY FirstElements
  <1> QED
    BY <1>3, <1>4, <1>5, <1>6 DEF e

(* The number that is read of what follows the text.                          *)
LEMMA BalanceOfCut ==
    ASSUME NEW n \in Nat, NEW string \in Seq(Int), NEW p \in Nat, p <= Len(string),
           \A i \in 1..Len(WriteNumber(n)) : p + i <= Len(string) => string[p + i] = WriteNumber(n)[i],
           p + Len(WriteNumber(n)) + 1 <= Len(string) => string[p + Len(WriteNumber(n)) + 1] = Shut
    PROVE  /\ AsUint(SubSeq(string, p + 1, Len(string))) \in 0..n
           /\ p + Len(WriteNumber(n)) + 1 <= Len(string) =>
                  AsUint(SubSeq(string, p + 1, Len(string))) = n
  <1> DEFINE digits == WriteNumber(n)
             rest == SubSeq(string, p + 1, Len(string))
             value == digits \o <<Shut>>
             size == Len(digits)
  <1>1. digits \in Seq(0..9)
    BY NumberIsSpelled DEF Spells
  <1>2. /\ rest \in Seq(Int) /\ Len(rest) = Len(string) - p
        /\ \A i \in 1..Len(rest) : rest[i] = string[p + i]
    <2> HIDE DEF rest
    <2>1. Len(string) \in Nat
      OBVIOUS
    <2>2. p + 1 \in Nat /\ 1 <= p + 1 /\ p + 1 <= Len(string) + 1 /\ Len(string) <= Len(string)
      BY <2>1
    <2>3. rest = SubSeq(string, p + 1, Len(string))
      BY DEF rest
    <2>4. /\ rest \in Seq(Int) /\ Len(rest) = Len(string) - (p + 1) + 1
          /\ \A i \in 1..(Len(string) - (p + 1) + 1) : rest[i] = string[(p + 1) - 1 + i]
      BY <2>1, <2>2, <2>3, PartOfList DEF IsPart
    <2>5. Len(string) - (p + 1) + 1 = Len(string) - p /\ \A i \in Int : (p + 1) - 1 + i = p + i
      BY <2>1
    <2> QED
      BY <2>4, <2>5
  <1>3. size \in Nat /\ digits \in Seq(Int)
    <2> HIDE DEF digits
    <2> QED
      BY <1>1
  <1>4. /\ Len(value) = size + 1 /\ value[size + 1] = Shut
        /\ \A i \in 1..size : value[i] = digits[i]
    <2> HIDE DEF digits
    <2> QED
      BY <1>3 DEF Shut
  <1>5. Begins(rest, value)
    <2> SUFFICES ASSUME NEW i \in 1..Len(rest), i <= Len(value)
                 PROVE  rest[i] = value[i]
      BY <1>2 DEF Begins
    <2>1. rest[i] = string[p + i] /\ p + i <= Len(string) /\ i \in Nat
      BY <1>2
    <2> HIDE DEF rest, value
    <2>2. CASE i <= size
      <3>1. i \in 1..size
        BY <1>2, <1>3, <2>2
      <3> QED
        BY <1>4, <2>1, <3>1
    <2>3. CASE i = size + 1
      <3>1. p + i = p + size + 1
        BY <1>3, <2>3
      <3> QED
        BY <1>4, <2>1, <2>3, <3>1
    <2> QED
      BY <1>3, <1>4, <2>1, <2>2, <2>3
  <1>6. AsUint(rest) \in 0..n /\ (Len(rest) >= Len(digits) => AsUint(rest) = n)
    BY <1>5, NumberOfCut
  <1>7. p + size + 1 <= Len(string) => Len(rest) >= Len(digits)
    BY <1>2, <1>3
  <1> QED
    BY <1>6, <1>7

(* Characters are numbers. *)
LEMMA TextIsNumbers ==
    ASSUME NEW x \in Seq(0..64)
    PROVE  x \in Seq(Nat)
  <1>1. 0..64 \subseteq Nat
    OBVIOUS
  <1> QED
    BY <1>1, WiderSeq

(* What is read of an account that was cut anywhere is no more than the       *)
(* account, and what is read of a whole one is the account.                   *)
LEMMA AccountOfCut ==
    ASSUME NEW account \in Accounts, NEW seen, Begins(seen, WriteAccount(account))
    PROVE  /\ TakesNothing(ParseAccountInfoNode(seen), account)
           /\ Len(seen) >= Len(WriteAccount(account)) => ParseAccountInfoNode(seen) = Returned(account)
  <1>1. seen \in Seq(Int) /\ Len(seen) \in Nat
    BY DEF Begins
  <1>2. CASE ~account.exists
    <2>1. account = NoAccount
      BY <1>2 DEF Accounts
    <2>2. seen = <<>> \/ Head(seen) # Open
      <3> SUFFICES ASSUME seen # <<>>
                   PROVE  Head(seen) # Open
        OBVIOUS
      <3>1. 1 \in 1..Len(seen) /\ Head(seen) = seen[1]
        BY <1>1
      <3>2. Len(<<Nul, NulEnd>>) = 2 /\ <<Nul, NulEnd>>[1] = Nul /\ WriteAccount(account) = <<Nul, NulEnd>>
        BY <1>2 DEF WriteAccount
      <3> QED
        BY <3>1, <3>2 DEF Begins, Nul, Open
    <2>3. ParseAccountInfoNode(seen) = Returned(NoAccount)
      BY <2>2 DEF ParseAccountInfoNode
    <2> QED
      BY <2>1, <2>3, NoAccountIsBelow
  <1>3. CASE account.exists
    <2> DEFINE text == Base64Encode(account.data)
               digits == WriteNumber(account.lamports)
               value == WriteAccount(account)
               string == Tail(seen)
               p == Len(text) + 2
    <2>1. /\ account.lamports \in Nat /\ account.data \in Seq(0..255)
          /\ account = [exists |-> TRUE, lamports |-> account.lamports, data |-> account.data]
      BY <1>3, AccountHasFields
    <2>2. text \in Seq(Nat) /\ digits \in Seq(Nat)
      <3>1. text \in Seq(0..64)
        BY <2>1, EncodingHasItsBits
      <3>2. digits \in Seq(0..9)
        BY <2>1, NumberIsSpelled DEF Spells
      <3> HIDE DEF text, digits
      <3>3. text \in Seq(Nat)
        BY <3>1, TextIsNumbers
      <3>4. digits \in Seq(Nat)
        BY <3>2
      <3> QED
        BY <3>3, <3>4
    <2>3. Len(text) \in Nat /\ Len(digits) \in Nat
      BY <2>2
    <2>4. IsWritten(value, text, digits)
      <3>1. value = AccountText(text, digits)
        BY <1>3 DEF WriteAccount, AccountText
      <3> QED
        BY <2>2, <3>1, AccountHasItsParts
    <2>5. \A i \in 1..Len(seen) : i <= Len(value) => seen[i] = value[i]
      BY DEF Begins
    <2> HIDE DEF text, digits, value
    <2>6. CASE seen = <<>>
      <3>1. ParseAccountInfoNode(seen) = Returned(NoAccount)
        BY <2>6 DEF ParseAccountInfoNode
      <3>2. Len(seen) = 0 /\ Len(value) > 0
        BY <2>3, <2>4, <2>6 DEF IsWritten
      <3> QED
        BY <3>1, <3>2, NoAccountIsBelow DEF value
    <2>7. CASE seen # <<>>
      <3>1. Len(seen) >= 1
        BY <1>1, <2>7
      <3>2. Head(seen) = Open
        <4>1. 1 \in 1..Len(seen) /\ 1 <= Len(value) /\ Head(seen) = seen[1]
          BY <1>1, <2>3, <2>4, <3>1 DEF IsWritten
        <4> QED
          BY <2>4, <2>5, <4>1 DEF IsWritten
      <3>3. /\ string \in Seq(Int) /\ Len(string) = Len(seen) - 1
            /\ \A i \in 1..Len(string) : string[i] = seen[i + 1]
        BY <1>1, <3>1
      <3> HIDE DEF string
      <3>4. \A i \in 1..Len(string) : i + 1 <= Len(value) => string[i] = value[i + 1]
        <4> SUFFICES ASSUME NEW i \in 1..Len(string), i + 1 <= Len(value)
                     PROVE  string[i] = value[i + 1]
          OBVIOUS
        <4>1. i + 1 \in 1..Len(seen)
          BY <1>1, <3>3
        <4> QED
          BY <2>5, <3>3, <4>1
      <3>5. CASE string = <<>>
        <4>1. ParseAccountInfoNode(seen) = Returned([exists |-> TRUE, lamports |-> 0, data |-> <<>>])
          BY <2>7, <3>2, <3>5 DEF ParseAccountInfoNode, string
        <4>2. Len(seen) = 1 /\ Len(value) > 1
          BY <1>1, <2>3, <2>4, <3>3, <3>5 DEF IsWritten
        <4> QED
          BY <1>3, <4>1, <4>2, OpenedAccount DEF value
      <3>6. CASE string # <<>>
        <4>1. BeginsLikeString(string, text)
          <5>1. Len(string) >= 1 /\ Len(string) \in Nat
            BY <3>3, <3>6
          <5>2. string[1] = Quote
            <6>1. 1 \in 1..Len(string) /\ 1 + 1 <= Len(value) /\ 1 + 1 = 2
              BY <2>3, <2>4, <5>1 DEF IsWritten
            <6> QED
              BY <2>4, <3>4, <6>1 DEF IsWritten
          <5>3. ASSUME NEW i \in 1..Len(text), i + 1 <= Len(string)
                PROVE  string[i + 1] = text[i]
            <6>1. i + 1 \in 1..Len(string) /\ (i + 1) + 1 <= Len(value) /\ (i + 1) + 1 = i + 2
              BY <2>3, <2>4, <5>3 DEF IsWritten
            <6> QED
              BY <2>4, <3>4, <6>1 DEF IsWritten
          <5>4. ASSUME Len(text) + 2 <= Len(string)
                PROVE  string[Len(text) + 2] = Quote
            <6>1. /\ Len(text) + 2 \in 1..Len(string) /\ (Len(text) + 2) + 1 <= Len(value)
                  /\ (Len(text) + 2) + 1 = Len(text) + 3
              BY <2>3, <2>4, <5>1, <5>4 DEF IsWritten
            <6> QED
              BY <2>4, <3>4, <6>1 DEF IsWritten
          <5> QED
            BY <3>3, <5>1, <5>2, <5>3, <5>4 DEF BeginsLikeString
        <4>2. CASE AsString(string).how = "thrown"
          <5>1. ParseAccountInfoNode(seen) = Thrown
            BY <2>7, <3>2, <3>6, <4>2 DEF ParseAccountInfoNode, string
          <5>2. ~(Len(text) + 2 <= Len(string))
            <6>1. Len(text) + 2 <= Len(string) => AsString(string) = Returned(text)
              BY <2>2, <4>1, AsStringOfCut
            <6> QED
              BY <4>2, <6>1 DEF Returned
          <5>3. ~(Len(seen) >= Len(value))
            BY <1>1, <2>3, <2>4, <3>3, <5>2 DEF IsWritten
          <5> QED
            BY <5>1, <5>3 DEF TakesNothing, value
        <4>3. CASE AsString(string).how # "thrown"
          <5> DEFINE got == AsString(string).value
                     balance == IF Closed(string) THEN AsUint(SubSeq(string, Len(got) + 3, Len(string))) ELSE 0
                     info == [exists |-> TRUE, lamports |-> balance, data |-> Base64Decode(got)]
          <5>1. ParseAccountInfoNode(seen) = Returned(info)
            BY <2>7, <3>2, <3>6, <4>3 DEF ParseAccountInfoNode, string
          <5>2. /\ got \in Seq(Int) /\ IsPrefix(got, text)
                /\ Len(text) + 2 <= Len(string) => got = text
            <6>1. /\ AsString(string).how \in {"returned", "thrown"}
                  /\ AsString(string).how = "returned" => got \in Seq(Int) /\ IsPrefix(got, text)
                  /\ Len(text) + 2 <= Len(string) => AsString(string) = Returned(text)
              BY <2>2, <4>1, AsStringOfCut
            <6> QED
              BY <4>3, <6>1 DEF Returned
          <5>3. Closed(string) <=> Len(text) + 2 <= Len(string)
            BY <2>2, <4>1, QuoteIsFound
          <5> HIDE DEF got
          <5>4. /\ IsPrefix(Base64Decode(got), account.data) /\ Base64Decode(got) \in Seq(0..255)
                /\ got = text => Base64Decode(got) = account.data
            BY <2>1, <5>2, DataOfCut DEF text
          <5>5. Closed(string) =>
                   /\ balance \in 0..account.lamports
                   /\ p + Len(digits) + 1 <= Len(string) => balance = account.lamports
            <6> SUFFICES ASSUME Closed(string)
                         PROVE  /\ balance \in 0..account.lamports
                                /\ p + Len(digits) + 1 <= Len(string) => balance = account.lamports
              OBVIOUS
            <6>1. got = text /\ p <= Len(string) /\ p \in Nat /\ p + 1 = Len(got) + 3
              BY <2>3, <5>2, <5>3
            <6>2. balance = AsUint(SubSeq(string, p + 1, Len(string)))
              BY <6>1
            <6> HIDE DEF p
            <6>3. ASSUME NEW i \in 1..Len(digits), p + i <= Len(string)
                  PROVE  string[p + i] = digits[i]
              <7>1. /\ p + i \in 1..Len(string) /\ (p + i) + 1 <= Len(value)
                    /\ (p + i) + 1 = Len(text) + 3 + i
                <8>1. Len(value) = Len(text) + Len(digits) + 4 /\ p = Len(text) + 2
                  BY <2>4 DEF IsWritten, p
                <8>2. Len(string) \in Int /\ i \in Nat /\ i >= 1 /\ i <= Len(digits)
                  BY <1>1, <2>3, <3>3
                <8> QED
                  BY <2>3, <6>3, <8>1, <8>2
              <7> QED
                BY <2>4, <3>4, <7>1 DEF IsWritten
            <6>4. ASSUME p + Len(digits) + 1 <= Len(string)
                  PROVE  string[p + Len(digits) + 1] = Shut
              <7>1. /\ p + Len(digits) + 1 \in 1..Len(string) /\ (p + Len(digits) + 1) + 1 <= Len(value)
                    /\ (p + Len(digits) + 1) + 1 = Len(text) + Len(digits) + 4
                BY <2>3, <2>4, <3>3, <6>4 DEF IsWritten, p
              <7> QED
                BY <2>4, <3>4, <7>1 DEF IsWritten
            <6>5. /\ AsUint(SubSeq(string, p + 1, Len(string))) \in 0..account.lamports
                  /\ p + Len(digits) + 1 <= Len(string) =>
                         AsUint(SubSeq(string, p + 1, Len(string))) = account.lamports
              BY <2>1, <3>3, <6>1, <6>3, <6>4, BalanceOfCut DEF digits
            <6> QED
              BY <6>2, <6>5
          <5>6. ~Closed(string) => balance = 0
            OBVIOUS
          <5>7. info.exists /\ info.lamports = balance /\ info.data = Base64Decode(got)
            OBVIOUS
          <5> HIDE DEF balance
          <5>8. balance <= account.lamports
            BY <2>1, <5>5, <5>6
          <5>9. ASSUME Len(seen) >= Len(value)
                PROVE  info = account
            <6>1. p + Len(digits) + 1 <= Len(string) /\ Len(text) + 2 <= Len(string)
              BY <1>1, <2>3, <2>4, <3>3, <5>9 DEF IsWritten
            <6>2. balance = account.lamports /\ Base64Decode(got) = account.data
              BY <5>2, <5>3, <5>4, <5>5, <6>1
            <6> QED
              BY <2>1, <6>2
          <5> HIDE DEF info
          <5>10. AccountBelow(info, account)
            BY <1>3, <5>4, <5>7, <5>8 DEF AccountBelow
          <5> QED
            BY <5>1, <5>4, <5>7, <5>9, <5>10 DEF TakesNothing, IsPartOf, value
        <4> QED
          BY <4>2, <4>3
      <3> QED
        BY <3>5, <3>6
    <2> QED
      BY <2>6, <2>7
  <1> QED
    BY <1>2, <1>3

-----------------------------------------------------------------------------
(* Lists of accounts.                                                         *)

(* Where the items of a list start, one after the other. *)
LEMMA StartsGrow ==
    ASSUME NEW s \in Seq(Seq(Int))
    PROVE  /\ \A n \in 0..Len(s) : Len(FirstLists(s, n)) \in Nat
           /\ \A m, n \in 0..Len(s) : m <= n => Len(FirstLists(s, m)) <= Len(FirstLists(s, n))
  <1> DEFINE start == [n \in 0..Len(s) |-> Len(FirstLists(s, n))]
             T == {d \in Nat : \A m \in 0..Len(s) : m + d <= Len(s) => start[m] <= start[m + d]}
  <1>1. Len(s) \in Nat
    OBVIOUS
  <1>2. \A n \in 0..Len(s) : Len(FirstLists(s, n)) \in Nat
    <2>1. \A n \in 0..Len(s) : FirstLists(s, n) \in Seq(Int)
      BY FirstListsGrow
    <2> QED
      BY <2>1
  <1>3. \A n \in 0..Len(s) : start[n] = Len(FirstLists(s, n)) /\ start[n] \in Nat
    BY <1>2
  <1> HIDE DEF start
  <1>4. ASSUME NEW n \in 1..Len(s)
        PROVE  start[n - 1] <= start[n]
    <2>1. Len(FirstLists(s, n)) = Len(FirstLists(s, n - 1)) + Len(s[n])
      BY FlattenPlaces
    <2>2. n \in 0..Len(s) /\ n - 1 \in 0..Len(s)
      BY <1>1
    <2>3. s[n] \in Seq(Int)
      BY ElementOfSeq
    <2>4. Len(s[n]) \in Nat
      BY <2>3
    <2>5. start[n] = start[n - 1] + Len(s[n]) /\ start[n - 1] \in Nat
      BY <1>3, <2>1, <2>2
    <2> QED
      BY <2>4, <2>5
  <1>5. 0 \in T
    BY <1>1, <1>3
  <1>6. ASSUME NEW d \in Nat, d \in T
        PROVE  d + 1 \in T
    <2> SUFFICES ASSUME NEW m \in 0..Len(s), m + (d + 1) <= Len(s)
                 PROVE  start[m] <= start[m + (d + 1)]
      OBVIOUS
    <2> DEFINE n == m + (d + 1)
               p == m + d
    <2>1. p \in 0..Len(s) /\ n \in 1..Len(s) /\ n - 1 = p /\ n \in 0..Len(s) /\ p <= Len(s)
      BY <1>1
    <2>2. start[m] <= start[p]
      BY <1>6, <2>1
    <2> HIDE DEF n, p
    <2>3. start[p] <= start[n]
      BY <1>4, <2>1
    <2>4. start[m] \in Nat /\ start[p] \in Nat /\ start[n] \in Nat
      BY <1>3, <2>1
    <2>5. start[m] <= start[n]
      BY <2>2, <2>3, <2>4
    <2> QED
      BY <2>5 DEF n
  <1>7. \A d \in Nat : d \in T
    <2> HIDE DEF T
    <2> QED
      BY <1>5, <1>6, AllNumbers
  <1>8. ASSUME NEW m \in 0..Len(s), NEW n \in 0..Len(s), m <= n
        PROVE  start[m] <= start[n]
    <2>1. n - m \in Nat /\ m + (n - m) = n /\ n <= Len(s)
      BY <1>1, <1>8
    <2>2. n - m \in T
      BY <1>7, <2>1
    <2> QED
      BY <2>1, <2>2
  <1> QED
    BY <1>3, <1>8

(* What there is of the items of a list that was cut: of the first k of them, *)
(* the beginning of each, and of all of them all, if the list is whole.       *)
AreBegun(items, s, whole) ==
    \E k \in 0..Len(s) :
       /\ DOMAIN items = 1..k
       /\ \A i \in 1..k : Begins(items[i], s[i])
       /\ whole => k = Len(s) /\ \A i \in 1..k : Len(items[i]) = Len(s[i])

(* Seen takes these parts out of what there is of the list. *)
LEMMA ItemsOfCut ==
    ASSUME NEW s \in Seq(Seq(Int)), \A g \in 1..Len(s) : Len(s[g]) >= 1,
           NEW rest, Begins(rest, FlattenSeq(s))
    PROVE  AreBegun(Seen(s, rest), s, Len(rest) >= Len(FlattenSeq(s)))
  <1> DEFINE start == [n \in 0..Len(s) |-> Len(FirstLists(s, n))]
             flat == FlattenSeq(s)
             D == {j \in 1..Len(s) : ItemStart(s, j) < Len(rest)}
             items == Seen(s, rest)
             size == Len(rest)
  <1>1. Len(s) \in Nat /\ DOMAIN s = 1..Len(s)
    OBVIOUS
  <1>2. rest \in Seq(Int) /\ size \in Nat
    BY DEF Begins
  <1>3. \A i \in 1..Len(s) : ItemStart(s, i) = start[i - 1] /\ i - 1 \in 0..Len(s) /\ i \in 0..Len(s)
    BY <1>1 DEF ItemStart, FirstLists
  <1>4. /\ \A n \in 0..Len(s) : start[n] \in Nat
        /\ \A m, n \in 0..Len(s) : m <= n => start[m] <= start[n]
    BY StartsGrow
  <1>5. ASSUME NEW i \in 1..Len(s)
        PROVE  /\ start[i - 1] \in Nat
               /\ start[i] = start[i - 1] + Len(s[i])
               /\ start[i] <= Len(flat)
               /\ \A j \in 1..Len(s[i]) : flat[start[i - 1] + j] = s[i][j]
               /\ Len(s[i]) \in Nat /\ Len(s[i]) >= 1
    <2>1. Len(s[i]) \in Nat
      <3>1. s[i] \in Seq(Int)
        BY ElementOfSeq
      <3> QED
        BY <3>1
    <2>2. s[i][1] = s[i][1] /\ Len(s[i]) >= 1
      OBVIOUS
    <2>3. /\ Len(FirstLists(s, i - 1)) \in Nat
          /\ Len(FirstLists(s, i)) = Len(FirstLists(s, i - 1)) + Len(s[i])
          /\ Len(FirstLists(s, i)) <= Len(flat)
          /\ \A j \in 1..Len(s[i]) : flat[Len(FirstLists(s, i - 1)) + j] = s[i][j]
      BY FlattenPlaces
    <2>4. start[i] = Len(FirstLists(s, i)) /\ start[i - 1] = Len(FirstLists(s, i - 1))
      BY <1>3
    <2> QED
      BY <2>1, <2>2, <2>3, <2>4
  <1>6. Len(flat) \in Nat
    <2>1. flat \in Seq(Int)
      BY FlattenElements
    <2> QED
      BY <2>1
  <1> HIDE DEF start, flat
  <1>7. PICK k \in 0..Len(s) : D = 1..k
    <2>1. D \in SUBSET (1..Len(s))
      OBVIOUS
    <2>2. ASSUME NEW i \in D, NEW j \in 1..i
          PROVE  j \in D
      <3>1. i \in 1..Len(s) /\ j \in 1..Len(s) /\ j - 1 \in 0..Len(s) /\ i - 1 \in 0..Len(s) /\ j - 1 <= i - 1
        BY <1>1
      <3>2. start[j - 1] <= start[i - 1] /\ start[i - 1] < size /\ start[i - 1] \in Nat /\ start[j - 1] \in Nat
        BY <1>3, <1>4, <3>1
      <3> QED
        BY <1>2, <1>3, <3>1, <3>2
    <2> HIDE DEF D
    <2> QED
      BY <1>1, <2>1, <2>2, PrefixExists
  <1>8. DOMAIN items = 1..k
    BY <1>1, <1>7 DEF Seen
  <1>9. ASSUME NEW i \in 1..k
        PROVE  /\ i \in 1..Len(s) /\ start[i - 1] < size
               /\ items[i] = SubSeq(rest, start[i - 1] + 1, IF start[i] < size THEN start[i] ELSE size)
    <2>1. i \in 1..Len(s) /\ ItemStart(s, i) < size
      BY <1>7
    <2>2. start[i - 1] < size /\ ItemStart(s, i) = start[i - 1]
      BY <1>3, <2>1
    <2>3. start[i] = start[i - 1] + Len(s[i])
      BY <1>5, <2>1
    <2>4. items[i] = SubSeq(rest, ItemStart(s, i) + 1,
                            IF ItemStart(s, i) + Len(s[i]) < size THEN ItemStart(s, i) + Len(s[i]) ELSE size)
      BY <1>1, <1>7, <2>1 DEF Seen
    <2> QED
      BY <2>1, <2>2, <2>3, <2>4
  <1> HIDE DEF D, items
  <1>10. ASSUME NEW i \in 1..k
         PROVE  /\ Begins(items[i], s[i])
                /\ start[i] <= size => Len(items[i]) = Len(s[i])
    <2> DEFINE lo == start[i - 1] + 1
               hi == IF start[i] < size THEN start[i] ELSE size
    <2>1. /\ start[i - 1] \in Nat /\ start[i] = start[i - 1] + Len(s[i])
          /\ start[i] <= Len(flat)
          /\ \A j \in 1..Len(s[i]) : flat[start[i - 1] + j] = s[i][j]
          /\ Len(s[i]) \in Nat
      BY <1>5, <1>9
    <2> DEFINE x == start[i - 1]
               z == start[i]
    <2>2. x \in Nat /\ z = x + Len(s[i]) /\ Len(s[i]) \in Nat /\ x < size /\ size \in Nat
      BY <1>2, <1>9, <2>1
    <2>3. lo = x + 1 /\ hi = IF z < size THEN z ELSE size
      OBVIOUS
    <2> HIDE DEF x, z, lo, hi
    <2>4. /\ z <= size => hi = z
          /\ hi \in Nat /\ hi <= size /\ x <= hi
      BY <2>2, <2>3
    <2>5. /\ lo \in Nat /\ 1 <= lo /\ lo <= hi + 1
          /\ hi - lo + 1 \in Nat
          /\ \A j \in Int : lo - 1 + j = x + j
          /\ z <= size => hi - lo + 1 = Len(s[i])
      BY <2>2, <2>3, <2>4
    <2>6. \A j \in 1..(hi - lo + 1) : x + j \in 1..size
      BY <2>2, <2>3, <2>4
    <2>7. items[i] = SubSeq(rest, lo, hi)
      BY <1>9 DEF lo, hi
    <2>8. /\ items[i] \in Seq(Int) /\ Len(items[i]) = hi - lo + 1
          /\ \A j \in 1..(hi - lo + 1) : items[i][j] = rest[lo - 1 + j]
      <3>1. /\ SubSeq(rest, lo, hi) \in Seq(Int) /\ Len(SubSeq(rest, lo, hi)) = hi - lo + 1
            /\ \A j \in 1..(hi - lo + 1) : SubSeq(rest, lo, hi)[j] = rest[lo - 1 + j]
        <4>1. lo \in Nat /\ hi \in Nat /\ 1 <= lo /\ lo <= hi + 1 /\ hi <= Len(rest) /\ rest \in Seq(Int)
          BY <1>2, <2>4, <2>5
        <4> QED
          BY <4>1, PartOfList DEF IsPart
      <3> QED
        BY <2>7, <3>1
    <2>9. ASSUME NEW j \in 1..Len(items[i]), j <= Len(s[i])
          PROVE  items[i][j] = s[i][j]
      <3>1. j \in 1..(hi - lo + 1) /\ j \in 1..Len(s[i]) /\ j \in Int
        BY <2>1, <2>8, <2>9
      <3>2. items[i][j] = rest[x + j] /\ x + j \in 1..size
        BY <2>5, <2>6, <2>8, <3>1
      <3>3. x + j <= Len(flat)
        BY <1>6, <2>1, <2>2, <3>1 DEF z
      <3>4. rest[x + j] = flat[x + j]
        BY <3>2, <3>3 DEF Begins, flat
      <3> QED
        BY <2>1, <3>1, <3>2, <3>4 DEF x
    <2> QED
      BY <2>5, <2>8, <2>9 DEF Begins, z
  <1>11. ASSUME size >= Len(flat)
         PROVE  k = Len(s) /\ \A i \in 1..k : Len(items[i]) = Len(s[i])
    <2>1. ASSUME NEW i \in 1..Len(s)
          PROVE  i \in 1..k /\ start[i] <= size
      <3>1. start[i - 1] < size /\ start[i] <= size
        <4>1. start[i - 1] \in Nat /\ start[i] = start[i - 1] + Len(s[i]) /\ start[i] <= Len(flat)
          BY <1>5
        <4>2. Len(s[i]) \in Nat /\ Len(s[i]) >= 1
          BY <1>5
        <4> QED
          BY <1>2, <1>6, <1>11, <4>1, <4>2, SMTT(30)
      <3>2. i \in D
        BY <1>3, <3>1 DEF D
      <3> QED
        BY <1>7, <3>1, <3>2
    <2>2. k = Len(s)
      <3>1. CASE Len(s) = 0
        BY <3>1
      <3>2. CASE Len(s) # 0
        <4>1. Len(s) \in 1..Len(s)
          BY <1>1, <3>2
        <4>2. Len(s) <= k
          BY <2>1, <4>1
        <4> DEFINE m == Len(s)
        <4>3. m <= k /\ k <= m /\ k \in Nat /\ m \in Nat
          BY <1>1, <4>2
        <4> HIDE DEF m
        <4>4. k = m
          BY <4>3
        <4> QED
          BY <4>4 DEF m
      <3> QED
        BY <3>1, <3>2
    <2> QED
      BY <1>10, <2>1, <2>2
  <1>12. \A i \in 1..k : Begins(items[i], s[i])
    BY <1>10
  <1>13. AreBegun(items, s, size >= Len(flat))
    BY <1>8, <1>11, <1>12 DEF AreBegun
  <1> QED
    BY <1>13 DEF items, flat

(* Every account is written, with one unit or more for it.                    *)
LEMMA EveryAccountIsWritten ==
    ASSUME NEW account \in Accounts
    PROVE  WriteAccount(account) \in Seq(Int) /\ Len(WriteAccount(account)) >= 2
  <1>1. CASE ~account.exists
    <2>1. WriteAccount(account) = <<Nul, NulEnd>>
      BY <1>1 DEF WriteAccount
    <2> QED
      BY <2>1 DEF Nul, NulEnd
  <1>2. CASE account.exists
    <2> DEFINE text == Base64Encode(account.data)
               digits == WriteNumber(account.lamports)
    <2>1. account.lamports \in Nat /\ account.data \in Seq(0..255)
      BY <1>2, AccountHasFields
    <2>2. text \in Seq(Nat)
      BY <2>1, EncodingHasItsBits, TextIsNumbers
    <2>3. digits \in Seq(Nat)
      <3>1. digits \in Seq(0..9)
        BY <2>1, NumberIsSpelled DEF Spells
      <3> HIDE DEF digits
      <3> QED
        BY <3>1
    <2>4. WriteAccount(account) = AccountText(text, digits)
      BY <1>2 DEF WriteAccount, AccountText
    <2> HIDE DEF text, digits
    <2>5. IsWritten(WriteAccount(account), text, digits)
      BY <2>2, <2>3, <2>4, AccountHasItsParts
    <2>6. Len(text) \in Nat /\ Len(digits) \in Nat
      BY <2>2, <2>3
    <2> QED
      BY <2>5, <2>6 DEF IsWritten
  <1> QED
    BY <1>1, <1>2

(* What follows the opening of a list begins like its items. *)
LEMMA AfterOpening ==
    ASSUME NEW flat \in Seq(Int), NEW seen, Begins(seen, <<Open>> \o flat), seen # <<>>
    PROVE  Begins(Tail(seen), flat) /\ Len(Tail(seen)) = Len(seen) - 1
  <1> DEFINE value == <<Open>> \o flat
             rest == Tail(seen)
  <1>1. seen \in Seq(Int) /\ Len(seen) \in Nat /\ Len(seen) >= 1 /\ Len(flat) \in Nat
    BY DEF Begins
  <1>2. Len(value) = Len(flat) + 1 /\ \A i \in 1..Len(flat) : value[i + 1] = flat[i]
    <2>1. Open \in Int
      BY DEF Open
    <2> QED
      BY <2>1, InFront
  <1>3. \A i \in 1..Len(seen) : i <= Len(value) => seen[i] = value[i]
    BY DEF Begins
  <1>4. /\ rest \in Seq(Int) /\ Len(rest) = Len(seen) - 1
        /\ \A i \in 1..Len(rest) : rest[i] = seen[i + 1]
    BY <1>1
  <1> HIDE DEF value, rest
  <1>5. ASSUME NEW i \in 1..Len(rest), i <= Len(flat)
        PROVE  rest[i] = flat[i]
    <2>1. i + 1 \in 1..Len(seen) /\ i + 1 <= Len(value) /\ i \in 1..Len(flat)
      BY <1>1, <1>2, <1>4, <1>5
    <2> QED
      BY <1>2, <1>3, <1>4, <2>1
  <1>6. Begins(rest, flat)
    BY <1>4, <1>5 DEF Begins
  <1> QED
    BY <1>4, <1>6 DEF rest

(* No account of a list is more than the one the server holds at its place.   *)
AreBelow(infos, held) ==
    Len(infos) <= Len(held) /\ \A i \in DOMAIN infos : AccountBelow(infos[i], held[i])

(* The items of such a list, as they are written. *)
WrittenAccounts(held) == [i \in DOMAIN held |-> WriteAccount(held[i])]

(* What is read of a list that was cut anywhere is nothing that is not held,  *)
(* and what is read of a whole one is the list.                               *)
LEMMA ListOfCut ==
    ASSUME NEW c, c.held \in Seq(Accounts), NEW seen,
           Begins(seen, <<Open>> \o FlattenSeq(WrittenAccounts(c.held)))
    PROVE  /\ \/ ParseAccounts(c, seen).how # "returned"
              \/ \E infos : ParseAccounts(c, seen) = Returned(infos) /\ AreBelow(infos, c.held)
           /\ Len(seen) >= Len(<<Open>> \o FlattenSeq(WrittenAccounts(c.held))) =>
                  ParseAccounts(c, seen) = Returned(c.held)
  <1> DEFINE held == c.held
             s == WrittenAccounts(held)
             flat == FlattenSeq(s)
             rest == Tail(seen)
             items == Seen(s, rest)
             parsed == [i \in DOMAIN items |-> ParseAccountInfoNode(items[i])]
             infos == [i \in DOMAIN items |-> parsed[i].value]
             got == ParseAccounts(c, seen)
             size == Len(held)
             whole == Len(seen) >= Len(<<Open>> \o flat)
  <1>1. size \in Nat /\ DOMAIN held = 1..size /\ \A i \in 1..size : held[i] \in Accounts
    BY ElementOfSeq
  <1>2. seen \in Seq(Int) /\ Len(seen) \in Nat
    BY DEF Begins
  <1>3. /\ s \in Seq(Seq(Int)) /\ Len(s) = size
        /\ \A i \in 1..size : s[i] = WriteAccount(held[i])
        /\ \A i \in 1..size : Len(s[i]) >= 2
        /\ \A i \in 1..size : Len(s[i]) \in Nat
    <2>1. s = [i \in 1..size |-> WriteAccount(held[i])]
      BY <1>1 DEF WrittenAccounts
    <2>2. \A i \in 1..size : WriteAccount(held[i]) \in Seq(Int) /\ Len(WriteAccount(held[i])) >= 2
      BY <1>1, EveryAccountIsWritten
    <2> HIDE DEF s, held
    <2> QED
      BY <1>1, <2>1, <2>2
  <1>4. flat \in Seq(Int) /\ Len(flat) \in Nat
    BY <1>3, FlattenElements
  <1>5. Len(<<Open>> \o flat) = Len(flat) + 1
    <2>1. Open \in Int
      BY DEF Open
    <2> HIDE DEF flat
    <2> QED
      BY <1>4, <2>1, InFront
  <1>6. s = [i \in DOMAIN c.held |-> WriteAccount(c.held[i])]
    BY DEF WrittenAccounts
  <1>7. CASE seen = <<>>
    <2>1. got = Returned(<<>>)
      BY <1>7 DEF ParseAccounts, ParseList
    <2>2. AreBelow(<<>>, held)
      BY <1>1 DEF AreBelow
    <2>3. ~whole
      BY <1>4, <1>5, <1>7
    <2> QED
      BY <2>1, <2>2, <2>3
  <1>8. CASE seen # <<>>
    <2>1. Begins(rest, flat) /\ Len(rest) = Len(seen) - 1
      BY <1>4, <1>8, AfterOpening
    <2>2. AreBegun(items, s, Len(rest) >= Len(flat))
      <3>1. \A g \in 1..Len(s) : Len(s[g]) >= 1
        BY <1>3
      <3> HIDE DEF s, rest
      <3> QED
        BY <1>3, <2>1, <3>1, ItemsOfCut
    <2>3. PICK k \in 0..size :
             /\ DOMAIN items = 1..k
             /\ \A i \in 1..k : Begins(items[i], s[i])
             /\ whole => k = size /\ \A i \in 1..k : Len(items[i]) = Len(s[i])
      <3>1. whole => Len(rest) >= Len(flat)
        <4> HIDE DEF rest, flat
        <4>1. whole <=> Len(seen) >= Len(flat) + 1
          BY <1>5 DEF flat
        <4> QED
          BY <1>2, <1>4, <2>1, <4>1
      <3>2. Len(s) = size
        BY <1>3
      <3> HIDE DEF s, rest, items, flat, whole
      <3> QED
        BY <2>2, <3>1, <3>2 DEF AreBegun
    <2>4. got = IF \E i \in DOMAIN items : items[i] = <<Nul>> THEN Hangs
                ELSE IF \E i \in DOMAIN items : parsed[i].how = "thrown" THEN Thrown
                ELSE Returned(infos)
      BY <1>6, <1>8 DEF ParseAccounts, ParseList
    <2>5. \A i \in 1..k : parsed[i] = ParseAccountInfoNode(items[i])
      BY <2>3
    <2>6. infos = [i \in 1..k |-> parsed[i].value]
      BY <2>3
    <2> HIDE DEF s, rest, items, flat, parsed, infos, got, held, whole
    <2>7. ASSUME NEW i \in 1..k
          PROVE  /\ TakesNothing(parsed[i], held[i])
                 /\ Len(items[i]) = Len(s[i]) => parsed[i] = Returned(held[i])
      <3>1. i \in 1..size /\ held[i] \in Accounts /\ s[i] = WriteAccount(held[i])
        BY <1>1, <1>3
      <3>2. Begins(items[i], WriteAccount(held[i])) /\ Len(items[i]) \in Nat /\ Len(s[i]) \in Nat
        <4>1. Begins(items[i], WriteAccount(held[i]))
          BY <2>3, <3>1
        <4> QED
          BY <1>3, <3>1, <4>1 DEF Begins
      <3>3. /\ TakesNothing(ParseAccountInfoNode(items[i]), held[i])
            /\ Len(items[i]) >= Len(WriteAccount(held[i])) => ParseAccountInfoNode(items[i]) = Returned(held[i])
        BY <3>1, <3>2, AccountOfCut
      <3> QED
        BY <2>5, <3>1, <3>2, <3>3
    <2>8. got.how = "returned" => got = Returned(infos) /\ AreBelow(infos, held)
      <3> SUFFICES ASSUME got.how = "returned"
                   PROVE  got = Returned(infos) /\ AreBelow(infos, held)
        OBVIOUS
      <3>1. got = Returned(infos) /\ \A i \in 1..k : parsed[i].how # "thrown"
        BY <2>3, <2>4 DEF Hangs, Thrown
      <3>2. Len(infos) <= size /\ DOMAIN infos = 1..k
        BY <1>1, <2>6
      <3>3. ASSUME NEW i \in 1..k
            PROVE  AccountBelow(infos[i], held[i])
        <4>1. parsed[i] # Thrown
          BY <3>1 DEF Thrown
        <4>2. PICK info : parsed[i] = Returned(info) /\ IsPartOf(info, held[i])
          BY <2>7, <4>1 DEF TakesNothing
        <4>3. infos[i] = info
          BY <2>6, <4>2 DEF Returned
        <4> QED
          BY <4>2, <4>3 DEF IsPartOf
      <3> QED
        BY <3>1, <3>2, <3>3 DEF AreBelow
    <2>9. whole => got = Returned(held)
      <3> SUFFICES ASSUME whole
                   PROVE  got = Returned(held)
        OBVIOUS
      <3>1. k = size /\ \A i \in 1..k : Len(items[i]) = Len(s[i])
        BY <2>3
      <3>2. \A i \in 1..k : parsed[i] = Returned(held[i])
        BY <2>7, <3>1
      <3>3. \A i \in 1..k : items[i] # <<Nul>>
        <4> SUFFICES ASSUME NEW i \in 1..k, items[i] = <<Nul>>
                     PROVE  FALSE
          OBVIOUS
        <4>1. Len(items[i]) = 1
          OBVIOUS
        <4>2. i \in 1..size /\ Len(items[i]) = Len(s[i])
          BY <3>1
        <4> DEFINE m == Len(items[i])
        <4>3. m >= 2 /\ m = 1
          BY <1>3, <4>1, <4>2
        <4> HIDE DEF m
        <4> QED
          BY <4>3
      <3>4. \A i \in 1..k : parsed[i].how # "thrown" /\ parsed[i].value = held[i]
        <4> TAKE i \in 1..k
        <4>1. parsed[i] = Returned(held[i])
          BY <3>2
        <4>2. Returned(held[i]).how = "returned" /\ Returned(held[i]).value = held[i]
          BY DEF Returned
        <4> QED
          BY <4>1, <4>2
      <3>5. got = Returned(infos)
        BY <2>3, <2>4, <3>3, <3>4
      <3>6. infos = held
        <4>1. infos = [i \in 1..size |-> held[i]]
          BY <2>6, <3>1, <3>4
        <4>2. held = [i \in 1..size |-> held[i]]
          BY <1>1 DEF held
        <4> QED
          BY <4>1, <4>2
      <3> QED
        BY <3>5, <3>6
    <2> QED
      BY <2>8, <2>9 DEF got, held, whole, flat, s
  <1> QED
    BY <1>7, <1>8

-----------------------------------------------------------------------------
(* Lookup tables.                                                             *)

(* Keys are lists of bytes, all of the same length. *)
LEMMA KeysAreLists ==
    /\ \A key \in TableKeys : key \in Seq(0..255) /\ Len(key) = KeyLength
    /\ \A authority \in {<<>>} \cup TableKeys :
           authority \in Seq(0..255) /\ Len(authority) \in {0, KeyLength}
  <1>1. KeyLength \in Nat
    BY LayoutAssumption
  <1>2. \A key \in TableKeys : key \in Seq(0..255) /\ Len(key) = KeyLength
    BY <1>1 DEF TableKeys
  <1>3. <<>> \in Seq(0..255) /\ Len(<<>>) = 0
    OBVIOUS
  <1> QED
    BY <1>2, <1>3

(* What is where in the data of a table. *)
IsLaidOut(data, authority, addresses) ==
    LET start == HeaderBase + Len(authority)
    IN /\ data \in Seq(0..255) /\ Len(data) = start + KeyLength * Len(addresses)
       /\ data[1] = 1 /\ \A i \in 2..TagLength : data[i] = 0
       /\ data[HeaderBase] = IF Len(authority) = 0 THEN 0 ELSE 1
       /\ \A g \in 1..Len(addresses), j \in 1..KeyLength :
              data[start + (KeyLength * (g - 1) + j)] = addresses[g][j]

(* WriteTable puts it there. *)
LEMMA TableIsLaidOut ==
    ASSUME NEW authority \in {<<>>} \cup TableKeys, NEW addresses \in Seq(TableKeys)
    PROVE  IsLaidOut(WriteTable(authority, addresses), authority, addresses)
  <1> DEFINE flag == Len(authority) \div KeyLength
             head == [i \in 1..HeaderBase |-> IF i = 1 THEN 1 ELSE IF i <= TagLength THEN 0
                                              ELSE IF i < HeaderBase THEN 255 ELSE flag]
             flat == FlattenSeq(addresses)
             front == Joined(head, authority)
             table == Joined(front, flat)
             start == HeaderBase + Len(authority)
             size == KeyLength * Len(addresses)
  <1>1. /\ KeyLength \in Nat \ {0} /\ TagLength \in Nat /\ TagLength >= 1
        /\ HeaderBase \in Nat /\ HeaderBase > TagLength
    BY LayoutAssumption
  <1>2. authority \in Seq(0..255) /\ Len(authority) \in {0, KeyLength} /\ Len(authority) \in Nat
    BY <1>1, KeysAreLists
  <1>3. table = WriteTable(authority, addresses)
    BY DEF WriteTable, Joined
  <1>4. flag = IF Len(authority) = 0 THEN 0 ELSE 1
    <2>1. KeyLength \div KeyLength = 1 /\ 0 \div KeyLength = 0
      BY <1>1
    <2> QED
      BY <1>1, <1>2, <2>1
  <1> HIDE DEF flag
  <1>5. /\ head \in Seq(0..255) /\ Len(head) = HeaderBase
        /\ head[1] = 1 /\ (\A i \in 2..TagLength : head[i] = 0) /\ head[HeaderBase] = flag
    <2>1. \A i \in 1..HeaderBase : head[i] \in 0..255
      BY <1>1, <1>4
    <2> QED
      BY <1>1, <2>1
  <1> HIDE DEF head
  <1>6. addresses \in Seq(Seq(0..255)) /\ Len(addresses) \in Nat
    <2>1. TableKeys \subseteq Seq(0..255)
      BY KeysAreLists
    <2> QED
      BY <2>1, WiderSeq
  <1>7. /\ flat \in Seq(0..255) /\ Len(flat) = size
        /\ \A g \in 1..Len(addresses), j \in 1..KeyLength : flat[KeyLength * (g - 1) + j] = addresses[g][j]
    <2>1. \A g \in 1..Len(addresses) : Len(addresses[g]) = KeyLength
      BY KeysAreLists, ElementOfSeq
    <2>2. KeyLength \in Nat
      BY <1>1
    <2> HIDE DEF flat, size
    <2>3. flat = FlattenSeq(addresses) /\ size = KeyLength * Len(addresses)
      BY DEF flat, size
    <2>4. /\ FlattenSeq(addresses) \in Seq(0..255)
          /\ Len(FlattenSeq(addresses)) = KeyLength * Len(addresses)
          /\ \A g \in 1..Len(addresses), j \in 1..KeyLength :
                FlattenSeq(addresses)[KeyLength * (g - 1) + j] = addresses[g][j]
      BY <1>6, <2>1, <2>2, EqualLists
    <2> QED
      BY <2>3, <2>4, Zenon
  <1>8. front \in Seq(0..255) /\ AreJoined(front, head, authority)
    BY <1>2, <1>5, JoinedPlaces
  <1> HIDE DEF front, flat
  <1>9. table \in Seq(0..255) /\ AreJoined(table, front, flat)
    BY <1>7, <1>8, JoinedPlaces
  <1> HIDE DEF table
  <1>10. /\ Len(front) = start /\ start \in Nat
         /\ \A i \in 1..HeaderBase : front[i] = head[i] /\ i \in 1..start
    BY <1>1, <1>2, <1>5, <1>8 DEF AreJoined
  <1> HIDE DEF start
  <1>11. Len(table) = start + size
    BY <1>7, <1>9, <1>10 DEF AreJoined
  <1>12. \A i \in 1..HeaderBase : table[i] = head[i]
    BY <1>9, <1>10 DEF AreJoined
  <1>13. table[1] = 1 /\ (\A i \in 2..TagLength : table[i] = 0) /\ table[HeaderBase] = flag
    <2>1. 1 \in 1..HeaderBase /\ HeaderBase \in 1..HeaderBase /\ \A i \in 2..TagLength : i \in 1..HeaderBase
      BY <1>1
    <2> QED
      BY <1>5, <1>12, <2>1
  <1>14. ASSUME NEW g \in 1..Len(addresses), NEW j \in 1..KeyLength
         PROVE  table[start + (KeyLength * (g - 1) + j)] = addresses[g][j]
    <2> DEFINE p == KeyLength * (g - 1) + j
    <2>1. p \in 1..size
      <3>1. g - 1 \in Nat /\ g \in Nat /\ g = (g - 1) + 1 /\ g <= Len(addresses)
        BY <1>6
      <3>2. KeyLength * (g - 1) \in Nat /\ KeyLength * g = KeyLength * (g - 1) + KeyLength
        BY <1>1, <3>1
      <3>3. KeyLength * g <= size /\ size \in Nat
        BY <1>1, <1>6, <3>1, MoreRows
      <3> HIDE DEF size
      <3>4. j \in Nat /\ 1 <= j /\ j <= KeyLength
        BY <1>1
      <3> QED
        BY <1>1, <3>2, <3>3, <3>4
    <2>2. flat[p] = addresses[g][j]
      BY <1>7
    <2> HIDE DEF p
    <2>3. table[start + p] = flat[p]
      BY <1>7, <1>9, <1>10, <2>1 DEF AreJoined
    <2> QED
      BY <2>2, <2>3 DEF p
  <1>15. IsLaidOut(table, authority, addresses)
    BY <1>4, <1>9, <1>11, <1>13, <1>14 DEF IsLaidOut, start
  <1> QED
    BY <1>3, <1>15

(* The first n addresses of a table, as they are taken out of its data.       *)
Rows(data, start, n) ==
    [i \in 1..n |-> SubSeq(data, start + (i - 1) * KeyLength + 1, start + i * KeyLength)]

(* Each of them is an address of the table, if it is there.                   *)
LEMMA RowsAreAddresses ==
    ASSUME NEW authority \in {<<>>} \cup TableKeys, NEW addresses \in Seq(TableKeys),
           NEW data \in Seq(0..255), NEW n \in Nat, n <= Len(addresses),
           HeaderBase + Len(authority) + KeyLength * n <= Len(data),
           \A i \in 1..Len(data) : data[i] = WriteTable(authority, addresses)[i]
    PROVE  Rows(data, HeaderBase + Len(authority), n) = FirstPart(addresses, n)
  <1> DEFINE start == HeaderBase + Len(authority)
             written == WriteTable(authority, addresses)
             size == Len(data)
  <1>1. KeyLength \in Nat \ {0} /\ HeaderBase \in Nat /\ Len(authority) \in Nat /\ start \in Nat /\ size \in Nat
    BY LayoutAssumption, KeysAreLists
  <1>2. IsLaidOut(written, authority, addresses)
    BY TableIsLaidOut
  <1> HIDE DEF written
  <1>3. \A g \in 1..Len(addresses), j \in 1..KeyLength :
            written[start + (KeyLength * (g - 1) + j)] = addresses[g][j]
    BY <1>2 DEF IsLaidOut
  <1> HIDE DEF start, size
  <1>4. ASSUME NEW i \in 1..n
        PROVE  SubSeq(data, start + (i - 1) * KeyLength + 1, start + i * KeyLength) = addresses[i]
    <2> DEFINE before == KeyLength * (i - 1)
               lo == start + before + 1
               hi == start + (before + KeyLength)
               part == SubSeq(data, lo, hi)
    <2>1. /\ i - 1 \in Nat /\ i \in Nat /\ i = (i - 1) + 1
          /\ i \in 1..Len(addresses)
      BY <1>1
    <2>2. /\ before \in Nat /\ before = (i - 1) * KeyLength /\ before + KeyLength = i * KeyLength
          /\ before + KeyLength <= KeyLength * n
      <3>1. before \in Nat /\ before = (i - 1) * KeyLength
        BY <1>1, <2>1
      <3>2. KeyLength * i <= KeyLength * n /\ KeyLength * i = i * KeyLength
        BY <1>1, <2>1, MoreRows
      <3>3. KeyLength * i = KeyLength * (i - 1) + KeyLength
        BY <1>1, <2>1
      <3> QED
        BY <3>1, <3>2, <3>3
    <2>3. part = SubSeq(data, start + (i - 1) * KeyLength + 1, start + i * KeyLength)
      BY <2>2
    <2>4. KeyLength * n \in Nat /\ start + KeyLength * n <= size
      BY <1>1 DEF start, size
    <2> HIDE DEF before
    <2>5. /\ lo \in Nat /\ hi \in Nat /\ 1 <= lo /\ lo <= hi + 1 /\ hi <= size
          /\ hi - lo + 1 = KeyLength
          /\ \A j \in Int : lo - 1 + j = start + (before + j)
          /\ \A j \in 1..KeyLength : start + (before + j) \in 1..size
      <3>1. start \in Nat /\ before \in Nat /\ KeyLength \in Nat /\ KeyLength >= 1 /\ size \in Nat
        BY <1>1, <2>2
      <3>2. start + before + KeyLength <= size
        BY <3>1, <2>2, <2>4
      <3>3. lo = start + before + 1 /\ hi = start + before + KeyLength
        BY <3>1
      <3> HIDE DEF lo, hi
      <3> QED
        BY <3>1, <3>2, <3>3
    <2> HIDE DEF lo, hi
    <2>6. part \in Seq(0..255) /\ Len(part) = KeyLength /\ \A j \in 1..KeyLength : part[j] = data[lo - 1 + j]
      <3>1. /\ lo \in Nat /\ hi \in Nat /\ 1 <= lo /\ lo <= hi + 1 /\ hi <= Len(data)
            /\ data \in Seq(0..255)
        BY <2>5 DEF size
      <3>2. part \in Seq(0..255) /\ IsPart(part, data, lo, hi)
        BY <3>1, PartOfList
      <3> HIDE DEF part
      <3> QED
        BY <2>5, <3>2 DEF IsPart
    <2> HIDE DEF part
    <2>7. addresses[i] \in Seq(0..255) /\ Len(addresses[i]) = KeyLength
      BY <2>1, KeysAreLists, ElementOfSeq
    <2>8. ASSUME NEW j \in 1..KeyLength
          PROVE  part[j] = addresses[i][j]
      <3>1. lo - 1 + j = start + (before + j)
        BY <1>1, <2>5
      <3>2. part[j] = data[start + (before + j)] /\ start + (before + j) \in 1..size
        BY <2>5, <2>6, <3>1
      <3>3. data[start + (before + j)] = written[start + (before + j)]
        BY <3>2 DEF size, written
      <3>4. written[start + (before + j)] = addresses[i][j]
        BY <1>3, <2>1 DEF before
      <3> QED
        BY <3>2, <3>3, <3>4
    <2>9. part = addresses[i]
      BY <2>6, <2>7, <2>8
    <2> QED
      BY <2>3, <2>9
  <1>5. Rows(data, start, n) = [i \in 1..n |-> addresses[i]]
    BY <1>4 DEF Rows
  <1>6. FirstPart(addresses, n) = [i \in 1..n |-> addresses[i]]
    <2>1. Len(addresses) \in Nat
      OBVIOUS
    <2> QED
      BY <2>1 DEF FirstPart
  <1> QED
    BY <1>5, <1>6 DEF start

(* The addresses that are read of a table that was cut are its first ones,    *)
(* and those of a whole one are all of them.                                  *)
LEMMA TableOfCut ==
    ASSUME NEW authority \in {<<>>} \cup TableKeys, NEW addresses \in Seq(TableKeys),
           NEW data \in Seq(0..255), IsPrefix(data, WriteTable(authority, addresses))
    PROVE  /\ ParseTable(data).ok => IsPrefix(ParseTable(data).addresses, addresses)
           /\ data = WriteTable(authority, addresses) =>
                  ParseTable(data) = [ok |-> TRUE, addresses |-> addresses]
  <1> DEFINE written == WriteTable(authority, addresses)
             start == HeaderBase + Len(authority)
             left == Len(data) - start
             rows == left \div KeyLength
             got == ParseTable(data)
             total == Len(addresses)
  <1>1. /\ KeyLength \in Nat \ {0} /\ HeaderBase \in Nat /\ Len(authority) \in {0, KeyLength}
        /\ Len(authority) \in Nat /\ start \in Nat /\ Len(data) \in Nat /\ HeaderBase >= 2
        /\ TagLength \in Nat /\ TagLength < HeaderBase /\ total \in Nat
    BY LayoutAssumption, KeysAreLists
  <1>2. IsLaidOut(written, authority, addresses)
    BY TableIsLaidOut
  <1>3. written \in Seq(0..255) /\ Len(written) = start + KeyLength * total
    BY <1>2 DEF IsLaidOut
  <1> HIDE DEF written
  <1>4. Len(data) <= Len(written) /\ \A i \in 1..Len(data) : data[i] = written[i]
    BY <1>3, PrefixByElements DEF written
  <1>5. CASE Len(data) < HeaderBase
    <2>1. got = Rejected
      BY <1>5 DEF ParseTable
    <2>2. Rejected.ok = FALSE
      BY DEF Rejected
    <2>3. data # written
      <3>1. KeyLength * total \in Nat
        BY <1>1
      <3> HIDE DEF total
      <3> QED
        BY <1>1, <1>3, <1>5, <3>1
    <2> QED
      BY <2>1, <2>2, <2>3 DEF written
  <1>6. CASE ~(Len(data) < HeaderBase)
    <2>1. AddressStart(data) = start
      <3>1. HeaderBase \in 1..Len(data)
        BY <1>1, <1>6
      <3>2. data[HeaderBase] = IF Len(authority) = 0 THEN 0 ELSE 1
        BY <1>2, <1>4, <3>1 DEF IsLaidOut
      <3> QED
        BY <1>1, <3>2 DEF AddressStart
    <2>2. IsTable(data)
      <3>1. 1 \in 1..Len(data) /\ \A i \in 2..TagLength : i \in 1..Len(data)
        BY <1>1, <1>6
      <3>2. written[1] = 1 /\ \A i \in 2..TagLength : written[i] = 0
        BY <1>2 DEF IsLaidOut
      <3> QED
        BY <1>4, <3>1, <3>2 DEF IsTable
    <2>3. got = IF left < 0 \/ left % KeyLength # 0 THEN Rejected
                ELSE [ok |-> TRUE, addresses |-> Rows(data, start, rows)]
      BY <1>6, <2>1, <2>2 DEF ParseTable, Rows
    <2>4. left \in Int /\ Len(data) = start + left
      BY <1>1
    <2> HIDE DEF left, rows, got
    <2>5. ASSUME left >= 0, left % KeyLength = 0
          PROVE  /\ rows \in 0..total
                 /\ Rows(data, start, rows) = FirstPart(addresses, rows)
      <3>1. rows \in Nat /\ left = KeyLength * rows
        <4>1. left \in Nat /\ left % KeyLength = 0 /\ KeyLength \in Nat \ {0}
          BY <1>1, <2>4, <2>5
        <4> QED
          BY <4>1, WholeRows DEF rows
      <3>2. left <= KeyLength * total
        <4>1. KeyLength * total \in Nat
          BY <1>1
        <4> HIDE DEF total, start
        <4> QED
          BY <1>1, <1>3, <1>4, <2>4, <4>1
      <3>3. rows <= total
        BY <1>1, <3>1, <3>2, MoreRows
      <3>4. start + KeyLength * rows <= Len(data)
        BY <1>1, <2>4, <3>1
      <3>5. Rows(data, start, rows) = FirstPart(addresses, rows)
        <4>1. \A i \in 1..Len(data) : data[i] = WriteTable(authority, addresses)[i]
          BY <1>4 DEF written
        <4> QED
          BY <3>1, <3>3, <3>4, <4>1, RowsAreAddresses
      <3> QED
        BY <1>1, <3>1, <3>3, <3>5
    <2>6. ASSUME got.ok
          PROVE  IsPrefix(got.addresses, addresses)
      <3>1. left >= 0 /\ left % KeyLength = 0
        BY <2>3, <2>4, <2>6 DEF Rejected
      <3>2. Rows(data, start, rows) = FirstPart(addresses, rows) /\ rows \in 0..total
        BY <2>5, <3>1
      <3>3. got = [ok |-> TRUE, addresses |-> Rows(data, start, rows)]
        BY <2>3, <2>4, <3>1
      <3>4. got.addresses = FirstPart(addresses, rows)
        BY <3>2, <3>3
      <3> QED
        BY <3>2, <3>4, FirstPartIsPrefix
    <2>7. ASSUME data = written
          PROVE  got = [ok |-> TRUE, addresses |-> addresses]
      <3>1. left = KeyLength * total
        <4>1. KeyLength * total \in Nat
          BY <1>1
        <4> HIDE DEF total, start
        <4> QED
          BY <1>1, <1>3, <2>4, <2>7, <4>1
      <3>2. left >= 0 /\ left % KeyLength = 0 /\ rows = total
        <4>1. KeyLength * total \in Nat /\ (KeyLength * total) % KeyLength = 0
              /\ (KeyLength * total) \div KeyLength = total
          <5> HIDE DEF total
          <5> QED
            BY <1>1, MoreRows
        <4> QED
          BY <3>1, <4>1 DEF rows
      <3>3. FirstPart(addresses, total) = addresses
        BY FirstElements
      <3>4. Rows(data, start, rows) = addresses
        BY <2>5, <3>2, <3>3
      <3>5. got = [ok |-> TRUE, addresses |-> Rows(data, start, rows)]
        BY <2>3, <2>4, <3>2
      <3> QED
        BY <3>4, <3>5
    <2> QED
      BY <2>6, <2>7 DEF got, written
  <1> QED
    BY <1>5, <1>6

(* Data that is no table is rejected. *)
LEMMA NoTableIsRejected ==
    ASSUME NEW account \in Accounts, HoldsNoTable(account)
    PROVE  TableOf(account) = Rejected
  <1> DEFINE data == account.data
             start == HeaderBase + (IF data[HeaderBase] = 1 THEN KeyLength ELSE 0)
             left == Len(data) - start
  <1>1. CASE ~account.exists \/ data = <<>>
    BY <1>1 DEF TableOf
  <1>2. CASE account.exists /\ data # <<>>
    <2>1. TableOf(account) = ParseTable(data)
      BY <1>2 DEF TableOf
    <2>2. /\ data \in Seq(0..255) /\ Len(data) \in Nat /\ KeyLength \in Nat \ {0}
          /\ HeaderBase \in Nat /\ start \in Nat /\ left \in Int /\ Len(data) = start + left
      BY <1>2, AccountHasFields, LayoutAssumption
    <2>3. AddressStart(data) = start
      BY DEF AddressStart
    <2>4. CASE Len(data) < HeaderBase
      BY <2>1, <2>4 DEF ParseTable
    <2>5. CASE data[1] # 1 \/ \E i \in 2..TagLength : data[i] # 0
      BY <2>1, <2>5 DEF ParseTable, IsTable
    <2>6. CASE \A n \in 0..Len(data) : Len(data) # start + n * KeyLength
      <3> HIDE DEF data, start, left
      <3>1. ~(left >= 0 /\ left % KeyLength = 0)
        <4> SUFFICES ASSUME left >= 0, left % KeyLength = 0
                     PROVE  FALSE
          OBVIOUS
        <4> DEFINE n == left \div KeyLength
        <4>1. n \in Nat /\ left = KeyLength * n
          BY <2>2, WholeRows
        <4> HIDE DEF n
        <4>2. n <= left /\ left = n * KeyLength
          BY <2>2, <4>1, MoreRows
        <4>3. n \in 0..Len(data)
          BY <2>2, <4>1, <4>2
        <4> QED
          BY <2>2, <2>6, <4>2, <4>3
      <3>2. left < 0 \/ left % KeyLength # 0
        BY <2>2, <3>1
      <3>3. ParseTable(data) = Rejected
        BY <2>3, <3>2 DEF ParseTable, left
      <3> QED
        BY <2>1, <3>3 DEF data
    <2> QED
      BY <1>2, <2>4, <2>5, <2>6 DEF HoldsNoTable
  <1> QED
    BY <1>1, <1>2

(* What is taken for a table out of less than the account of a table.         *)
LEMMA TableOfLess ==
    ASSUME NEW held, HoldsTable(held), held.table.ok, NEW info, IsPartOf(info, held.account),
           TableOf(info).ok
    PROVE  IsPrefix(TableOf(info).addresses, held.table.addresses)
  <1> DEFINE addresses == held.table.addresses
             authority == held.authority
             written == WriteTable(authority, addresses)
  <1>1. /\ addresses \in Seq(TableKeys) /\ authority \in {<<>>} \cup TableKeys
        /\ held.account.data = written
    <2>1. held.table # Rejected
      BY DEF Rejected
    <2> QED
      BY <2>1 DEF HoldsTable
  <1>2. info.exists /\ TableOf(info) = ParseTable(info.data)
    BY DEF TableOf, Rejected
  <1>3. info.data \in Seq(0..255) /\ IsPrefix(info.data, written)
    BY <1>1, <1>2 DEF IsPartOf, AccountBelow
  <1>4. ParseTable(info.data).ok => IsPrefix(ParseTable(info.data).addresses, addresses)
    BY <1>1, <1>3, TableOfCut
  <1> QED
    BY <1>2, <1>4

(* The data of a table is all read. *)
LEMMA WholeTable ==
    ASSUME NEW authority \in {<<>>} \cup TableKeys, NEW addresses \in Seq(TableKeys),
           NEW written, written = WriteTable(authority, addresses)
    PROVE  /\ written # <<>>
           /\ ParseTable(written) = [ok |-> TRUE, addresses |-> addresses]
  <1>1. IsLaidOut(written, authority, addresses)
    BY TableIsLaidOut
  <1>2. written \in Seq(0..255) /\ Len(written) = HeaderBase + Len(authority) + KeyLength * Len(addresses)
    BY <1>1 DEF IsLaidOut
  <1>3. written # <<>>
    <2> DEFINE size == KeyLength * Len(addresses)
               len == Len(authority)
    <2>1. HeaderBase >= 2 /\ HeaderBase \in Nat /\ len \in Nat /\ KeyLength \in Nat /\ Len(addresses) \in Nat
      BY LayoutAssumption, KeysAreLists
    <2>2. size \in Nat
      BY <2>1
    <2> HIDE DEF size, len
    <2>3. Len(written) = HeaderBase + len + size
      BY <1>2 DEF size, len
    <2>4. Len(written) >= 2
      BY <2>1, <2>2, <2>3
    <2>5. Len(<<>>) = 0
      OBVIOUS
    <2> QED
      BY <2>4, <2>5
  <1>4. IsPrefix(written, written)
    <2>1. Len(written) \in Nat
      BY <1>2
    <2> QED
      BY <1>2, <2>1, PrefixByElements
  <1>5. ParseTable(written) = [ok |-> TRUE, addresses |-> addresses]
    BY <1>2, <1>4, TableOfCut
  <1> QED
    BY <1>3, <1>5

(* The account of a table is taken for the table, and no other one.           *)
LEMMA TableOfWhole ==
    ASSUME NEW held, HoldsTable(held)
    PROVE  TableOf(held.account) = held.table
  <1>1. CASE held.table = Rejected /\ HoldsNoTable(held.account)
    BY <1>1, NoTableIsRejected DEF HoldsTable
  <1>2. CASE ~(held.table = Rejected /\ HoldsNoTable(held.account))
    <2>1. /\ held.table.addresses \in Seq(TableKeys) /\ held.authority \in {<<>>} \cup TableKeys
          /\ held.account.exists
          /\ held.account.data = WriteTable(held.authority, held.table.addresses)
          /\ held.table = [ok |-> TRUE, addresses |-> held.table.addresses]
      BY <1>2 DEF HoldsTable
    <2>2. /\ held.account.data # <<>>
          /\ ParseTable(held.account.data) = [ok |-> TRUE, addresses |-> held.table.addresses]
      BY <2>1, WholeTable
    <2> QED
      BY <2>1, <2>2 DEF TableOf
  <1> QED
    BY <1>1, <1>2

-----------------------------------------------------------------------------
(* What each call makes of the beginning of its value.                        *)

(* A balance or a slot. *)
LEMMA NumberCalls ==
    ASSUME NEW c \in Calls, c.method \in NumberMethods
    PROVE  /\ WriteValue(c) \in Seq(Int)
           /\ \A seen : Begins(seen, WriteValue(c)) =>
                  /\ Parse(c, seen) = Returned(Parse(c, seen).value)
                  /\ Parse(c, seen).value <= c.held
                  /\ Len(seen) >= Len(WriteValue(c)) => Parse(c, seen) = Returned(c.held)
  <1> DEFINE digits == WriteNumber(c.held)
             value == Joined(digits, <<Shut>>)
  <1>1. c.held \in Nat
    BY CallsAssumption DEF NumberMethods, StringMethods
  <1>2. WriteValue(c) = digits \o <<Shut>> /\ value = digits \o <<Shut>>
    BY DEF WriteValue, NumberMethods, StringMethods, Joined
  <1>3. digits \in Seq(Int) /\ Len(digits) \in Nat
    <2>1. digits \in Seq(0..9)
      BY <1>1, NumberIsSpelled DEF Spells
    <2>2. 0..9 \subseteq Int
      OBVIOUS
    <2> HIDE DEF digits
    <2>3. digits \in Seq(Int)
      BY <2>1, <2>2, WiderSeq
    <2> QED
      BY <2>3
  <1>4. value \in Seq(Int) /\ Len(value) = Len(digits) + 1
    <2> DEFINE last == <<Shut>>
    <2>1. last \in Seq(Int) /\ Len(last) = 1
      BY DEF Shut
    <2> HIDE DEF last, digits
    <2>2. Joined(digits, last) \in Seq(Int) /\ AreJoined(Joined(digits, last), digits, last)
      BY <1>3, <2>1, JoinedPlaces
    <2> QED
      BY <2>1, <2>2 DEF AreJoined, last
  <1>5. ASSUME NEW seen, Begins(seen, WriteValue(c))
        PROVE  /\ Parse(c, seen) = Returned(Parse(c, seen).value)
               /\ Parse(c, seen).value <= c.held
               /\ Len(seen) >= Len(WriteValue(c)) => Parse(c, seen) = Returned(c.held)
    <2>1. Parse(c, seen) = Returned(AsUint(seen))
      BY DEF Parse, NumberMethods, StringMethods
    <2>2. Parse(c, seen).value = AsUint(seen)
      BY <2>1 DEF Returned
    <2>3. Begins(seen, WriteNumber(c.held) \o <<Shut>>)
      BY <1>2, <1>5
    <2>4. AsUint(seen) \in 0..c.held /\ (Len(seen) >= Len(digits) => AsUint(seen) = c.held)
      BY <1>1, <2>3, NumberOfCut
    <2>5. Len(seen) \in Nat /\ Len(WriteValue(c)) = Len(digits) + 1
      <3>1. Len(WriteValue(c)) = Len(value)
        BY <1>2
      <3> HIDE DEF value
      <3> QED
        BY <1>4, <1>5, <3>1 DEF Begins
    <2> HIDE DEF digits, value
    <2> QED
      BY <1>1, <1>3, <2>1, <2>2, <2>4, <2>5
  <1> QED
    BY <1>2, <1>4, <1>5

(* A signature or a blockhash. *)
LEMMA StringCalls ==
    ASSUME NEW c \in Calls, c.method \in StringMethods
    PROVE  /\ WriteValue(c) \in Seq(Int)
           /\ \A seen : Begins(seen, WriteValue(c)) /\ Len(seen) >= Len(WriteValue(c)) =>
                  Parse(c, seen) = Returned(c.held)
  <1> DEFINE held == c.held
             value == WriteString(held)
             size == Len(held)
  <1>1. held \in Seq(Nat) /\ held # <<>>
    BY CallsAssumption DEF NumberMethods, StringMethods
  <1>2. WriteValue(c) = value
    BY DEF WriteValue, NumberMethods, StringMethods
  <1>3. /\ value \in Seq(Int) /\ Len(value) = size + 2 /\ size \in Nat
        /\ value[1] = Quote /\ value[size + 2] = Quote
        /\ \A i \in 1..size : value[i + 1] = held[i]
    <2> HIDE DEF held
    <2> QED
      BY <1>1 DEF WriteString, Quote
  <1>4. ASSUME NEW seen, Begins(seen, WriteValue(c)), Len(seen) >= Len(WriteValue(c))
        PROVE  Parse(c, seen) = Returned(c.held)
    <2> HIDE DEF held, value
    <2>1. seen \in Seq(Int) /\ Len(seen) \in Nat /\ Len(seen) >= size + 2
      BY <1>2, <1>3, <1>4 DEF Begins
    <2>2. \A i \in 1..Len(value) : seen[i] = value[i] /\ i \in 1..Len(seen)
      BY <1>2, <1>3, <1>4, <2>1 DEF Begins
    <2>3. BeginsLikeString(seen, held)
      <3>1. 1 \in 1..Len(value) /\ size + 2 \in 1..Len(value) /\ \A i \in 1..size : i + 1 \in 1..Len(value)
        BY <1>3
      <3>2. seen[1] = Quote /\ seen[size + 2] = Quote /\ \A i \in 1..size : seen[i + 1] = held[i]
        BY <1>3, <2>2, <3>1
      <3>3. Len(seen) >= 1
        BY <1>3, <2>1
      <3> HIDE DEF size
      <3>4. /\ \A i \in 1..size : i + 1 <= Len(seen) => seen[i + 1] = held[i]
            /\ size + 2 <= Len(seen) => seen[size + 2] = Quote
        BY <3>2
      <3> QED
        BY <2>1, <3>2, <3>3, <3>4 DEF BeginsLikeString, size
    <2>4. AsString(seen) = Returned(held)
      BY <1>1, <2>1, <2>3, AsStringOfCut
    <2>5. seen # <<>> /\ AsString(seen) # Returned(<<>>)
      <3>1. seen # <<>>
        BY <1>3, <2>1
      <3>2. Returned(held).value = held /\ Returned(<<>>).value = <<>>
        BY DEF Returned
      <3> QED
        BY <1>1, <2>4, <3>1, <3>2
    <2>6. Parse(c, seen) = ParseString(c, seen)
      BY DEF Parse, NumberMethods, StringMethods
    <2> QED
      BY <2>4, <2>5, <2>6 DEF ParseString, held
  <1> QED
    BY <1>2, <1>3, <1>4

(* An account. *)
LEMMA AccountCalls ==
    ASSUME NEW c \in Calls, c.method = "getAccountInfo"
    PROVE  /\ WriteValue(c) \in Seq(Int)
           /\ \A seen : Begins(seen, WriteValue(c)) =>
                  /\ TakesNothing(Parse(c, seen), c.held)
                  /\ Len(seen) >= Len(WriteValue(c)) => Parse(c, seen) = Returned(c.held)
  <1>1. c.held \in Accounts
    BY CallsAssumption DEF NumberMethods, StringMethods
  <1>2. WriteValue(c) = WriteAccount(c.held)
    BY DEF WriteValue, NumberMethods, StringMethods
  <1>3. \A seen : Parse(c, seen) = ParseAccountInfoNode(seen)
    BY DEF Parse, NumberMethods, StringMethods
  <1> QED
    BY <1>1, <1>2, <1>3, EveryAccountIsWritten, AccountOfCut

(* A list of accounts. *)
LEMMA ListCalls ==
    ASSUME NEW c \in Calls, c.method = "getMultipleAccountsInfo"
    PROVE  /\ WriteValue(c) \in Seq(Int)
           /\ \A seen : Begins(seen, WriteValue(c)) =>
                  /\ \/ Parse(c, seen).how # "returned"
                     \/ \E infos : Parse(c, seen) = Returned(infos) /\ AreBelow(infos, c.held)
                  /\ Len(seen) >= Len(WriteValue(c)) => Parse(c, seen) = Returned(c.held)
  <1> DEFINE s == WrittenAccounts(c.held)
             flat == FlattenSeq(s)
  <1>1. c.held \in Seq(Accounts)
    BY CallsAssumption DEF NumberMethods, StringMethods
  <1>2. WriteValue(c) = <<Open>> \o flat
    BY DEF WriteValue, NumberMethods, StringMethods, WrittenAccounts
  <1>3. \A seen : Parse(c, seen) = ParseAccounts(c, seen)
    BY DEF Parse, NumberMethods, StringMethods
  <1>4. s \in Seq(Seq(Int))
    <2> DEFINE held == c.held
    <2>1. s = [i \in 1..Len(held) |-> WriteAccount(held[i])] /\ Len(held) \in Nat
      BY <1>1 DEF WrittenAccounts
    <2>2. \A i \in 1..Len(held) : WriteAccount(held[i]) \in Seq(Int)
      BY <1>1, ElementOfSeq, EveryAccountIsWritten
    <2> HIDE DEF s, held
    <2> QED
      BY <2>1, <2>2
  <1>5. flat \in Seq(Int)
    <2> HIDE DEF s
    <2> QED
      BY <1>4, FlattenElements
  <1>6. WriteValue(c) \in Seq(Int)
    <2> HIDE DEF flat
    <2>1. Open \in Int
      BY DEF Open
    <2> QED
      BY <1>2, <1>5, <2>1, InFront
  <1>7. ASSUME NEW seen, Begins(seen, WriteValue(c))
        PROVE  /\ \/ ParseAccounts(c, seen).how # "returned"
                  \/ \E infos : ParseAccounts(c, seen) = Returned(infos) /\ AreBelow(infos, c.held)
               /\ Len(seen) >= Len(WriteValue(c)) => ParseAccounts(c, seen) = Returned(c.held)
    <2>1. Begins(seen, <<Open>> \o FlattenSeq(WrittenAccounts(c.held)))
      BY <1>2, <1>7
    <2> QED
      BY <1>1, <1>2, <2>1, ListOfCut
  <1> QED
    BY <1>3, <1>6, <1>7

(* A lookup table. *)
LEMMA TableCalls ==
    ASSUME NEW c \in Calls, c.method = "getAddressLookupTable"
    PROVE  /\ WriteValue(c) \in Seq(Int)
           /\ \A seen : Begins(seen, WriteValue(c)) =>
                  /\ Parse(c, seen).how = "returned" /\ Parse(c, seen).value.ok /\ c.held.table.ok =>
                         IsPrefix(Parse(c, seen).value.addresses, c.held.table.addresses)
                  /\ Len(seen) >= Len(WriteValue(c)) => Parse(c, seen) = Returned(c.held.table)
  <1> DEFINE held == c.held
             account == held.account
  <1>1. HoldsTable(held)
    BY CallsAssumption DEF NumberMethods, StringMethods
  <1>2. account \in Accounts
    BY <1>1 DEF HoldsTable
  <1>3. WriteValue(c) = WriteAccount(account)
    BY DEF WriteValue, NumberMethods, StringMethods
  <1>4. \A seen : Parse(c, seen) = ParseLookupTable(ParseAccountInfoNode(seen))
    BY DEF Parse, NumberMethods, StringMethods
  <1>5. ASSUME NEW seen, Begins(seen, WriteValue(c))
        PROVE  /\ Parse(c, seen).how = "returned" /\ Parse(c, seen).value.ok /\ held.table.ok =>
                      IsPrefix(Parse(c, seen).value.addresses, held.table.addresses)
               /\ Len(seen) >= Len(WriteValue(c)) => Parse(c, seen) = Returned(held.table)
    <2> DEFINE read == ParseAccountInfoNode(seen)
               got == Parse(c, seen)
    <2>1. /\ TakesNothing(read, account)
          /\ Len(seen) >= Len(WriteValue(c)) => read = Returned(account)
      BY <1>2, <1>3, <1>5, AccountOfCut
    <2>2. got = ParseLookupTable(read)
      BY <1>4
    <2> HIDE DEF read, got, account, held
    <2>3. \A info : read = Returned(info) => got = Returned(TableOf(info))
      BY <2>2 DEF ParseLookupTable, Returned
    <2>4. ASSUME got.how = "returned", got.value.ok, held.table.ok
          PROVE  IsPrefix(got.value.addresses, held.table.addresses)
      <3>1. read # Thrown
        BY <2>2, <2>4 DEF ParseLookupTable, Thrown
      <3>2. PICK info : read = Returned(info) /\ IsPartOf(info, account)
        BY <2>1, <3>1 DEF TakesNothing
      <3>3. got.value = TableOf(info)
        BY <2>3, <3>2 DEF Returned
      <3>4. TableOf(info).ok /\ IsPartOf(info, held.account)
        BY <2>4, <3>2, <3>3 DEF account
      <3>5. IsPrefix(TableOf(info).addresses, held.table.addresses)
        BY <1>1, <2>4, <3>2, <3>4, TableOfLess
      <3> QED
        BY <3>3, <3>5
    <2>5. ASSUME Len(seen) >= Len(WriteValue(c))
          PROVE  got = Returned(held.table)
      <3>1. got = Returned(TableOf(held.account))
        BY <2>1, <2>3, <2>5 DEF account
      <3> QED
        BY <1>1, <3>1, TableOfWhole
    <2> QED
      BY <2>4, <2>5 DEF got
  <1> QED
    BY <1>2, <1>3, <1>5, EveryAccountIsWritten

-----------------------------------------------------------------------------
(* The calls over the transport.                                              *)

(* What was received of the value begins like the value that was written.     *)
LEMMA SeenBegins ==
    ASSUME IInv, pc = "returned", NEW c \in Calls, call = c, reply # "rejection",
           WriteValue(c) \in Seq(Int)
    PROVE  LET k == received - HeaderLen
           IN /\ k \in 0..BodyLen
              /\ SeenValue \in Seq(Int)
              /\ Len(SeenValue) = IF k = 0 THEN 0 ELSE k - 1
              /\ \A i \in 1..Len(SeenValue) :
                     SeenValue[i] = IF i <= Len(WriteValue(c)) THEN WriteValue(c)[i] ELSE Rest
  <1> DEFINE k == received - HeaderLen
             value == WriteValue(c)
             written == <<Preamble>> \o value
             body == Body(c)
  <1>1. k \in 0..BodyLen
    BY LengthAssumption DEF IInv, TypeOK, Progress, Total
  <1>2. Len(value) < BodyLen /\ Len(value) \in Nat
    BY BodyAssumption
  <1>3. /\ written \in Seq(Int) /\ Len(written) = Len(value) + 1
        /\ \A i \in 1..Len(value) : written[i + 1] = value[i]
    <2>1. Preamble \in Int /\ value \in Seq(Int)
      BY DEF Preamble
    <2> HIDE DEF value
    <2> QED
      BY <2>1, InFront
  <1>4. /\ body \in Seq(Int) /\ Len(body) = BodyLen
        /\ \A i \in 1..BodyLen : body[i] = IF i <= Len(written) THEN written[i] ELSE Rest
    <2> HIDE DEF written
    <2>1. body = [i \in 1..BodyLen |-> IF i <= Len(written) THEN written[i] ELSE Rest]
      BY DEF Body, written
    <2> QED
      BY <1>2, <1>3, <2>1, LengthAssumption DEF Rest
  <1> HIDE DEF value, written, body
  <1>5. CASE k = 0
    <2>1. SeenValue = <<>>
      BY <1>5, LengthAssumption DEF SeenValue, IInv, TypeOK
    <2> QED
      BY <1>1, <1>5, <2>1 DEF value
  <1>6. CASE k # 0
    <2> DEFINE cut == SubSeq(body, 1, k)
    <2>1. SeenValue = Tail(cut)
      BY <1>1, <1>6, LengthAssumption DEF SeenValue, body, IInv, TypeOK
    <2>2. /\ cut \in Seq(Int) /\ Len(cut) = k
          /\ \A i \in 1..k : cut[i] = body[i]
      BY <1>1, <1>4, <1>6
    <2>3. /\ Tail(cut) \in Seq(Int) /\ Len(Tail(cut)) = k - 1
          /\ \A i \in 1..(k - 1) : Tail(cut)[i] = body[i + 1]
      <3> HIDE DEF cut
      <3> QED
        BY <1>1, <1>6, <2>2
    <2>4. \A i \in 1..(k - 1) : body[i + 1] = IF i <= Len(value) THEN value[i] ELSE Rest
      BY <1>1, <1>2, <1>3, <1>4, LengthAssumption
    <2> HIDE DEF cut
    <2> QED
      BY <1>1, <1>6, <2>1, <2>3, <2>4 DEF value
  <1> QED
    BY <1>5, <1>6

(* What was received of a value begins like it, and is all of it if the       *)
(* answer was whole. *)
LEMMA SeenBeginsValue ==
    ASSUME IInv, pc = "returned", call \in Calls, WriteValue(call) \in Seq(Int)
    PROVE  /\ Begins(SeenValue, WriteValue(call))
           /\ WholeAnswer => Len(SeenValue) >= Len(WriteValue(call))
  <1> DEFINE seen == SeenValue
             value == WriteValue(call)
             k == received - HeaderLen
  <1>1. CASE reply = "rejection"
    <2>1. seen = <<>>
      BY <1>1 DEF SeenValue
    <2>2. Begins(<<>>, value)
      BY DEF Begins
    <2> QED
      BY <1>1, <2>1, <2>2 DEF WholeAnswer
  <1>2. CASE reply # "rejection"
    <2>1. /\ k \in 0..BodyLen
          /\ seen \in Seq(Int)
          /\ Len(seen) = IF k = 0 THEN 0 ELSE k - 1
          /\ \A i \in 1..Len(seen) : seen[i] = IF i <= Len(value) THEN value[i] ELSE Rest
      BY <1>2, SeenBegins
    <2>2. Begins(seen, value)
      BY <2>1 DEF Begins
    <2>3. ASSUME WholeAnswer
          PROVE  Len(seen) >= Len(value)
      <3>1. k = BodyLen /\ BodyLen \in Nat
        BY <2>3, LengthAssumption DEF WholeAnswer, Total
      <3>2. Len(value) < BodyLen /\ Len(value) \in Nat
        BY BodyAssumption
      <3> HIDE DEF k, seen, value
      <3> QED
        BY <2>1, <3>1, <3>2
    <2> QED
      BY <2>2, <2>3
  <1> QED
    BY <1>1, <1>2

(* A blockhash or a signature that a call returns comes from an answer to a   *)
(* request that was executed, and is what the server sent or the beginning of *)
(* it (rpc_client.cpp:279-306, 396-408).                                      *)
THEOREM StringsMeanExecution == CallSpec => []StringMeansExecuted
  <1>1. CallInv => StringMeansExecuted
    <2> SUFFICES ASSUME CallInv, Did(StringMethods)
                 PROVE  executed /\ IsPrefix(result.value, call.held)
      BY DEF StringMeansExecuted
    <2> DEFINE held == call.held
               seen == SeenValue
    <2>1. call \in Calls /\ call.method \in StringMethods /\ held \in Seq(Nat)
      BY CallsAssumption DEF CallInv, Parsed, Did, StringMethods, NumberMethods
    <2>2. pc = "returned" /\ result = Parse(call, seen) /\ result.how = "returned"
      BY DEF CallInv, Parsed, Did, Thrown
    <2>3. Parse(call, seen) = ParseString(call, seen)
      BY <2>1 DEF Parse, StringMethods, NumberMethods
    <2>4. seen # <<>> /\ result = AsString(seen)
      BY <2>2, <2>3 DEF ParseString, Thrown
    <2>5. reply # "rejection"
      BY <2>4 DEF SeenValue
    <2>6. executed
      BY <2>2, <2>5, LengthAssumption DEF CallInv, IInv, TypeOK, Replied, Progress
    <2>7. WriteValue(call) = WriteString(held)
      BY <2>1 DEF WriteValue, StringMethods, NumberMethods
    <2> DEFINE value == WriteString(held)
               n == Len(held)
    <2>8. /\ value \in Seq(Int) /\ Len(value) = n + 2 /\ n \in Nat
          /\ value[1] = Quote /\ value[n + 2] = Quote
          /\ \A i \in 1..n : value[i + 1] = held[i]
      <3> HIDE DEF held
      <3> QED
        BY <2>1 DEF WriteString, Quote
    <2> HIDE DEF held, value
    <2>9. /\ seen \in Seq(Int)
          /\ \A i \in 1..Len(seen) :
                 seen[i] = IF i <= Len(value) THEN value[i] ELSE Rest
      BY <2>1, <2>2, <2>5, <2>7, <2>8, SeenBegins DEF CallInv, value
    <2>10. BeginsLikeString(seen, held)
      <3> HIDE DEF seen
      <3>1. Len(seen) \in Nat /\ Len(seen) >= 1
        BY <2>4, <2>9
      <3> QED
        BY <2>8, <2>9, <3>1 DEF BeginsLikeString
    <2> HIDE DEF seen
    <2> QED
      BY <2>1, <2>2, <2>4, <2>6, <2>10, AsStringOfCut DEF held
  <1> QED
    BY <1>1, CallInvariance, PTL

(* A call that is none of the others is a raw one. *)
LEMMA MethodsOfCalls ==
    ASSUME NEW c \in Calls
    PROVE  \/ c.method \in NumberMethods \/ c.method \in StringMethods
           \/ c.method \in {"getAccountInfo", "getMultipleAccountsInfo", "getAddressLookupTable", "raw"}
  BY CallsAssumption

(* A whole answer is read exactly: numbers, strings, accounts, lists of       *)
(* accounts and lookup tables come out as the server holds them               *)
(* (rpc_client.cpp:279-454, address_lookup_table.cpp:22-65).                  *)
THEOREM WholeAnswersAreExact == CallSpec => []WholeAnswersExact
  <1>1. CallInv => WholeAnswersExact
    <2> SUFFICES ASSUME CallInv, WholeAnswer, result.how # "pending"
                 PROVE  result = Returned(Held)
      BY DEF WholeAnswersExact, Returned
    <2> DEFINE seen == SeenValue
               value == WriteValue(call)
    <2>1. pc # "thrown"
      BY LengthAssumption DEF CallInv, IInv, Progress, WholeAnswer, Total
    <2>2. call \in Calls /\ pc = "returned" /\ result = Parse(call, seen) /\ IInv
      BY <2>1 DEF CallInv, Parsed
    <2>3. value \in Seq(Int) => Begins(seen, value) /\ Len(seen) >= Len(value)
      BY <2>2, SeenBeginsValue
    <2> HIDE DEF seen
    <2>4. CASE call.method \in NumberMethods
      <3>1. Held = call.held
        BY <2>4 DEF Held, NumberMethods
      <3> QED
        BY <2>2, <2>3, <2>4, <3>1, NumberCalls
    <2>5. CASE call.method \in StringMethods
      <3>1. Held = call.held
        BY <2>5 DEF Held, StringMethods
      <3> QED
        BY <2>2, <2>3, <2>5, <3>1, StringCalls
    <2>6. CASE call.method = "getAccountInfo"
      <3>1. Held = call.held
        BY <2>6 DEF Held
      <3> QED
        BY <2>2, <2>3, <2>6, <3>1, AccountCalls
    <2>7. CASE call.method = "getMultipleAccountsInfo"
      <3>1. Held = call.held
        BY <2>7 DEF Held
      <3> QED
        BY <2>2, <2>3, <2>7, <3>1, ListCalls
    <2>8. CASE call.method = "getAddressLookupTable"
      <3>1. Held = call.held.table
        BY <2>8 DEF Held
      <3> QED
        BY <2>2, <2>3, <2>8, <3>1, TableCalls
    <2>9. CASE call.method = "raw"
      <3>1. Held = BodyLen
        BY <2>9 DEF Held
      <3>2. Parse(call, seen) = Returned(received - HeaderLen)
        BY <2>9 DEF Parse, NumberMethods, StringMethods
      <3>3. received - HeaderLen = BodyLen
        BY LengthAssumption DEF WholeAnswer, Total
      <3> QED
        BY <2>2, <3>1, <3>2, <3>3
    <2> QED
      BY <2>2, <2>4, <2>5, <2>6, <2>7, <2>8, <2>9, MethodsOfCalls
  <1> QED
    BY <1>1, CallInvariance, PTL

(* Wherever an answer is cut, no balance, slot or account that a call returns *)
(* exceeds what the server holds, and the addresses of a lookup table are the *)
(* first ones it has (rpc_client.cpp:320-385, address_lookup_table.cpp:37-62).*)
THEOREM NothingIsMadeUp == CallSpec => []NeverMoreThanHeld
  <1>1. CallInv => NeverMoreThanHeld
    <2> SUFFICES ASSUME CallInv, result.how = "returned"
                 PROVE  NeverMoreThanHeld
      BY DEF NeverMoreThanHeld, Did
    <2> DEFINE seen == SeenValue
               value == WriteValue(call)
    <2>1. call \in Calls /\ pc = "returned" /\ result = Parse(call, seen) /\ IInv
      BY DEF CallInv, Parsed, Thrown
    <2>2. value \in Seq(Int) => Begins(seen, value)
      BY <2>1, SeenBeginsValue
    <2> HIDE DEF seen
    <2>3. ASSUME call.method \in NumberMethods
          PROVE  result.value <= call.held
      BY <2>1, <2>2, <2>3, NumberCalls
    <2>4. ASSUME call.method = "getAccountInfo"
          PROVE  AccountBelow(result.value, call.held)
      <3>1. TakesNothing(result, call.held)
        BY <2>1, <2>2, <2>4, AccountCalls
      <3>2. result # Thrown
        BY DEF Thrown
      <3>3. PICK info : result = Returned(info) /\ IsPartOf(info, call.held)
        BY <3>1, <3>2 DEF TakesNothing
      <3> QED
        BY <3>3 DEF Returned, IsPartOf
    <2>5. ASSUME call.method = "getMultipleAccountsInfo"
          PROVE  AreBelow(result.value, call.held)
      <3>1. PICK infos : result = Returned(infos) /\ AreBelow(infos, call.held)
        BY <2>1, <2>2, <2>5, ListCalls
      <3> QED
        BY <3>1 DEF Returned
    <2>6. ASSUME call.method = "getAddressLookupTable", result.value.ok, call.held.table.ok
          PROVE  IsPrefix(result.value.addresses, call.held.table.addresses)
      BY <2>1, <2>2, <2>6, TableCalls
    <2> QED
      BY <2>3, <2>4, <2>5, <2>6 DEF NeverMoreThanHeld, Did, AreBelow
  <1> QED
    BY <1>1, CallInvariance, PTL
=============================================================================
