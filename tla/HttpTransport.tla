--------------------------- MODULE HttpTransport ---------------------------
(* RpcClient::rpcPost: one request over plain TCP (httpPost) or TLS           *)
(* (httpsPost), one system or OpenSSL call per action, against a server and a *)
(* network (external) that may refuse, cut or reset the connection anywhere.  *)
(* Bytes are counted, not modelled: both directions are streams in order.     *)
EXTENDS Naturals

CONSTANTS
    RequestLen,  \* bytes of the HTTP request
    HeaderLen,   \* bytes of the response up to and with the empty line
    BodyLen      \* bytes after it

ASSUME LengthAssumption ==
    /\ RequestLen \in Nat \ {0}
    /\ HeaderLen \in Nat \ {0}
    /\ BodyLen \in Nat

VARIABLES
    secure,    \* httpsPost runs, not httpPost
    pc,        \* the next call of the function
    resources, \* what each resource has gone through
    rem,       \* bytes of the request the function has still to send
    received,  \* bytes of `response`
    sent,      \* bytes handed to the network
    peer,      \* the connection, as the client will see it
    executed,  \* the server has executed the request
    reply,     \* what the server replies, if it does
    produced   \* bytes of the reply it has written

client == <<pc, resources, rem, received>>
server == <<executed, reply, produced>>
vars == <<secure, client, sent, peer, server>>

Total == HeaderLen + BodyLen
Resources == {"ctx", "addrinfo", "fd", "ssl"}

(* _proxy.enabled, or not _tls: plain TCP, to the proxy or to the host. *)
Init ==
    /\ secure \in BOOLEAN
    /\ pc = IF secure THEN "context" ELSE "resolve"
    /\ resources = [r \in Resources |-> "unused"]
    /\ rem = RequestLen /\ received = 0 /\ sent = 0
    /\ peer = "none"
    /\ executed = FALSE /\ reply = "none" /\ produced = 0

-----------------------------------------------------------------------------
(* The client.                                                                *)

Freed(r) == IF resources[r] = "held" THEN "freed" ELSE "freedTwice"

Change(acquired, released) ==
    resources' = [r \in Resources |-> IF r \in acquired THEN "held"
                                      ELSE IF r \in released THEN Freed(r)
                                      ELSE resources[r]]

Throw(released) ==
    /\ Change({}, released)
    /\ pc' = "thrown"
    /\ UNCHANGED <<secure, rem, received, sent, peer, server>>

IfSecure(set) == IF secure THEN set ELSE {}

NewContext ==
    /\ pc = "context"
    /\ Change({"ctx"}, {})
    /\ pc' = "resolve"
    /\ UNCHANGED <<secure, rem, received, sent, peer, server>>

NewContextFails == pc = "context" /\ Throw({})

Resolve ==
    /\ pc = "resolve"
    /\ Change({"addrinfo"}, {})
    /\ pc' = "socket"
    /\ UNCHANGED <<secure, rem, received, sent, peer, server>>

ResolveFails == pc = "resolve" /\ Throw(IfSecure({"ctx"}))

OpenSocket ==
    /\ pc = "socket"
    /\ Change({"fd"}, {})
    /\ pc' = "connect"
    /\ UNCHANGED <<secure, rem, received, sent, peer, server>>

SocketFails == pc = "socket" /\ Throw({"addrinfo"} \cup IfSecure({"ctx"}))

(* Only the first address the resolver returned is tried.  With TLS, SSL_new  *)
(* follows at once; it is taken to succeed.                                   *)
Connect ==
    /\ pc = "connect"
    /\ Change(IfSecure({"ssl"}), {"addrinfo"})
    /\ pc' = IF secure THEN "handshake" ELSE "send"
    /\ peer' = "open"
    /\ UNCHANGED <<secure, rem, received, sent, server>>

(* The address list is kept on this path. *)
ConnectFails_KeepsAddrinfo == pc = "connect" /\ Throw({"fd"} \cup IfSecure({"ctx"}))

ConnectFails == pc = "connect" /\ Throw({"fd", "addrinfo"} \cup IfSecure({"ctx"}))

Connection == {"fd"} \cup IfSecure({"ssl", "ctx"})

Handshake ==
    /\ pc = "handshake"
    /\ peer = "open"
    /\ pc' = "send"
    /\ UNCHANGED <<secure, resources, rem, received, sent, peer, server>>

HandshakeFails == pc = "handshake" /\ Throw(Connection)

(* The call's result is not taken into account: the whole request goes again. *)
SendSome_FromTheStart(n) ==
    /\ pc = "send" /\ n <= rem
    /\ secure => n = rem
    /\ sent' = sent + n
    /\ rem' = IF n = rem THEN 0 ELSE rem
    /\ pc' = IF n = rem THEN "receive" ELSE "send"
    /\ UNCHANGED <<secure, resources, received, peer, server>>

(* send() takes a part of what is left; SSL_write takes all of it. *)
SendSome(n) ==
    /\ pc = "send" /\ n <= rem
    /\ secure => n = rem
    /\ sent' = sent + n
    /\ rem' = rem - n
    /\ pc' = IF n = rem THEN "receive" ELSE "send"
    /\ UNCHANGED <<secure, resources, received, peer, server>>

SendFails == pc = "send" /\ Throw(Connection)

(* Nothing masks SIGPIPE: a second write to a connection the peer has left    *)
(* ends the process.  After a failed read, SSL_shutdown is that write.        *)
Killed ==
    /\ \/ pc = "send" /\ sent > 0 /\ peer \in {"closed", "reset"}
       \/ pc = "receive" /\ secure /\ peer = "reset"
    /\ pc' = "killed"
    /\ UNCHANGED <<secure, resources, rem, received, sent, peer, server>>

(* One buffer is all that is read. *)
Receive_OneChunk(n) ==
    /\ pc = "receive"
    /\ n <= produced - received
    /\ received' = received + n
    /\ Change({}, Connection)
    /\ pc' = "strip"
    /\ UNCHANGED <<secure, rem, sent, peer, server>>

Receive(n) ==
    /\ pc = "receive"
    /\ n <= produced - received
    /\ received' = received + n
    /\ UNCHANGED <<secure, pc, resources, rem, sent, peer, server>>

(* An error is taken for a short read, and the call made again. *)
EndOfInput_RetriesErrors ==
    /\ pc = "receive"
    /\ \/ peer = "closed" /\ received = produced /\ Change({}, Connection) /\ pc' = "strip"
       \/ peer = "reset" /\ UNCHANGED <<pc, resources>>
    /\ UNCHANGED <<secure, rem, received, sent, peer, server>>

(* recv() or SSL_read returns 0, or less: an error ends the loop like the end *)
(* of the input.                                                              *)
EndOfInput ==
    /\ pc = "receive"
    /\ (peer = "closed" /\ received = produced) \/ peer = "reset"
    /\ Change({}, Connection)
    /\ pc' = "strip"
    /\ UNCHANGED <<secure, rem, received, sent, peer, server>>

(* The empty line is not searched for. *)
Strip_Unchecked ==
    /\ pc = "strip"
    /\ pc' = "returned"
    /\ UNCHANGED <<secure, resources, rem, received, sent, peer, server>>

(* What follows the empty line is the result.  The status line is not read.   *)
Strip ==
    /\ pc = "strip"
    /\ pc' = IF received >= HeaderLen THEN "returned" ELSE "thrown"
    /\ UNCHANGED <<secure, resources, rem, received, sent, peer, server>>

Client ==
    \/ NewContext \/ NewContextFails
    \/ Resolve \/ ResolveFails
    \/ OpenSocket \/ SocketFails
    \/ Connect \/ ConnectFails
    \/ Handshake \/ HandshakeFails
    \/ (\E n \in 1..RequestLen : SendSome(n)) \/ SendFails \/ Killed
    \/ (\E n \in 1..Total : Receive(n)) \/ EndOfInput
    \/ Strip

-----------------------------------------------------------------------------
(* The server and the network.                                                *)

(* A connection the client sees reset may still have delivered the request. *)
Execute ==
    /\ sent >= RequestLen
    /\ peer \in {"open", "reset"}
    /\ reply = "none"
    /\ executed' = TRUE
    /\ reply' = "answer"
    /\ UNCHANGED <<secure, client, sent, peer, produced>>

(* A rate limit, a bad gateway: an HTTP response that is not the answer. *)
Reject ==
    /\ peer = "open"
    /\ reply = "none"
    /\ reply' = "rejection"
    /\ UNCHANGED <<secure, client, sent, peer, executed, produced>>

Produce ==
    /\ peer = "open"
    /\ reply # "none" /\ produced < Total
    /\ produced' = produced + 1
    /\ UNCHANGED <<secure, client, sent, peer, executed, reply>>

Close ==
    /\ peer = "open"
    /\ peer' = "closed"
    /\ UNCHANGED <<secure, client, sent, server>>

Reset ==
    /\ peer = "open"
    /\ peer' = "reset"
    /\ UNCHANGED <<secure, client, sent, server>>

Server == Execute \/ Reject \/ Produce \/ Close \/ Reset

Done == pc \in {"returned", "thrown", "killed"}

Next == Client \/ Server \/ (Done /\ UNCHANGED vars)

(* The caller's thread runs; the server honours "Connection: close" in the    *)
(* end, or the connection is reset.  No timeout of the client stands in for   *)
(* that.                                                                      *)
Spec == Init /\ [][Next]_vars /\ WF_vars(Client) /\ WF_vars(Server)

-----------------------------------------------------------------------------
(* Properties.                                                                *)

TypeOK ==
    /\ secure \in BOOLEAN
    /\ pc \in {"context", "resolve", "socket", "connect", "handshake", "send",
               "receive", "strip", "returned", "thrown", "killed"}
    /\ resources \in [Resources -> {"unused", "held", "freed", "freedTwice"}]
    /\ rem \in 0..RequestLen /\ received \in 0..produced /\ sent \in Nat
    /\ peer \in {"none", "open", "closed", "reset"}
    /\ executed \in BOOLEAN /\ reply \in {"none", "answer", "rejection"}
    /\ produced \in 0..Total

Uses ==
    [connect   |-> {"fd", "addrinfo"} \cup IfSecure({"ctx"}),
     handshake |-> Connection,
     send      |-> Connection,
     receive   |-> Connection]

(* Nothing is released twice, nothing is used before it is there or after it  *)
(* is gone, and on none of the ways out of the function is anything left:     *)
(* addrinfo, descriptor, TLS context and session are released by hand on each *)
(* of them (rpc_client.cpp:75-119, 139-217).                                  *)
ResourcesReleased ==
    /\ \A r \in Resources : resources[r] # "freedTwice"
    /\ pc \in DOMAIN Uses => \A r \in Uses[pc] : resources[r] = "held"
    /\ pc \in {"returned", "thrown"} => \A r \in Resources : resources[r] # "held"

(* What the server has got is the request and nothing else, in however many   *)
(* parts it was taken; so if sending fails, the request is not executed, then *)
(* or later, and may be tried again (rpc_client.cpp:102-112).                 *)
SentOnce ==
    /\ sent + rem = RequestLen
    /\ pc = "thrown" /\ rem > 0 => ~executed

(* Unless the connection was reset or the server closed it early, the body    *)
(* returned is whole, in however many parts it arrived                        *)
(* (rpc_client.cpp:114-124, 207-223).                                         *)
WholeUnlessCut ==
    pc = "returned" => received = Total \/ produced < Total \/ peer = "reset"

Outcome ==
    CASE pc = "returned" -> IF reply = "rejection" THEN "refused" ELSE "answer"
      [] pc \in {"thrown", "killed"} -> "error"
      [] OTHER -> "pending"

Request == INSTANCE RpcRequest WITH outcome <- Outcome

(* The post keeps what RpcRequest promises: a body that comes from the        *)
(* server's answer means that the request was executed, once.                 *)
ImplementsRequest == Request!Spec

(* The call ends.                                                             *)
Ends == <>Done
=============================================================================
