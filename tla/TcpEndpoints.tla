---------------------------- MODULE TcpEndpoints ----------------------------
(***************************************************************************)
(* ITCPSERVER with its connectors and ITCPCLIENTMGR with its clients       *)
(* (Socket/TCPSocket/TCPSocket.cpp): accepting, connecting, closing, the   *)
(* messages to the host, and the reuse of an object for its next session   *)
(* while completions of the last one are still to come.                    *)
(*                                                                         *)
(* A manager has an asio thread, which runs the completions, and a queue   *)
(* of its own, and managers share nothing: this is one of them, of either  *)
(* kind.  The main thread runs the host, which handles the messages in     *)
(* order and calls Connect, Send and SafeClose.  Close and OnError are one *)
(* step each: their races are TcpConnection's.  A completion captures the  *)
(* object, not the socket, so that one of a closed socket acts on whatever *)
(* the object holds by then.                                               *)
(***************************************************************************)
EXTENDS Naturals, Sequences

CONSTANTS
  Connectors,   (* the objects AllocateConnector gives                     *)
  Clients,
  NoConn,       (* NULL                                                    *)
  MaxOld,       (* bound: a session begins with fewer old operations       *)
  MaxQueue      (* bound: a session begins with fewer messages queued      *)

ASSUME EndpointAssumption ==
  /\ Connectors \cap Clients = {} /\ NoConn \notin Connectors
  /\ MaxOld \in Nat /\ MaxQueue \in Nat

Endpoints == Connectors \cup Clients
Kinds == {"read", "write", "connect"}
Ages == {"now", "old"}   (* on m_Socket; on a socket closed since *)

VARIABLES
  isServer,          (* the manager is an ITCPSERVER that listens          *)
  m_Socket,          (* "null", "fresh" (open), "linked" (once connected)  *)
  ops,               (* per endpoint, age and kind: operations to complete *)
  m_sendBuf,         (* the endpoints whose buffer has a block to send     *)
  m_bConnected,      (* the clients whose flag is set                      *)
  m_bIsConnecting,
  managed,           (* the connectors whose m_pSvrMgr is set              *)
  inUse,             (* the connectors taken from the host's pool          *)
  abandoned,         (* those InitSvr threw on and the host did not free   *)
  accepting,         (* an async_accept is pending                         *)
  accepted,          (* the connector between AllocateConnector and InitSvr *)
  m_queueMsgs,
  up,                (* the endpoints that the host believes connected     *)
  crashed            (* a NULL m_Socket was dereferenced                   *)

vars == <<isServer, m_Socket, ops, m_sendBuf, m_bConnected, m_bIsConnecting, managed,
          inUse, abandoned, accepting, accepted, m_queueMsgs, up, crashed>>

flags  == <<m_bConnected, m_bIsConnecting>>
object == <<managed, inUse, abandoned>>
accept == <<accepting, accepted>>

NoOps == [k \in Kinds |-> 0]

Init ==
  /\ m_Socket = [e \in Endpoints |-> "null"]
  /\ ops = [e \in Endpoints |-> [now |-> NoOps, old |-> NoOps]]
  /\ m_sendBuf = {} /\ m_bConnected = {} /\ m_bIsConnecting = {}
  /\ managed = {} /\ inUse = {} /\ abandoned = {}
  /\ isServer \in BOOLEAN /\ accepting = isServer /\ accepted = NoConn
  /\ m_queueMsgs = << >> /\ up = {} /\ crashed = FALSE

----------------------------------------------------------------------------
(* What an endpoint's operations p become.                                 *)
Started(p, k) == [p EXCEPT !.now[k] = @ + 1]
Done(p, age, k) == [p EXCEPT ![age][k] = @ - 1]
Closed(p) == [now |-> NoOps, old |-> [k \in Kinds |-> p.old[k] + p.now[k]]]

Pending(e, k) == ops[e].now[k] + ops[e].old[k]
Msg(type, e) == [type |-> type, conn |-> e]
Post(type, e) == m_queueMsgs' = Append(m_queueMsgs, Msg(type, e))

Close_ForgetsOps(e, p) ==
  /\ m_Socket' = [m_Socket EXCEPT ![e] = "null"]
  /\ ops' = [ops EXCEPT ![e] = p]

(* Close; p is what is pending before. *)
Close(e, p) ==
  /\ m_Socket' = [m_Socket EXCEPT ![e] = "null"]
  /\ ops' = [ops EXCEPT ![e] = Closed(p)]

ClearFlags_OnlyConnected(e) ==
  m_bConnected' = m_bConnected \ {e} /\ UNCHANGED m_bIsConnecting

(* The status flags, which ITCPCLIENT::SafeClose and OnError clear first. *)
ClearFlags(e) ==
  /\ m_bConnected' = m_bConnected \ {e}
  /\ m_bIsConnecting' = m_bIsConnecting \ {e}

Report_OnlyTheFirst(e) ==
  IF e \in managed \cup Clients /\ m_Socket[e] # "null"
    THEN Post("DISCONNECT", e) ELSE UNCHANGED m_queueMsgs

Report(e) ==
  IF e \in managed \cup Clients THEN Post("DISCONNECT", e)
                                ELSE UNCHANGED m_queueMsgs

OnError(e, p) == Close(e, p) /\ ClearFlags(e) /\ Report(e)

DoRead_OnlyOnce(e, p, socket) == ops' = [ops EXCEPT ![e] = p] /\ UNCHANGED crashed

(* DoRead; p is what is pending before. *)
DoRead(e, p, socket) ==
  /\ ops' = [ops EXCEPT ![e] = IF socket = "null" THEN p ELSE Started(p, "read")]
  /\ crashed' = (socket = "null")

(* The asio thread that runs completions also runs the accept handler. *)
Runs(e) == e \in Connectors => accepted = NoConn

SessionMayBegin(e) ==
  /\ Pending(e, "read") + Pending(e, "write") + Pending(e, "connect") < MaxOld
  /\ Len(m_queueMsgs) < MaxQueue

----------------------------------------------------------------------------
(* The read and write handlers.  Data that arrives on the current socket   *)
(* starts the next read and changes nothing here; the data of an old one   *)
(* starts a read on the socket of the object's present session.            *)
OldReadOk(e) ==
  /\ Runs(e) /\ ops[e].old["read"] > 0
  /\ DoRead(e, Done(ops[e], "old", "read"), m_Socket[e])
  /\ UNCHANGED <<m_Socket, m_sendBuf, m_queueMsgs, up, flags, object, accept>>

DoSend(e, p) ==
  ops' = [ops EXCEPT ![e] = IF m_Socket[e] = "null" THEN p ELSE Started(p, "write")]

(* A write counts for whatever the object's buffer holds by then, and if   *)
(* that has more the next one goes to the present socket.                  *)
WriteOk(e, age) ==
  /\ Runs(e) /\ ops[e][age]["write"] > 0
  /\ LET p == Done(ops[e], age, "write")
     IN  \/ e \in m_sendBuf /\ DoSend(e, p) /\ UNCHANGED m_sendBuf
         \/ ops' = [ops EXCEPT ![e] = p] /\ m_sendBuf' = m_sendBuf \ {e}
  /\ UNCHANGED <<m_Socket, m_queueMsgs, up, crashed, flags, object, accept>>

Fails(e, age, k) ==
  /\ Runs(e) /\ k # "connect" /\ ops[e][age][k] > 0
  /\ OnError(e, Done(ops[e], age, k))
  /\ UNCHANGED <<m_sendBuf, up, crashed, object, accept>>

(* Connect's handler, on success ... *)
ConnectOk(e, age) ==
  LET socket == IF age = "now" THEN "linked" ELSE m_Socket[e]
  IN  /\ ops[e][age]["connect"] > 0 /\ (age = "now" => m_Socket[e] = "fresh")
      /\ m_Socket' = [m_Socket EXCEPT ![e] = socket]
      /\ m_bConnected' = m_bConnected \cup {e}
      /\ m_bIsConnecting' = m_bIsConnecting \ {e}
      /\ Post("CONNECTED", e)
      /\ DoRead(e, Done(ops[e], age, "connect"), socket)
      /\ UNCHANGED <<m_sendBuf, up, object, accept>>

(* ... and on failure, which leaves the socket open. *)
ConnectFails(e, age) ==
  /\ ops[e][age]["connect"] > 0
  /\ ops' = [ops EXCEPT ![e] = Done(@, age, "connect")]
  /\ ClearFlags(e)
  /\ Post("CONNECTFAILED", e)
  /\ UNCHANGED <<m_Socket, m_sendBuf, up, crashed, object, accept>>

----------------------------------------------------------------------------
(* The accept handler.  AllocateConnector takes a clean object or returns  *)
(* NULL, and then the handler leaves without accepting again.              *)
AcceptApply(c) ==
  /\ accepting /\ accepted = NoConn /\ c \notin inUse
  /\ SessionMayBegin(c)
  /\ accepted' = c
  /\ inUse' = inUse \cup {c}
  /\ managed' = managed \ {c} /\ abandoned' = abandoned \ {c}
  /\ Close(c, ops[c]) /\ m_sendBuf' = m_sendBuf \ {c}
  /\ UNCHANGED <<m_queueMsgs, up, crashed, flags, accepting>>

AcceptRefused ==
  /\ accepting /\ accepted = NoConn
  /\ accepting' = FALSE
  /\ UNCHANGED <<m_Socket, ops, m_sendBuf, m_queueMsgs, up, crashed, flags, object, accepted>>

(* The pool cleans what it gets back, and ignores what is not in use. *)
Release(c, p) ==
  IF c \in inUse
    THEN /\ inUse' = inUse \ {c}
         /\ managed' = managed \ {c} /\ abandoned' = abandoned \ {c}
         /\ Close(c, p) /\ m_sendBuf' = m_sendBuf \ {c}
    ELSE UNCHANGED <<m_Socket, ops, m_sendBuf, object>>

InitSvr(c) ==
  /\ accepted = c
  /\ accepted' = NoConn
  /\ m_Socket' = [m_Socket EXCEPT ![c] = "linked"]
  /\ managed' = managed \cup {c}

AcceptInit(c) ==
  /\ InitSvr(c)
  /\ ops' = [ops EXCEPT ![c] = Started(Closed(@), "read")]
  /\ m_sendBuf' = m_sendBuf \ {c}
  /\ Post("ACCEPTED", c)
  /\ UNCHANGED <<inUse, abandoned, up, crashed, flags, accepting>>

(* The peer has gone and remote_endpoint throws.  The handler lets the     *)
(* host process a DISCONNECT, in which some hosts release the connector,   *)
(* and does not release it itself.                                         *)
AcceptInitThrows(c) ==
  \/ /\ InitSvr(c)
     /\ ops' = [ops EXCEPT ![c] = Closed(@)]
     /\ abandoned' = abandoned \cup {c}
     /\ UNCHANGED <<m_sendBuf, inUse, m_queueMsgs, up, crashed, flags, accepting>>
  \/ /\ accepted = c /\ c \in inUse
     /\ accepted' = NoConn
     /\ Release(c, ops[c])
     /\ UNCHANGED <<m_queueMsgs, up, crashed, flags, accepting>>

----------------------------------------------------------------------------
(* The host, on the main thread. *)
Connect(e) ==
  /\ ~isServer /\ e \notin up /\ e \notin m_bIsConnecting
  /\ SessionMayBegin(e)
  /\ m_Socket' = [m_Socket EXCEPT ![e] = IF @ = "null" THEN "fresh" ELSE @]
  /\ m_bIsConnecting' = m_bIsConnecting \cup {e}
  /\ ops' = [ops EXCEPT ![e] = Started(@, "connect")]
  /\ UNCHANGED <<m_sendBuf, m_bConnected, m_queueMsgs, up, crashed, object, accept>>

SafeClose(e) ==
  /\ e \in up \cup Clients
  /\ m_Socket[e] # "null"
  /\ Close(e, ops[e]) /\ ClearFlags(e)
  /\ UNCHANGED <<m_sendBuf, m_queueMsgs, up, crashed, object, accept>>

(* With a block to send already, the message is only queued behind it. *)
Send(e) ==
  /\ e \in up /\ m_Socket[e] # "null" /\ e \notin m_sendBuf
  /\ m_sendBuf' = m_sendBuf \cup {e}
  /\ DoSend(e, ops[e])
  /\ UNCHANGED <<m_Socket, m_queueMsgs, up, crashed, flags, object, accept>>

(* The buffer refuses a message, though perhaps not its first block, and   *)
(* Send calls OnError on the main thread.                                  *)
SendRefused(e) ==
  /\ e \in up /\ m_Socket[e] # "null"
  /\ m_sendBuf' \in {m_sendBuf, m_sendBuf \cup {e}}
  /\ OnError(e, ops[e])
  /\ UNCHANGED <<up, crashed, object, accept>>

(* MessageConsumer: ProcessEvent, and for a DISCONNECT the manager's       *)
(* ProcessDisconnectEvent, which releases a connector and closes a client. *)
(* The hosts of a client clear its send buffer in all three.               *)
HandleOpened ==
  /\ m_queueMsgs # << >> /\ Head(m_queueMsgs).type \in {"ACCEPTED", "CONNECTED"}
  /\ up' = up \cup {Head(m_queueMsgs).conn}
  /\ m_sendBuf' = m_sendBuf \ ({Head(m_queueMsgs).conn} \cap Clients)
  /\ m_queueMsgs' = Tail(m_queueMsgs)
  /\ UNCHANGED <<m_Socket, ops, crashed, flags, object, accept>>

HandleConnectFailed ==
  /\ m_queueMsgs # << >> /\ Head(m_queueMsgs).type = "CONNECTFAILED"
  /\ up' = up \ {Head(m_queueMsgs).conn}
  /\ m_sendBuf' = m_sendBuf \ {Head(m_queueMsgs).conn}
  /\ m_queueMsgs' = Tail(m_queueMsgs)
  /\ UNCHANGED <<m_Socket, ops, crashed, flags, object, accept>>

HandleDisconnect ==
  /\ m_queueMsgs # << >> /\ Head(m_queueMsgs).type = "DISCONNECT"
  /\ m_queueMsgs' = Tail(m_queueMsgs)
  /\ LET e == Head(m_queueMsgs).conn
     IN  /\ up' = up \ {e}
         /\ ClearFlags(e)
         /\ IF e \in Connectors
              THEN Release(e, ops[e])
              ELSE Close(e, ops[e]) /\ m_sendBuf' = m_sendBuf \ {e} /\ UNCHANGED object
  /\ UNCHANGED <<crashed, accept>>

Handle == HandleOpened \/ HandleConnectFailed \/ HandleDisconnect

(* Nothing runs after a crash. *)
Step(A) == ~crashed /\ A /\ UNCHANGED isServer

Next == Step(
  \/ \E e \in Endpoints : OldReadOk(e) \/ SafeClose(e) \/ Send(e) \/ SendRefused(e)
  \/ \E e \in Endpoints, age \in Ages :
       WriteOk(e, age) \/ \E k \in Kinds : Fails(e, age, k)
  \/ \E e \in Clients, age \in Ages : ConnectOk(e, age) \/ ConnectFails(e, age)
  \/ \E e \in Clients : Connect(e)
  \/ \E c \in Connectors : AcceptApply(c) \/ AcceptInit(c) \/ AcceptInitThrows(c)
  \/ AcceptRefused \/ Handle)

Spec == Init /\ [][Next]_vars

(* The main thread handles its messages, the accept handler goes on, and   *)
(* asio completes what it was given: an operation of a closed socket,      *)
(* which arriving connections cannot hold back for ever since handlers run *)
(* in the order of their completions, and an attempt to connect, which     *)
(* times out at last.                                                      *)
FairSpec ==
  /\ Spec
  /\ WF_vars(Step(Handle))
  /\ \A c \in Connectors : WF_vars(Step(AcceptInit(c) \/ AcceptInitThrows(c)))
  /\ \A e \in Endpoints : SF_vars(Step(OldReadOk(e) \/ Fails(e, "old", "read")))
  /\ \A e \in Clients :
       WF_vars(Step(\E age \in Ages : ConnectOk(e, age) \/ ConnectFails(e, age)))

----------------------------------------------------------------------------
Messages ==
  [type : {"ACCEPTED"}, conn : Connectors]
    \cup [type : {"CONNECTED", "CONNECTFAILED"}, conn : Clients]
    \cup [type : {"DISCONNECT"}, conn : Endpoints]

(* Only an open socket has operations. *)
TypeOK ==
  /\ m_Socket \in [Endpoints -> {"null", "fresh", "linked"}]
  /\ ops \in [Endpoints -> [Ages -> [Kinds -> Nat]]]
  /\ m_sendBuf \subseteq Endpoints
  /\ m_bConnected \subseteq Clients /\ m_bIsConnecting \subseteq Clients
  /\ managed \subseteq Connectors /\ inUse \subseteq Connectors
  /\ abandoned \subseteq Connectors
  /\ isServer \in BOOLEAN /\ accepting \in BOOLEAN /\ accepted \in Connectors \cup {NoConn}
  /\ m_queueMsgs \in Seq(Messages)
  /\ up \subseteq Endpoints /\ crashed \in BOOLEAN
  /\ \A e \in Endpoints : m_Socket[e] = "null" => ops[e].now = NoOps

(* After the first i messages of q one of these types about e comes. *)
Follows(q, i, e, types) ==
  \E j \in 1..Len(q) : i < j /\ q[j].conn = e /\ q[j].type \in types

ComesBack(c) ==
  \/ accepted = c \/ c \in abandoned
  \/ c \in managed /\ (\/ Pending(c, "read") > 0
                      \/ Follows(m_queueMsgs, 0, c, {"DISCONNECT"}))

(* A connector in use comes back to the pool: a read will end and be       *)
(* reported, or the report is queued, however late completions and second  *)
(* reports of earlier sessions fall.  The exceptions are the ones that     *)
(* AcceptInitThrows leaves.                                                *)
NoConnectorLost == crashed \/ \A c \in inUse : ComesBack(c)

Ended == {"DISCONNECT", "CONNECTFAILED"}

EndFollows(i, e) ==
  Pending(e, "read") > 0 \/ Follows(m_queueMsgs, i, e, Ended)

(* A host that believes a client connected, or will when it has handled    *)
(* what is queued, gets to know the end; a client that is connecting has   *)
(* an attempt pending that will clear the flag.                            *)
ClientWillLearn ==
  crashed \/
    \A e \in Clients :
      /\ e \in up => EndFollows(0, e)
      /\ \A i \in 1..Len(m_queueMsgs) :
           m_queueMsgs[i] = Msg("CONNECTED", e) => EndFollows(i, e)
      /\ e \in m_bConnected => Pending(e, "read") > 0
      /\ e \in m_bIsConnecting => Pending(e, "connect") > 0

(* Whoever closes it, a session's end reaches the host: the connector is   *)
(* released, the client is no longer thought to be connected, or it has    *)
(* been opened again meanwhile.                                            *)
ClosedIsForgotten ==
  \A e \in Endpoints :
    m_Socket[e] = "null" /\ e \in inUse \cup (up \cap Clients)
      ~> \/ e \notin inUse \cup (up \cap Clients)
         \/ m_Socket[e] # "null" \/ e \in abandoned \/ crashed

(* No client stays connecting, which would keep Connect from ever trying   *)
(* again.                                                                  *)
ConnectEnds ==
  \A e \in Clients : e \in m_bIsConnecting ~> e \notin m_bIsConnecting \/ crashed

(* TCPSocket.cpp:204 says of Connect that a client that is connecting is   *)
(* not connected a second time.                                            *)
NoDuplicateConnect == \A e \in Clients : ops[e].now["connect"] <= 1
=============================================================================
