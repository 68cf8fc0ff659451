------------------------- MODULE TcpEndpointsProofs -------------------------
(***************************************************************************)
(* Proofs about TcpEndpoints, for any number of connectors and clients and *)
(* any bounds.  The conjunction IInv of the type invariant, of what is     *)
(* known of a connector in use and of what is known of a client is         *)
(* inductive.  Each action changes one endpoint and at most one end of the *)
(* queue: the lemmas ConnectorAside and ClientAside deal with everything   *)
(* that an action leaves as it was, and the proof of an action only with   *)
(* the endpoint it is about.                                               *)
(***************************************************************************)
EXTENDS TcpEndpoints, TLAPS

OpRec == [Ages -> [Kinds -> Nat]]
AllOf(p, k) == p.now[k] + p.old[k]

(* What ClientWillLearn says of one client. *)
Learns(e) ==
  /\ e \in up => EndFollows(0, e)
  /\ \A i \in 1..Len(m_queueMsgs) :
       m_queueMsgs[i] = Msg("CONNECTED", e) => EndFollows(i, e)
  /\ e \in m_bConnected => Pending(e, "read") > 0
  /\ e \in m_bIsConnecting => Pending(e, "connect") > 0

IInv == TypeOK /\ NoConnectorLost /\ ClientWillLearn

(* What an action that is not a handler of the host does to the queue. *)
QueueGrows ==
  \/ m_queueMsgs' = m_queueMsgs
  \/ \E m \in Messages : m_queueMsgs' = Append(m_queueMsgs, m)

----------------------------------------------------------------------------
(* Operations that an endpoint starts are added to what is pending.        *)
LEMMA StartedAdds ==
  ASSUME NEW p \in OpRec, NEW k \in Kinds
  PROVE  /\ Started(p, k) \in OpRec
         /\ \A j \in Kinds :
              AllOf(Started(p, k), j) = IF j = k THEN AllOf(p, j) + 1 ELSE AllOf(p, j)
  BY SMT DEF Started, OpRec, AllOf, Ages, Kinds

(* One that completes is taken away. *)
LEMMA DoneTakes ==
  ASSUME NEW p \in OpRec, NEW k \in Kinds, NEW age \in Ages, p[age][k] > 0
  PROVE  /\ Done(p, age, k) \in OpRec
         /\ age = "old" => Done(p, age, k).now = p.now
         /\ \A j \in Kinds :
              AllOf(Done(p, age, k), j) = IF j = k THEN AllOf(p, j) - 1 ELSE AllOf(p, j)
  BY SMT DEF Done, OpRec, AllOf, Ages, Kinds

(* Closing the socket leaves none on it and loses none. *)
LEMMA ClosedKeeps ==
  ASSUME NEW p \in OpRec
  PROVE  /\ Closed(p) \in OpRec /\ Closed(p).now = NoOps
         /\ \A j \in Kinds : AllOf(Closed(p), j) = AllOf(p, j)
  BY SMT DEF Closed, OpRec, AllOf, Ages, Kinds, NoOps

(* Numbers of operations are natural numbers. *)
LEMMA AllOfNat ==
  ASSUME NEW p \in OpRec, NEW k \in Kinds
  PROVE  AllOf(p, k) \in Nat
  BY SMT DEF OpRec, AllOf, Ages, Kinds

(* A step that gives one endpoint a socket and operations keeps the types. *)
LEMMA SetEndpoint ==
  ASSUME TypeOK, NEW e \in Endpoints, NEW s \in {"null", "fresh", "linked"},
         NEW p \in OpRec, s = "null" => p.now = NoOps,
         m_Socket' = [m_Socket EXCEPT ![e] = s], ops' = [ops EXCEPT ![e] = p]
  PROVE  /\ m_Socket' \in [Endpoints -> {"null", "fresh", "linked"}]
         /\ ops' \in [Endpoints -> OpRec]
         /\ \A x \in Endpoints : m_Socket'[x] = "null" => ops'[x].now = NoOps
         /\ \A k \in Kinds : Pending(e, k)' = AllOf(p, k)
         /\ \A x \in Endpoints \ {e}, k \in Kinds : Pending(x, k)' = Pending(x, k)
<1>1. /\ m_Socket'[e] = s /\ ops'[e] = p
      /\ \A x \in Endpoints \ {e} : m_Socket'[x] = m_Socket[x] /\ ops'[x] = ops[x]
  BY DEF TypeOK
<1>2. m_Socket' \in [Endpoints -> {"null", "fresh", "linked"}] /\ ops' \in [Endpoints -> OpRec]
  BY DEF TypeOK, OpRec
<1>3. \A x \in Endpoints : m_Socket'[x] = "null" => ops'[x].now = NoOps
  BY <1>1 DEF TypeOK
<1>4. \A k \in Kinds : Pending(e, k)' = AllOf(p, k)
  BY <1>1 DEF Pending, AllOf
<1>5. \A x \in Endpoints \ {e}, k \in Kinds : Pending(x, k)' = Pending(x, k)
  BY <1>1 DEF Pending
<1> QED BY <1>2, <1>3, <1>4, <1>5

----------------------------------------------------------------------------
(* A message that follows still follows when one is appended.              *)
LEMMA FollowsAppend ==
  ASSUME NEW q \in Seq(Messages), NEW m \in Messages, NEW i \in Nat,
         NEW e, NEW types, Follows(q, i, e, types)
  PROVE  Follows(Append(q, m), i, e, types)
  BY DEF Follows

(* The one that is appended follows everything before it. *)
LEMMA FollowsNew ==
  ASSUME NEW q \in Seq(Messages), NEW m \in Messages, NEW i \in 0..Len(q),
         NEW types, m.type \in types
  PROVE  Follows(Append(q, m), i, m.conn, types)
<1>1. Append(q, m)[Len(q) + 1] = m /\ Len(Append(q, m)) = Len(q) + 1 /\ Len(q) \in Nat
  OBVIOUS
<1> QED BY <1>1 DEF Follows

(* Taking the head moves every message one place forward. *)
LEMMA FollowsTail ==
  ASSUME NEW q \in Seq(Messages), q # << >>, NEW i \in Nat,
         NEW e, NEW types, Follows(q, i + 1, e, types)
  PROVE  Follows(Tail(q), i, e, types)
<1>1. PICK j \in 1..Len(q) : i + 1 < j /\ q[j].conn = e /\ q[j].type \in types
  BY DEF Follows
<1>2. j - 1 \in 1..Len(Tail(q)) /\ i < j - 1 /\ Tail(q)[j - 1] = q[j]
  BY <1>1
<1> QED BY <1>1, <1>2 DEF Follows

(* What follows the beginning and is not the head follows the head. *)
LEMMA FollowsHead ==
  ASSUME NEW q \in Seq(Messages), q # << >>, NEW e, NEW types,
         Follows(q, 0, e, types), Head(q).conn # e \/ Head(q).type \notin types
  PROVE  Follows(q, 1, e, types)
  BY DEF Follows

(* Either way a message that follows still does when the queue grows.      *)
LEMMA FollowsGrown ==
  ASSUME TypeOK, QueueGrows, NEW i \in Nat, NEW e, NEW types,
         Follows(m_queueMsgs, i, e, types)
  PROVE  Follows(m_queueMsgs', i, e, types)
  BY FollowsAppend DEF QueueGrows, TypeOK

----------------------------------------------------------------------------
(* A connector that is not touched, or only its socket, still comes back.  *)
LEMMA ConnectorAside ==
  ASSUME TypeOK, QueueGrows, NEW c \in Connectors, ComesBack(c),
         accepted = c => accepted' = c, c \in abandoned => c \in abandoned',
         c \in managed => c \in managed',
         Pending(c, "read") > 0 => Pending(c, "read")' > 0
  PROVE  ComesBack(c)'
  BY FollowsGrown DEF ComesBack

(* A client that is not touched, or only its socket, is as it was.         *)
LEMMA ClientAside ==
  ASSUME TypeOK, QueueGrows, NEW e \in Clients, Learns(e),
         e \in up' => e \in up, e \in m_bConnected' => e \in m_bConnected,
         e \in m_bIsConnecting' => e \in m_bIsConnecting,
         Pending(e, "read") > 0 => Pending(e, "read")' > 0,
         Pending(e, "connect") > 0 => Pending(e, "connect")' > 0,
         m_queueMsgs' # Append(m_queueMsgs, Msg("CONNECTED", e))
  PROVE  Learns(e)'
<1>1. \A i \in Nat : EndFollows(i, e) => EndFollows(i, e)'
  BY FollowsGrown DEF EndFollows
<1>2. ASSUME NEW i \in 1..Len(m_queueMsgs'), m_queueMsgs'[i] = Msg("CONNECTED", e)
      PROVE  i \in 1..Len(m_queueMsgs) /\ m_queueMsgs[i] = Msg("CONNECTED", e)
  <2>1. CASE m_queueMsgs' = m_queueMsgs
    BY <1>2, <2>1
  <2>2. ASSUME NEW m \in Messages, m_queueMsgs' = Append(m_queueMsgs, m)
        PROVE  i \in 1..Len(m_queueMsgs) /\ m_queueMsgs[i] = Msg("CONNECTED", e)
    <3>1. m_queueMsgs \in Seq(Messages)
      BY DEF TypeOK
    <3>2. m # Msg("CONNECTED", e)
      BY <2>2
    <3> QED BY <1>2, <2>2, <3>1, <3>2
  <2> QED BY <2>1, <2>2 DEF QueueGrows
<1>3. \A i \in 1..Len(m_queueMsgs') :
        m_queueMsgs'[i] = Msg("CONNECTED", e) => EndFollows(i, e)'
  BY <1>1, <1>2 DEF Learns
<1> QED BY <1>1, <1>3 DEF Learns

(* A report of the end that is queued is an end for every earlier message. *)
LEMMA ClientReported ==
  ASSUME TypeOK, NEW e \in Clients, Learns(e),
         NEW m \in Messages, m.conn = e, m.type \in Ended,
         m_queueMsgs' = Append(m_queueMsgs, m), up' = up,
         e \in m_bConnected' => Pending(e, "read")' > 0,
         e \in m_bIsConnecting' => Pending(e, "connect")' > 0
  PROVE  Learns(e)'
<1>1. \A i \in 0..Len(m_queueMsgs) : EndFollows(i, e)'
  BY FollowsNew DEF EndFollows, TypeOK
<1>2. ASSUME NEW i \in 1..Len(m_queueMsgs'), m_queueMsgs'[i] = Msg("CONNECTED", e)
      PROVE  i \in 0..Len(m_queueMsgs)
  <2>1. m_queueMsgs \in Seq(Messages)
    BY DEF TypeOK
  <2>2. m # Msg("CONNECTED", e)
    BY DEF Msg, Ended
  <2> QED BY <1>2, <2>1, <2>2
<1>3. 0 \in 0..Len(m_queueMsgs)
  BY DEF TypeOK
<1> QED BY <1>1, <1>2, <1>3 DEF Learns

----------------------------------------------------------------------------
(* A step that takes no last read or attempt to connect away and tells     *)
(* nobody anything keeps both invariants.                                  *)
LEMMA Quiet ==
  ASSUME IInv, ~crashed, UNCHANGED <<m_queueMsgs, up, object, accepted>>,
         m_bConnected' \subseteq m_bConnected,
         m_bIsConnecting' \subseteq m_bIsConnecting,
         \A e \in Endpoints, k \in {"read", "connect"} :
           Pending(e, k) > 0 => Pending(e, k)' > 0
  PROVE  NoConnectorLost' /\ ClientWillLearn'
<1>1. QueueGrows
  BY DEF QueueGrows
<1>2. ASSUME NEW c \in inUse' PROVE ComesBack(c)'
  <2>1. c \in Connectors /\ c \in Endpoints /\ ComesBack(c)
    BY <1>2 DEF IInv, TypeOK, NoConnectorLost, object, Endpoints
  <2> QED BY <1>1, <2>1, ConnectorAside DEF IInv, object
<1>3. ASSUME NEW e \in Clients PROVE Learns(e)'
  <2>1. e \in Endpoints /\ Learns(e)
    BY DEF IInv, ClientWillLearn, Learns, Endpoints
  <2>2. m_queueMsgs' # Append(m_queueMsgs, Msg("CONNECTED", e))
    <3>1. m_queueMsgs \in Seq(Messages)
      BY DEF IInv, TypeOK
    <3>2. Len(Append(m_queueMsgs, Msg("CONNECTED", e))) = Len(m_queueMsgs) + 1
      BY <3>1, Msg("CONNECTED", e) \in Messages DEF Msg, Messages
    <3> QED BY <3>1, <3>2
  <2> QED BY <1>1, <2>1, <2>2, ClientAside DEF IInv
<1> QED BY <1>2, <1>3 DEF NoConnectorLost, ClientWillLearn, Learns

(* OnError ends the session and reports it, with one operation of e, a     *)
(* read or a write, taken away or none.                                    *)
LEMMA OnErrorStep ==
  ASSUME IInv, ~crashed, NEW e \in Endpoints, NEW p \in OpRec,
         AllOf(p, "connect") = Pending(e, "connect"),
         OnError(e, p), m_sendBuf' \subseteq Endpoints,
         UNCHANGED <<up, crashed, object, accept, isServer>>
  PROVE  IInv'
<1>1. /\ Closed(p) \in OpRec /\ Closed(p).now = NoOps
      /\ \A k \in Kinds : AllOf(Closed(p), k) = AllOf(p, k)
  BY ClosedKeeps
<1>2. /\ m_Socket' \in [Endpoints -> {"null", "fresh", "linked"}]
      /\ ops' \in [Endpoints -> OpRec]
      /\ \A x \in Endpoints : m_Socket'[x] = "null" => ops'[x].now = NoOps
      /\ \A k \in Kinds : Pending(e, k)' = AllOf(p, k)
      /\ \A x \in Endpoints \ {e}, k \in Kinds : Pending(x, k)' = Pending(x, k)
  <2>1. /\ m_Socket' = [m_Socket EXCEPT ![e] = "null"]
        /\ ops' = [ops EXCEPT ![e] = Closed(p)]
    BY DEF OnError, Close
  <2>2. TypeOK
    BY DEF IInv
  <2>3. /\ m_Socket' \in [Endpoints -> {"null", "fresh", "linked"}]
        /\ ops' \in [Endpoints -> OpRec]
        /\ \A x \in Endpoints : m_Socket'[x] = "null" => ops'[x].now = NoOps
        /\ \A k \in Kinds : Pending(e, k)' = AllOf(Closed(p), k)
        /\ \A x \in Endpoints \ {e}, k \in Kinds : Pending(x, k)' = Pending(x, k)
    BY <1>1, <2>1, <2>2, SetEndpoint
  <2> QED BY <1>1, <2>3
<1>3. Msg("DISCONNECT", e) \in Messages /\ Msg("DISCONNECT", e).conn = e
      /\ Msg("DISCONNECT", e).type = "DISCONNECT"
  BY DEF Msg, Messages
<1>4. QueueGrows /\ m_queueMsgs' \in Seq(Messages)
  <2>1. m_queueMsgs \in Seq(Messages)
    BY DEF IInv, TypeOK
  <2>2. \/ m_queueMsgs' = m_queueMsgs
        \/ m_queueMsgs' = Append(m_queueMsgs, Msg("DISCONNECT", e))
    BY DEF OnError, Report, Post
  <2> QED BY <1>3, <2>1, <2>2 DEF QueueGrows
<1>5. TypeOK'
  BY <1>2, <1>4 DEF IInv, TypeOK, OnError, ClearFlags, object, accept, OpRec
<1>6. ASSUME NEW c \in inUse' PROVE ComesBack(c)'
  <2>1. c \in Connectors /\ ComesBack(c) /\ UNCHANGED <<accepted, abandoned, managed>>
    BY <1>6 DEF IInv, TypeOK, NoConnectorLost, object, accept
  <2>2. CASE c # e
    BY <1>2, <1>4, <2>1, <2>2, ConnectorAside DEF IInv, Kinds, Endpoints
  <2>3. CASE c = e /\ c \in managed
    <3>1. m_queueMsgs' = Append(m_queueMsgs, Msg("DISCONNECT", e))
      BY <2>3 DEF OnError, Report, Post
    <3>2. Follows(m_queueMsgs', 0, c, {"DISCONNECT"})
      <4>1. m_queueMsgs \in Seq(Messages) /\ 0 \in 0..Len(m_queueMsgs)
        BY DEF IInv, TypeOK
      <4>2. Follows(Append(m_queueMsgs, Msg("DISCONNECT", e)), 0,
                    Msg("DISCONNECT", e).conn, {"DISCONNECT"})
        BY <1>3, <4>1, FollowsNew
      <4> QED BY <1>3, <2>3, <3>1, <4>2
    <3> QED BY <2>1, <2>3, <3>2 DEF ComesBack
  <2>4. CASE c = e /\ c \notin managed
    BY <2>1, <2>4 DEF ComesBack
  <2> QED BY <2>2, <2>3, <2>4
<1>7. ASSUME NEW x \in Clients PROVE Learns(x)'
  <2>1. Learns(x) /\ x \in Endpoints
    BY DEF IInv, ClientWillLearn, Learns, Endpoints
  <2>2. CASE x = e
    <3>1. m_queueMsgs' = Append(m_queueMsgs, Msg("DISCONNECT", e))
      BY <2>2 DEF OnError, Report, Post
    <3>2. x \notin m_bConnected' /\ x \notin m_bIsConnecting'
      BY <2>2 DEF OnError, ClearFlags
    <3> QED BY <1>3, <2>1, <2>2, <3>1, <3>2, ClientReported DEF IInv, Ended
  <2>3. CASE x # e
    <3>1. m_queueMsgs' # Append(m_queueMsgs, Msg("CONNECTED", x))
      <4>1. m_queueMsgs \in Seq(Messages) /\ Msg("CONNECTED", x) \in Messages
        BY DEF IInv, TypeOK, Msg, Messages
      <4>2. Msg("CONNECTED", x) # Msg("DISCONNECT", e)
        BY DEF Msg
      <4>3. \/ m_queueMsgs' = m_queueMsgs
            \/ m_queueMsgs' = Append(m_queueMsgs, Msg("DISCONNECT", e))
        BY DEF OnError, Report, Post
      <4> QED BY <1>3, <4>1, <4>2, <4>3
    <3>2. m_bConnected' \subseteq m_bConnected /\ m_bIsConnecting' \subseteq m_bIsConnecting
      BY DEF OnError, ClearFlags
    <3> QED BY <1>2, <1>4, <2>1, <2>3, <3>1, <3>2, ClientAside DEF IInv, Kinds
  <2> QED BY <2>2, <2>3
<1> QED BY <1>5, <1>6, <1>7 DEF IInv, NoConnectorLost, ClientWillLearn, Learns

----------------------------------------------------------------------------
(* One lemma per action. *)

(* What is pending of an endpoint, as a value.                             *)
LEMMA OpsOf ==
  ASSUME TypeOK, NEW e \in Endpoints
  PROVE  /\ ops[e] \in OpRec /\ m_Socket[e] \in {"null", "fresh", "linked"}
         /\ m_Socket[e] = "null" => ops[e].now = NoOps
         /\ \A k \in Kinds : Pending(e, k) = AllOf(ops[e], k) /\ Pending(e, k) \in Nat
BY AllOfNat DEF TypeOK, OpRec, Pending, AllOf

LEMMA FailsStep ==
  ASSUME IInv, ~crashed, isServer' = isServer,
         NEW e \in Endpoints, NEW age \in Ages, NEW k \in Kinds, Fails(e, age, k)
  PROVE  IInv'
<1> DEFINE p == Done(ops[e], age, k)
<1>1. ops[e] \in OpRec /\ Pending(e, "connect") = AllOf(ops[e], "connect") /\ "connect" \in Kinds
  BY OpsOf DEF IInv, Kinds
<1>2. k # "connect" /\ ops[e][age][k] > 0 /\ OnError(e, p)
      /\ UNCHANGED <<up, crashed, object, accept>> /\ m_sendBuf' \subseteq Endpoints
  BY DEF Fails, IInv, TypeOK
<1>3. p \in OpRec /\ AllOf(p, "connect") = Pending(e, "connect")
  BY <1>1, <1>2, DoneTakes
<1> HIDE DEF p
<1> QED BY <1>2, <1>3, OnErrorStep

LEMMA SendRefusedStep ==
  ASSUME IInv, ~crashed, isServer' = isServer, NEW e \in Endpoints, SendRefused(e)
  PROVE  IInv'
<1>1. ops[e] \in OpRec /\ Pending(e, "connect") = AllOf(ops[e], "connect")
  BY OpsOf DEF IInv, Kinds
<1>2. OnError(e, ops[e]) /\ UNCHANGED <<up, crashed, object, accept>>
  BY DEF SendRefused
<1>3. m_sendBuf' \subseteq Endpoints
  BY DEF SendRefused, IInv, TypeOK
<1> QED BY <1>1, <1>2, <1>3, OnErrorStep

LEMMA SafeCloseStep ==
  ASSUME IInv, ~crashed, isServer' = isServer, NEW e \in Endpoints, SafeClose(e)
  PROVE  IInv'
<1>1. TypeOK
  BY DEF IInv
<1>2. /\ Closed(ops[e]) \in OpRec /\ Closed(ops[e]).now = NoOps
      /\ \A k \in Kinds : AllOf(Closed(ops[e]), k) = Pending(e, k)
  BY <1>1, OpsOf, ClosedKeeps
<1>3. /\ m_Socket' = [m_Socket EXCEPT ![e] = "null"]
      /\ ops' = [ops EXCEPT ![e] = Closed(ops[e])]
  BY DEF SafeClose, Close
<1>4. /\ m_Socket' \in [Endpoints -> {"null", "fresh", "linked"}]
      /\ ops' \in [Endpoints -> OpRec]
      /\ \A x \in Endpoints : m_Socket'[x] = "null" => ops'[x].now = NoOps
      /\ \A x \in Endpoints, k \in Kinds : Pending(x, k)' = Pending(x, k)
  <2>1. /\ m_Socket' \in [Endpoints -> {"null", "fresh", "linked"}]
        /\ ops' \in [Endpoints -> OpRec]
        /\ \A x \in Endpoints : m_Socket'[x] = "null" => ops'[x].now = NoOps
        /\ \A k \in Kinds : Pending(e, k)' = AllOf(Closed(ops[e]), k)
        /\ \A x \in Endpoints \ {e}, k \in Kinds : Pending(x, k)' = Pending(x, k)
    BY <1>1, <1>2, <1>3, SetEndpoint
  <2> QED BY <1>2, <2>1
<1>5. /\ m_bConnected' \subseteq m_bConnected /\ m_bIsConnecting' \subseteq m_bIsConnecting
      /\ UNCHANGED <<m_queueMsgs, up, crashed, object, accepting, accepted>>
  BY DEF SafeClose, ClearFlags, accept
<1>6. TypeOK'
  <2>1. m_sendBuf' \subseteq Endpoints
    BY <1>1 DEF SafeClose, TypeOK
  <2> QED BY <1>1, <1>4, <1>5, <2>1 DEF TypeOK, OpRec, object
<1>7. NoConnectorLost' /\ ClientWillLearn'
  BY <1>4, <1>5, Quiet DEF Kinds
<1> QED BY <1>6, <1>7 DEF IInv

LEMMA SendStep ==
  ASSUME IInv, ~crashed, isServer' = isServer, NEW e \in Endpoints, Send(e)
  PROVE  IInv'
<1> DEFINE p == Started(ops[e], "write")
<1>1. TypeOK
  BY DEF IInv
<1>2. /\ p \in OpRec
      /\ AllOf(p, "read") = Pending(e, "read")
      /\ AllOf(p, "connect") = Pending(e, "connect")
  BY <1>1, OpsOf, StartedAdds DEF Kinds
<1>3. m_Socket[e] # "null" /\ ops' = [ops EXCEPT ![e] = p] /\ m_sendBuf' = m_sendBuf \cup {e}
      /\ UNCHANGED <<m_Socket, m_queueMsgs, up, crashed, flags, object, accepting, accepted>>
  BY DEF Send, DoSend, accept
<1>4. m_Socket' = [m_Socket EXCEPT ![e] = m_Socket[e]] /\ m_Socket[e] \in {"null", "fresh", "linked"}
  BY <1>1, <1>3 DEF TypeOK
<1> HIDE DEF p
<1>5. /\ m_Socket' \in [Endpoints -> {"null", "fresh", "linked"}]
      /\ ops' \in [Endpoints -> OpRec]
      /\ \A x \in Endpoints : m_Socket'[x] = "null" => ops'[x].now = NoOps
      /\ \A k \in Kinds : Pending(e, k)' = AllOf(p, k)
      /\ \A x \in Endpoints \ {e}, k \in Kinds : Pending(x, k)' = Pending(x, k)
  BY <1>1, <1>2, <1>3, <1>4, SetEndpoint
<1>6. TypeOK'
  BY <1>1, <1>3, <1>5 DEF TypeOK, OpRec, object, flags
<1>7. \A x \in Endpoints, k \in {"read", "connect"} : Pending(x, k)' = Pending(x, k)
  BY <1>2, <1>5 DEF Kinds
<1>8. NoConnectorLost' /\ ClientWillLearn'
  BY <1>3, <1>7, Quiet DEF flags
<1> QED BY <1>6, <1>8 DEF IInv

LEMMA WriteOkStep ==
  ASSUME IInv, ~crashed, isServer' = isServer,
         NEW e \in Endpoints, NEW age \in Ages, WriteOk(e, age)
  PROVE  IInv'
<1> DEFINE p == Done(ops[e], age, "write")
<1>1. TypeOK /\ "write" \in Kinds
  BY DEF IInv, Kinds
<1>2. /\ ops[e] \in OpRec /\ ops[e][age]["write"] > 0
      /\ UNCHANGED <<m_Socket, m_queueMsgs, up, crashed, flags, object, accepting, accepted>>
  BY <1>1, OpsOf DEF WriteOk, accept
<1>3. /\ p \in OpRec /\ (age = "old" => p.now = ops[e].now)
      /\ AllOf(p, "read") = Pending(e, "read")
      /\ AllOf(p, "connect") = Pending(e, "connect")
  BY <1>1, <1>2, OpsOf, DoneTakes DEF Kinds
<1>4. /\ m_sendBuf' \subseteq m_sendBuf
      /\ \/ ops' = [ops EXCEPT ![e] = p]
         \/ m_Socket[e] # "null" /\ ops' = [ops EXCEPT ![e] = Started(p, "write")]
  BY DEF WriteOk, DoSend
<1>5. m_Socket[e] = "null" => ops[e].now = NoOps /\ age = "old"
  <2>1. m_Socket[e] = "null" => ops[e].now = NoOps
    BY <1>1, OpsOf
  <2> QED BY <1>2, <2>1 DEF NoOps, Ages, Kinds
<1> HIDE DEF p
<1>6. PICK q \in OpRec : /\ ops' = [ops EXCEPT ![e] = q]
                         /\ m_Socket[e] = "null" => q.now = NoOps
                         /\ AllOf(q, "read") = Pending(e, "read")
                         /\ AllOf(q, "connect") = Pending(e, "connect")
  <2>1. CASE ops' = [ops EXCEPT ![e] = p]
    BY <1>3, <1>5, <2>1
  <2>2. CASE m_Socket[e] # "null" /\ ops' = [ops EXCEPT ![e] = Started(p, "write")]
    <3>1. /\ Started(p, "write") \in OpRec
          /\ AllOf(Started(p, "write"), "read") = Pending(e, "read")
          /\ AllOf(Started(p, "write"), "connect") = Pending(e, "connect")
      BY <1>3, StartedAdds DEF Kinds
    <3> QED BY <2>2, <3>1
  <2> QED BY <1>4, <2>1, <2>2
<1>7. m_Socket' = [m_Socket EXCEPT ![e] = m_Socket[e]] /\ m_Socket[e] \in {"null", "fresh", "linked"}
  BY <1>1, <1>2 DEF TypeOK
<1>8. /\ m_Socket' \in [Endpoints -> {"null", "fresh", "linked"}]
      /\ ops' \in [Endpoints -> OpRec]
      /\ \A x \in Endpoints : m_Socket'[x] = "null" => ops'[x].now = NoOps
      /\ \A k \in Kinds : Pending(e, k)' = AllOf(q, k)
      /\ \A x \in Endpoints \ {e}, k \in Kinds : Pending(x, k)' = Pending(x, k)
  BY <1>1, <1>6, <1>7, SetEndpoint
<1>9. TypeOK'
  BY <1>1, <1>2, <1>4, <1>8 DEF TypeOK, OpRec, object, flags
<1>10. \A x \in Endpoints, k \in {"read", "connect"} : Pending(x, k)' = Pending(x, k)
  BY <1>6, <1>8 DEF Kinds
<1>11. NoConnectorLost' /\ ClientWillLearn'
  BY <1>2, <1>10, Quiet DEF flags
<1> QED BY <1>9, <1>11 DEF IInv

LEMMA OldReadOkStep ==
  ASSUME IInv, ~crashed, isServer' = isServer, NEW e \in Endpoints, OldReadOk(e)
  PROVE  IInv'
<1> DEFINE p == Done(ops[e], "old", "read")
           q == IF m_Socket[e] = "null" THEN p ELSE Started(p, "read")
<1>1. TypeOK /\ "read" \in Kinds /\ "old" \in Ages
  BY DEF IInv, Kinds, Ages
<1>2. /\ ops[e] \in OpRec /\ ops[e].old["read"] > 0
      /\ UNCHANGED <<m_Socket, m_queueMsgs, up, flags, object, accepting, accepted>>
      /\ ops' = [ops EXCEPT ![e] = q] /\ crashed' = (m_Socket[e] = "null")
  BY <1>1, OpsOf DEF OldReadOk, accept, DoRead
<1>3. /\ p \in OpRec /\ p.now = ops[e].now
      /\ AllOf(p, "read") = Pending(e, "read") - 1
      /\ AllOf(p, "connect") = Pending(e, "connect")
  BY <1>1, <1>2, OpsOf, DoneTakes DEF Kinds
<1> HIDE DEF p
<1>4. /\ q \in OpRec
      /\ m_Socket[e] = "null" => q.now = NoOps
      /\ AllOf(q, "connect") = Pending(e, "connect")
      /\ m_Socket[e] # "null" => AllOf(q, "read") = Pending(e, "read")
  <2>1. CASE m_Socket[e] = "null"
    BY <1>1, <1>3, <2>1, OpsOf
  <2>2. CASE m_Socket[e] # "null"
    <3>1. /\ Started(p, "read") \in OpRec
          /\ AllOf(Started(p, "read"), "read") = AllOf(p, "read") + 1
          /\ AllOf(Started(p, "read"), "connect") = AllOf(p, "connect")
      BY <1>3, StartedAdds DEF Kinds
    <3>2. Pending(e, "read") \in Nat
      BY <1>1, OpsOf
    <3> QED BY <1>3, <2>2, <3>1, <3>2
  <2> QED BY <2>1, <2>2
<1> HIDE DEF q
<1>5. m_Socket' = [m_Socket EXCEPT ![e] = m_Socket[e]] /\ m_Socket[e] \in {"null", "fresh", "linked"}
  BY <1>1, <1>2 DEF TypeOK
<1>6. /\ m_Socket' \in [Endpoints -> {"null", "fresh", "linked"}]
      /\ ops' \in [Endpoints -> OpRec]
      /\ \A x \in Endpoints : m_Socket'[x] = "null" => ops'[x].now = NoOps
      /\ \A k \in Kinds : Pending(e, k)' = AllOf(q, k)
      /\ \A x \in Endpoints \ {e}, k \in Kinds : Pending(x, k)' = Pending(x, k)
  BY <1>1, <1>2, <1>4, <1>5, SetEndpoint
<1>7. TypeOK'
  <2>1. m_sendBuf' \subseteq Endpoints
    BY <1>1 DEF OldReadOk, TypeOK
  <2> QED BY <1>1, <1>2, <1>6, <2>1 DEF TypeOK, OpRec, object, flags
<1>8. CASE m_Socket[e] = "null"
  BY <1>2, <1>7, <1>8 DEF IInv, NoConnectorLost, ClientWillLearn
<1>9. CASE m_Socket[e] # "null"
  <2>1. \A x \in Endpoints, k \in {"read", "connect"} : Pending(x, k)' = Pending(x, k)
    BY <1>4, <1>6, <1>9 DEF Kinds
  <2>2. NoConnectorLost' /\ ClientWillLearn'
    BY <1>2, <2>1, Quiet DEF flags
  <2> QED BY <1>7, <2>2 DEF IInv
<1> QED BY <1>8, <1>9

(* Connectors and clients are different objects.                           *)
LEMMA Apart ==
  ASSUME NEW e \in Clients, NEW c \in Connectors
  PROVE  e \in Endpoints /\ c \in Endpoints /\ e # c
BY EndpointAssumption DEF Endpoints

LEMMA ConnectStep ==
  ASSUME IInv, ~crashed, isServer' = isServer, NEW e \in Clients, Connect(e)
  PROVE  IInv'
<1> DEFINE p == Started(ops[e], "connect")
           s == IF m_Socket[e] = "null" THEN "fresh" ELSE m_Socket[e]
<1>1. TypeOK /\ e \in Endpoints
  BY DEF IInv, Endpoints
<1>2. /\ p \in OpRec
      /\ AllOf(p, "read") = Pending(e, "read")
      /\ AllOf(p, "connect") = Pending(e, "connect") + 1
      /\ Pending(e, "connect") \in Nat
  BY <1>1, OpsOf, StartedAdds DEF Kinds
<1>3. /\ ops' = [ops EXCEPT ![e] = p] /\ m_Socket' = [m_Socket EXCEPT ![e] = s]
      /\ m_bIsConnecting' = m_bIsConnecting \cup {e}
      /\ UNCHANGED <<m_bConnected, m_queueMsgs, up, crashed, object, accepting, accepted>>
  BY <1>1 DEF Connect, accept, TypeOK
<1>4. s \in {"fresh", "linked"}
  BY <1>1, OpsOf
<1> HIDE DEF p, s
<1>5. /\ m_Socket' \in [Endpoints -> {"null", "fresh", "linked"}]
      /\ ops' \in [Endpoints -> OpRec]
      /\ \A x \in Endpoints : m_Socket'[x] = "null" => ops'[x].now = NoOps
      /\ \A k \in Kinds : Pending(e, k)' = AllOf(p, k)
      /\ \A x \in Endpoints \ {e}, k \in Kinds : Pending(x, k)' = Pending(x, k)
  BY <1>1, <1>2, <1>3, <1>4, SetEndpoint
<1>6. TypeOK'
  <2>1. m_sendBuf' \subseteq Endpoints
    BY <1>1 DEF Connect, TypeOK
  <2> QED BY <1>1, <1>3, <1>5, <2>1 DEF TypeOK, OpRec, object
<1>7. QueueGrows
  BY <1>3 DEF QueueGrows
<1>8. ASSUME NEW c \in inUse' PROVE ComesBack(c)'
  <2>1. c \in Connectors /\ ComesBack(c) /\ c # e /\ c \in Endpoints
    BY <1>3, <1>8, Apart DEF IInv, TypeOK, NoConnectorLost, object
  <2>2. Pending(c, "read")' = Pending(c, "read")
    BY <1>5, <2>1 DEF Kinds
  <2> QED BY <1>1, <1>3, <1>7, <2>1, <2>2, ConnectorAside DEF object
<1>9. ASSUME NEW x \in Clients PROVE Learns(x)'
  <2>1. Learns(x) /\ x \in Endpoints
    BY DEF IInv, ClientWillLearn, Learns, Endpoints
  <2>2. Pending(x, "read")' = Pending(x, "read")
    BY <1>2, <1>5, <2>1 DEF Kinds
  <2>3. x \in m_bIsConnecting' => Pending(x, "connect")' > 0
    <3>1. CASE x = e
      BY <1>2, <1>5, <3>1 DEF Kinds
    <3>2. CASE x # e
      BY <1>3, <1>5, <2>1, <3>2 DEF Learns, Kinds
    <3> QED BY <3>1, <3>2
  <2>4. \A i \in Nat : EndFollows(i, x) => EndFollows(i, x)'
    BY <1>3, <2>2 DEF EndFollows
  <2> QED BY <1>3, <2>1, <2>2, <2>3, <2>4 DEF Learns
<1> QED BY <1>6, <1>8, <1>9 DEF IInv, NoConnectorLost, ClientWillLearn, Learns

LEMMA ConnectFailsStep ==
  ASSUME IInv, ~crashed, isServer' = isServer,
         NEW e \in Clients, NEW age \in Ages, ConnectFails(e, age)
  PROVE  IInv'
<1> DEFINE p == Done(ops[e], age, "connect")
           m == Msg("CONNECTFAILED", e)
<1>1. TypeOK /\ e \in Endpoints /\ "connect" \in Kinds
  BY DEF IInv, Endpoints, Kinds
<1>2. /\ ops[e] \in OpRec /\ ops[e][age]["connect"] > 0
      /\ ops' = [ops EXCEPT ![e] = p]
      /\ m_queueMsgs' = Append(m_queueMsgs, m)
      /\ m_bConnected' = m_bConnected \ {e} /\ m_bIsConnecting' = m_bIsConnecting \ {e}
      /\ UNCHANGED <<m_Socket, up, crashed, object, accepting, accepted>>
  BY <1>1, OpsOf DEF ConnectFails, ClearFlags, Post, accept, TypeOK
<1>3. /\ p \in OpRec /\ (age = "old" => p.now = ops[e].now)
      /\ AllOf(p, "read") = Pending(e, "read")
  BY <1>1, <1>2, OpsOf, DoneTakes DEF Kinds
<1>4. m_Socket[e] = "null" => p.now = NoOps
  <2>1. m_Socket[e] = "null" => ops[e].now = NoOps
    BY <1>1, OpsOf
  <2> QED BY <1>2, <1>3, <2>1 DEF NoOps, Ages, Kinds
<1> HIDE DEF p
<1>5. m_Socket' = [m_Socket EXCEPT ![e] = m_Socket[e]] /\ m_Socket[e] \in {"null", "fresh", "linked"}
  BY <1>1, <1>2 DEF TypeOK
<1>6. /\ m_Socket' \in [Endpoints -> {"null", "fresh", "linked"}]
      /\ ops' \in [Endpoints -> OpRec]
      /\ \A x \in Endpoints : m_Socket'[x] = "null" => ops'[x].now = NoOps
      /\ \A k \in Kinds : Pending(e, k)' = AllOf(p, k)
      /\ \A x \in Endpoints \ {e}, k \in Kinds : Pending(x, k)' = Pending(x, k)
  BY <1>1, <1>2, <1>3, <1>4, <1>5, SetEndpoint
<1>7. m \in Messages /\ m.conn = e /\ m.type = "CONNECTFAILED"
  BY DEF Msg, Messages
<1> HIDE DEF m
<1>8. QueueGrows /\ m_queueMsgs' \in Seq(Messages)
  BY <1>1, <1>2, <1>7 DEF QueueGrows, TypeOK
<1>9. TypeOK'
  <2>1. m_sendBuf' \subseteq Endpoints
    BY <1>1 DEF ConnectFails, TypeOK
  <2> QED BY <1>1, <1>2, <1>6, <1>8, <2>1 DEF TypeOK, OpRec, object
<1>10. ASSUME NEW c \in inUse' PROVE ComesBack(c)'
  <2>1. c \in Connectors /\ ComesBack(c) /\ c # e /\ c \in Endpoints
    BY <1>2, <1>10, Apart DEF IInv, TypeOK, NoConnectorLost, object
  <2>2. Pending(c, "read")' = Pending(c, "read")
    BY <1>6, <2>1 DEF Kinds
  <2> QED BY <1>1, <1>2, <1>8, <2>1, <2>2, ConnectorAside DEF object
<1>11. ASSUME NEW x \in Clients PROVE Learns(x)'
  <2>1. Learns(x) /\ x \in Endpoints
    BY DEF IInv, ClientWillLearn, Learns, Endpoints
  <2>2. CASE x = e
    BY <1>1, <1>2, <1>7, <2>1, <2>2, ClientReported DEF Ended
  <2>3. CASE x # e
    <3>1. m_queueMsgs' # Append(m_queueMsgs, Msg("CONNECTED", x))
      <4>1. m_queueMsgs \in Seq(Messages) /\ Msg("CONNECTED", x) \in Messages
        BY DEF IInv, TypeOK, Msg, Messages
      <4>2. Msg("CONNECTED", x) # m
        BY <1>7 DEF Msg
      <4> QED BY <1>2, <1>7, <4>1, <4>2
    <3>2. Pending(x, "read")' = Pending(x, "read") /\ Pending(x, "connect")' = Pending(x, "connect")
      BY <1>6, <2>1, <2>3 DEF Kinds
    <3> QED BY <1>1, <1>2, <1>8, <2>1, <3>1, <3>2, ClientAside
  <2> QED BY <2>2, <2>3
<1> QED BY <1>9, <1>10, <1>11 DEF IInv, NoConnectorLost, ClientWillLearn, Learns

LEMMA ConnectOkStep ==
  ASSUME IInv, ~crashed, isServer' = isServer,
         NEW e \in Clients, NEW age \in Ages, ConnectOk(e, age)
  PROVE  IInv'
<1> DEFINE p == Done(ops[e], age, "connect")
           s == IF age = "now" THEN "linked" ELSE m_Socket[e]
           q == IF s = "null" THEN p ELSE Started(p, "read")
           m == Msg("CONNECTED", e)
<1>1. TypeOK /\ e \in Endpoints /\ "connect" \in Kinds
  BY DEF IInv, Endpoints, Kinds
<1>2. /\ ops[e] \in OpRec /\ ops[e][age]["connect"] > 0
      /\ ops' = [ops EXCEPT ![e] = q] /\ m_Socket' = [m_Socket EXCEPT ![e] = s]
      /\ m_queueMsgs' = Append(m_queueMsgs, m) /\ crashed' = (s = "null")
      /\ m_bConnected' = m_bConnected \cup {e} /\ m_bIsConnecting' = m_bIsConnecting \ {e}
      /\ UNCHANGED <<up, object, accepting, accepted>>
  BY <1>1, OpsOf DEF ConnectOk, Post, DoRead, accept
<1>3. /\ p \in OpRec /\ (age = "old" => p.now = ops[e].now)
      /\ AllOf(p, "read") = Pending(e, "read")
  BY <1>1, <1>2, OpsOf, DoneTakes DEF Kinds
<1>4. /\ s \in {"null", "fresh", "linked"}
      /\ s = "null" => p.now = NoOps
  BY <1>1, <1>3, OpsOf DEF Ages
<1> HIDE DEF p, s
<1>5. /\ q \in OpRec
      /\ s = "null" => q.now = NoOps
      /\ s # "null" => AllOf(q, "read") > 0
  <2>1. CASE s = "null"
    BY <1>3, <1>4, <2>1
  <2>2. CASE s # "null"
    <3>1. /\ Started(p, "read") \in OpRec
          /\ AllOf(Started(p, "read"), "read") = AllOf(p, "read") + 1
      BY <1>3, StartedAdds DEF Kinds
    <3>2. AllOf(p, "read") \in Nat
      BY <1>3, AllOfNat DEF Kinds
    <3> QED BY <2>2, <3>1, <3>2
  <2> QED BY <2>1, <2>2
<1> HIDE DEF q
<1>6. /\ m_Socket' \in [Endpoints -> {"null", "fresh", "linked"}]
      /\ ops' \in [Endpoints -> OpRec]
      /\ \A x \in Endpoints : m_Socket'[x] = "null" => ops'[x].now = NoOps
      /\ \A k \in Kinds : Pending(e, k)' = AllOf(q, k)
      /\ \A x \in Endpoints \ {e}, k \in Kinds : Pending(x, k)' = Pending(x, k)
  BY <1>1, <1>2, <1>4, <1>5, SetEndpoint
<1>7. m \in Messages /\ m.conn = e
  BY DEF Msg, Messages
<1>8. QueueGrows /\ m_queueMsgs' \in Seq(Messages)
  BY <1>1, <1>2, <1>7 DEF QueueGrows, TypeOK
<1>9. TypeOK'
  <2>1. m_sendBuf' \subseteq Endpoints
    BY <1>1 DEF ConnectOk, TypeOK
  <2> QED BY <1>1, <1>2, <1>6, <1>8, <2>1 DEF TypeOK, OpRec, object
<1>10. CASE s = "null"
  BY <1>2, <1>9, <1>10 DEF IInv, NoConnectorLost, ClientWillLearn
<1>11. CASE s # "null"
  <2>1. ASSUME NEW c \in inUse' PROVE ComesBack(c)'
    <3>1. c \in Connectors /\ ComesBack(c) /\ c # e /\ c \in Endpoints
      BY <1>2, <2>1, Apart DEF IInv, TypeOK, NoConnectorLost, object
    <3>2. Pending(c, "read")' = Pending(c, "read")
      BY <1>6, <3>1 DEF Kinds
    <3> QED BY <1>1, <1>2, <1>8, <3>1, <3>2, ConnectorAside DEF object
  <2>2. Pending(e, "read")' > 0
    BY <1>5, <1>6, <1>11 DEF Kinds
  <2>3. ASSUME NEW x \in Clients PROVE Learns(x)'
    <3>1. Learns(x) /\ x \in Endpoints
      BY DEF IInv, ClientWillLearn, Learns, Endpoints
    <3>2. CASE x = e
      <4>1. \A i : EndFollows(i, x)'
        BY <2>2, <3>2 DEF EndFollows
      <4>2. x \notin m_bIsConnecting'
        BY <1>2, <3>2
      <4> QED BY <2>2, <3>2, <4>1, <4>2 DEF Learns
    <3>3. CASE x # e
      <4>1. m_queueMsgs' # Append(m_queueMsgs, Msg("CONNECTED", x))
        <5>1. m_queueMsgs \in Seq(Messages) /\ Msg("CONNECTED", x) \in Messages
          BY DEF IInv, TypeOK, Msg, Messages
        <5>2. Msg("CONNECTED", x).conn = x
          BY DEF Msg
        <5> QED BY <1>2, <1>7, <3>3, <5>1, <5>2
      <4>2. Pending(x, "read")' = Pending(x, "read") /\ Pending(x, "connect")' = Pending(x, "connect")
        BY <1>6, <3>1, <3>3 DEF Kinds
      <4> QED BY <1>1, <1>2, <1>8, <3>1, <3>3, <4>1, <4>2, ClientAside
    <3> QED BY <3>2, <3>3
  <2> QED BY <1>9, <2>1, <2>3 DEF IInv, NoConnectorLost, ClientWillLearn, Learns
<1> QED BY <1>10, <1>11

----------------------------------------------------------------------------
(* Closing an object, with which a session begins or ends, leaves every    *)
(* other endpoint as it is and takes no operation away.                    *)
LEMMA CloseStep ==
  ASSUME TypeOK, NEW e \in Endpoints, Close(e, ops[e])
  PROVE  /\ m_Socket' \in [Endpoints -> {"null", "fresh", "linked"}]
         /\ ops' \in [Endpoints -> OpRec]
         /\ \A x \in Endpoints : m_Socket'[x] = "null" => ops'[x].now = NoOps
         /\ \A x \in Endpoints, k \in Kinds : Pending(x, k)' = Pending(x, k)
<1>1. /\ Closed(ops[e]) \in OpRec /\ Closed(ops[e]).now = NoOps
      /\ \A k \in Kinds : AllOf(Closed(ops[e]), k) = Pending(e, k)
  BY OpsOf, ClosedKeeps
<1>2. /\ m_Socket' = [m_Socket EXCEPT ![e] = "null"]
      /\ ops' = [ops EXCEPT ![e] = Closed(ops[e])]
  BY DEF Close
<1>3. /\ m_Socket' \in [Endpoints -> {"null", "fresh", "linked"}]
      /\ ops' \in [Endpoints -> OpRec]
      /\ \A x \in Endpoints : m_Socket'[x] = "null" => ops'[x].now = NoOps
      /\ \A k \in Kinds : Pending(e, k)' = AllOf(Closed(ops[e]), k)
      /\ \A x \in Endpoints \ {e}, k \in Kinds : Pending(x, k)' = Pending(x, k)
  BY <1>1, <1>2, SetEndpoint
<1> QED BY <1>1, <1>3

(* A step about a connector that keeps the reads and the attempts of the   *)
(* clients and tells nobody that a client has connected keeps what is      *)
(* known of the clients.                                                   *)
LEMMA ClientsAside ==
  ASSUME TypeOK, ~crashed, ClientWillLearn, QueueGrows, NEW c \in Connectors,
         \/ m_queueMsgs' = m_queueMsgs
         \/ m_queueMsgs' = Append(m_queueMsgs, Msg("ACCEPTED", c)),
         UNCHANGED <<up, flags>>,
         \A x \in Endpoints \ {c}, k \in Kinds : Pending(x, k)' = Pending(x, k)
  PROVE  ClientWillLearn'
<1>1. ASSUME NEW x \in Clients PROVE Learns(x)'
  <2>1. Learns(x) /\ x \in Endpoints /\ x # c
    BY Apart DEF ClientWillLearn, Learns
  <2>2. m_queueMsgs' # Append(m_queueMsgs, Msg("CONNECTED", x))
    <3>1. /\ m_queueMsgs \in Seq(Messages)
          /\ Msg("CONNECTED", x) \in Messages /\ Msg("ACCEPTED", c) \in Messages
          /\ Msg("CONNECTED", x) # Msg("ACCEPTED", c)
      BY DEF TypeOK, Msg, Messages
    <3> QED BY <3>1
  <2>3. Pending(x, "read")' = Pending(x, "read") /\ Pending(x, "connect")' = Pending(x, "connect")
    BY <2>1 DEF Kinds
  <2> QED BY <2>1, <2>2, <2>3, ClientAside DEF flags
<1> QED BY <1>1 DEF ClientWillLearn, Learns

LEMMA AcceptApplyStep ==
  ASSUME IInv, ~crashed, isServer' = isServer, NEW c \in Connectors, AcceptApply(c)
  PROVE  IInv'
<1>1. TypeOK /\ c \in Endpoints
  BY DEF IInv, Endpoints
<1>2. /\ accepted = NoConn /\ accepted' = c /\ inUse' = inUse \cup {c}
      /\ managed' = managed \ {c} /\ abandoned' = abandoned \ {c} /\ Close(c, ops[c])
      /\ c \notin inUse
      /\ UNCHANGED <<m_queueMsgs, up, crashed, flags, accepting>>
  BY DEF AcceptApply
<1>3. /\ m_Socket' \in [Endpoints -> {"null", "fresh", "linked"}]
      /\ ops' \in [Endpoints -> OpRec]
      /\ \A x \in Endpoints : m_Socket'[x] = "null" => ops'[x].now = NoOps
      /\ \A x \in Endpoints, k \in Kinds : Pending(x, k)' = Pending(x, k)
  BY <1>1, <1>2, CloseStep
<1>4. TypeOK'
  <2>1. m_sendBuf' \subseteq Endpoints
    BY <1>1 DEF AcceptApply, TypeOK
  <2> QED BY <1>1, <1>2, <1>3, <2>1 DEF TypeOK, OpRec, flags
<1>5. QueueGrows
  BY <1>2 DEF QueueGrows
<1>6. ASSUME NEW x \in inUse' PROVE ComesBack(x)'
  <2>1. CASE x = c
    BY <1>2, <2>1 DEF ComesBack
  <2>2. CASE x # c
    <3>1. x \in Connectors /\ x \in Endpoints /\ ComesBack(x) /\ accepted # x
      BY <1>2, <1>6, <2>2, EndpointAssumption DEF IInv, TypeOK, NoConnectorLost, Endpoints
    <3>2. Pending(x, "read")' = Pending(x, "read")
      BY <1>3, <3>1 DEF Kinds
    <3>3. (x \in managed => x \in managed') /\ (x \in abandoned => x \in abandoned')
      BY <1>2, <2>2
    <3> QED BY <1>1, <1>5, <3>1, <3>2, <3>3, ConnectorAside
  <2> QED BY <2>1, <2>2
<1>7. ClientWillLearn'
  BY <1>1, <1>2, <1>3, <1>5, ClientsAside DEF IInv
<1> QED BY <1>4, <1>6, <1>7 DEF IInv, NoConnectorLost

LEMMA AcceptRefusedStep ==
  ASSUME IInv, ~crashed, isServer' = isServer, AcceptRefused
  PROVE  IInv'
<1>1. /\ UNCHANGED <<m_Socket, ops, m_queueMsgs, up, crashed, flags, object, accepted>>
      /\ accepting' = FALSE
  BY DEF AcceptRefused
<1>2. TypeOK'
  <2>1. m_sendBuf' \subseteq Endpoints
    BY DEF AcceptRefused, IInv, TypeOK
  <2> QED BY <1>1, <2>1 DEF IInv, TypeOK, flags, object
<1>3. NoConnectorLost' /\ ClientWillLearn'
  BY <1>1, Quiet DEF flags, Pending
<1> QED BY <1>2, <1>3 DEF IInv

(* InitSvr, whether it throws or not: c gets a socket and operations p.    *)
LEMMA InitSvrStep ==
  ASSUME IInv, ~crashed, isServer' = isServer, NEW c \in Connectors, InitSvr(c),
         NEW p \in OpRec, ops' = [ops EXCEPT ![c] = p],
         UNCHANGED <<inUse, up, crashed, flags, accepting>>,
         m_sendBuf' \subseteq m_sendBuf,
         \/ m_queueMsgs' = m_queueMsgs
         \/ m_queueMsgs' = Append(m_queueMsgs, Msg("ACCEPTED", c)),
         \/ abandoned' = abandoned /\ AllOf(p, "read") > 0
         \/ abandoned' = abandoned \cup {c}
  PROVE  IInv'
<1>1. TypeOK /\ c \in Endpoints
  BY DEF IInv, Endpoints
<1>2. /\ accepted = c /\ accepted' = NoConn
      /\ m_Socket' = [m_Socket EXCEPT ![c] = "linked"] /\ managed' = managed \cup {c}
  BY DEF InitSvr
<1>3. /\ m_Socket' \in [Endpoints -> {"null", "fresh", "linked"}]
      /\ ops' \in [Endpoints -> OpRec]
      /\ \A x \in Endpoints : m_Socket'[x] = "null" => ops'[x].now = NoOps
      /\ \A k \in Kinds : Pending(c, k)' = AllOf(p, k)
      /\ \A x \in Endpoints \ {c}, k \in Kinds : Pending(x, k)' = Pending(x, k)
  BY <1>1, <1>2, SetEndpoint
<1>4. QueueGrows /\ m_queueMsgs' \in Seq(Messages)
  <2>1. Msg("ACCEPTED", c) \in Messages
    BY DEF Msg, Messages
  <2>2. m_queueMsgs \in Seq(Messages)
    BY <1>1 DEF TypeOK
  <2> QED BY <2>1, <2>2 DEF QueueGrows
<1>5. TypeOK'
  BY <1>1, <1>2, <1>3, <1>4 DEF TypeOK, OpRec, flags
<1>6. ASSUME NEW x \in inUse' PROVE ComesBack(x)'
  <2>1. CASE x = c /\ AllOf(p, "read") > 0
    BY <1>2, <1>3, <2>1 DEF ComesBack, Kinds
  <2>2. CASE x = c /\ abandoned' = abandoned \cup {c}
    BY <2>2 DEF ComesBack
  <2>3. CASE x # c
    <3>1. x \in Connectors /\ x \in Endpoints /\ ComesBack(x) /\ accepted # x
      BY <1>2, <1>6, <2>3 DEF IInv, TypeOK, NoConnectorLost, Endpoints
    <3>2. Pending(x, "read")' = Pending(x, "read")
      BY <1>3, <2>3, <3>1 DEF Kinds
    <3>3. (x \in managed => x \in managed') /\ (x \in abandoned => x \in abandoned')
      BY <1>2
    <3> QED BY <1>1, <1>4, <3>1, <3>2, <3>3, ConnectorAside
  <2> QED BY <2>1, <2>2, <2>3
<1>7. ClientWillLearn'
  BY <1>1, <1>3, <1>4, ClientsAside DEF IInv
<1> QED BY <1>5, <1>6, <1>7 DEF IInv, NoConnectorLost

LEMMA AcceptInitStep ==
  ASSUME IInv, ~crashed, isServer' = isServer, NEW c \in Connectors, AcceptInit(c)
  PROVE  IInv'
<1> DEFINE p == Started(Closed(ops[c]), "read")
<1>1. TypeOK /\ c \in Endpoints
  BY DEF IInv, Endpoints
<1>2. Closed(ops[c]) \in OpRec
  BY <1>1, OpsOf, ClosedKeeps
<1>3. p \in OpRec /\ AllOf(p, "read") = AllOf(Closed(ops[c]), "read") + 1
      /\ AllOf(Closed(ops[c]), "read") \in Nat
  BY <1>2, StartedAdds, AllOfNat DEF Kinds
<1>4. InitSvr(c) /\ ops' = [ops EXCEPT ![c] = p]
      /\ m_queueMsgs' = Append(m_queueMsgs, Msg("ACCEPTED", c))
      /\ UNCHANGED <<inUse, abandoned, up, crashed, flags, accepting>>
      /\ m_sendBuf' \subseteq m_sendBuf
  BY <1>1 DEF AcceptInit, Post, TypeOK
<1> HIDE DEF p
<1>5. AllOf(p, "read") > 0
  BY <1>3
<1> QED BY <1>3, <1>4, <1>5, InitSvrStep

(* A connector that goes back to the pool is none that must come back.     *)
LEMMA ReleaseStep ==
  ASSUME IInv, ~crashed, NEW c \in Connectors, Release(c, ops[c])
  PROVE  /\ m_Socket' \in [Endpoints -> {"null", "fresh", "linked"}]
         /\ ops' \in [Endpoints -> OpRec]
         /\ \A x \in Endpoints : m_Socket'[x] = "null" => ops'[x].now = NoOps
         /\ \A x \in Endpoints, k \in Kinds : Pending(x, k)' = Pending(x, k)
         /\ inUse' = inUse \ {c} /\ managed' \subseteq managed /\ abandoned' \subseteq abandoned
         /\ \A x \in inUse' : /\ x \in managed => x \in managed'
                              /\ x \in abandoned => x \in abandoned'
         /\ m_sendBuf' \subseteq m_sendBuf
<1>1. TypeOK /\ c \in Endpoints
  BY DEF IInv, Endpoints
<1>2. CASE c \in inUse
  <2>1. /\ inUse' = inUse \ {c} /\ managed' = managed \ {c}
        /\ abandoned' = abandoned \ {c} /\ Close(c, ops[c])
        /\ m_sendBuf' = m_sendBuf \ {c}
    BY <1>2 DEF Release
  <2> QED BY <1>1, <2>1, CloseStep
<1>3. CASE c \notin inUse
  <2>1. UNCHANGED <<m_Socket, ops, m_sendBuf, inUse, managed, abandoned>>
    BY <1>3 DEF Release, object
  <2> QED BY <1>1, <1>3, <2>1 DEF TypeOK, OpRec, Pending
<1> QED BY <1>2, <1>3

LEMMA AcceptInitThrowsStep ==
  ASSUME IInv, ~crashed, isServer' = isServer, NEW c \in Connectors, AcceptInitThrows(c)
  PROVE  IInv'
<1>1. TypeOK /\ c \in Endpoints
  BY DEF IInv, Endpoints
<1>2. CASE /\ InitSvr(c) /\ ops' = [ops EXCEPT ![c] = Closed(@)]
           /\ abandoned' = abandoned \cup {c}
           /\ UNCHANGED <<m_sendBuf, inUse, m_queueMsgs, up, crashed, flags, accepting>>
  <2>1. Closed(ops[c]) \in OpRec
    BY <1>1, OpsOf, ClosedKeeps
  <2>2. ops' = [ops EXCEPT ![c] = Closed(ops[c])]
    BY <1>1, <1>2 DEF TypeOK
  <2> QED BY <1>2, <2>1, <2>2, InitSvrStep
<1>3. CASE /\ accepted = c /\ c \in inUse /\ accepted' = NoConn /\ Release(c, ops[c])
           /\ UNCHANGED <<m_queueMsgs, up, crashed, flags, accepting>>
  <2>1. /\ m_Socket' \in [Endpoints -> {"null", "fresh", "linked"}]
        /\ ops' \in [Endpoints -> OpRec]
        /\ \A x \in Endpoints : m_Socket'[x] = "null" => ops'[x].now = NoOps
        /\ \A x \in Endpoints, k \in Kinds : Pending(x, k)' = Pending(x, k)
        /\ inUse' = inUse \ {c} /\ managed' \subseteq managed /\ abandoned' \subseteq abandoned
        /\ \A x \in inUse' : /\ x \in managed => x \in managed'
                             /\ x \in abandoned => x \in abandoned'
        /\ m_sendBuf' \subseteq m_sendBuf
    BY <1>3, ReleaseStep
  <2>2. TypeOK'
    BY <1>1, <1>3, <2>1 DEF TypeOK, OpRec, flags
  <2>3. QueueGrows
    BY <1>3 DEF QueueGrows
  <2>4. ASSUME NEW x \in inUse' PROVE ComesBack(x)'
    <3>1. x \in Connectors /\ x \in Endpoints /\ ComesBack(x) /\ accepted # x
      BY <1>3, <2>1, <2>4 DEF IInv, TypeOK, NoConnectorLost, Endpoints
    <3>2. Pending(x, "read")' = Pending(x, "read")
      BY <2>1, <3>1 DEF Kinds
    <3>3. (x \in managed => x \in managed') /\ (x \in abandoned => x \in abandoned')
      BY <2>1, <2>4
    <3> QED BY <1>1, <2>3, <3>1, <3>2, <3>3, ConnectorAside
  <2>5. ClientWillLearn'
    BY <1>1, <1>3, <2>1, <2>3, ClientsAside DEF IInv
  <2> QED BY <2>2, <2>4, <2>5 DEF IInv, NoConnectorLost
<1> QED BY <1>2, <1>3 DEF AcceptInitThrows

----------------------------------------------------------------------------
(* The host takes the head of the queue: a connector that the message does *)
(* not release still comes back ...                                        *)
LEMMA HandledConnector ==
  ASSUME TypeOK, m_queueMsgs # << >>, m_queueMsgs' = Tail(m_queueMsgs),
         NEW c \in Connectors, ComesBack(c), accepted' = accepted,
         c \in abandoned => c \in abandoned', c \in managed => c \in managed',
         Pending(c, "read")' = Pending(c, "read"),
         Head(m_queueMsgs).conn # c \/ Head(m_queueMsgs).type # "DISCONNECT"
  PROVE  ComesBack(c)'
<1>1. m_queueMsgs \in Seq(Messages)
  BY DEF TypeOK
<1>2. ASSUME Follows(m_queueMsgs, 0, c, {"DISCONNECT"})
      PROVE  Follows(m_queueMsgs', 0, c, {"DISCONNECT"})
  <2>1. Follows(m_queueMsgs, 0 + 1, c, {"DISCONNECT"})
    BY <1>1, <1>2, FollowsHead
  <2> QED BY <1>1, <2>1, FollowsTail
<1> QED BY <1>2 DEF ComesBack

(* ... and a client of which the host learns something now learns the rest *)
(* of it later.                                                            *)
LEMMA HandledClient ==
  ASSUME TypeOK, m_queueMsgs # << >>, m_queueMsgs' = Tail(m_queueMsgs),
         NEW x \in Clients, Learns(x),
         Pending(x, "read")' = Pending(x, "read"),
         Pending(x, "connect")' = Pending(x, "connect"),
         x \in m_bConnected' => x \in m_bConnected,
         x \in m_bIsConnecting' => x \in m_bIsConnecting,
         x \in up' =>
           \/ x \in up /\ (Head(m_queueMsgs).conn # x \/ Head(m_queueMsgs).type \notin Ended)
           \/ Head(m_queueMsgs) = Msg("CONNECTED", x)
  PROVE  Learns(x)'
<1>1. m_queueMsgs \in Seq(Messages)
  BY DEF TypeOK
<1>2. ASSUME NEW i \in Nat, EndFollows(i + 1, x) PROVE EndFollows(i, x)'
  BY <1>1, <1>2, FollowsTail DEF EndFollows
<1>3. x \in up' => EndFollows(0 + 1, x)
  <2>1. CASE x \in up /\ (Head(m_queueMsgs).conn # x \/ Head(m_queueMsgs).type \notin Ended)
    <3>1. Pending(x, "read") > 0 \/ Follows(m_queueMsgs, 0, x, Ended)
      BY <2>1 DEF Learns, EndFollows
    <3>2. Follows(m_queueMsgs, 0, x, Ended) => Follows(m_queueMsgs, 0 + 1, x, Ended)
      BY <1>1, <2>1, FollowsHead
    <3> QED BY <3>1, <3>2 DEF EndFollows
  <2>2. CASE Head(m_queueMsgs) = Msg("CONNECTED", x)
    <3>1. 1 \in 1..Len(m_queueMsgs) /\ m_queueMsgs[1] = Msg("CONNECTED", x)
      BY <1>1, <2>2
    <3> QED BY <3>1 DEF Learns
  <2> QED BY <2>1, <2>2
<1>4. ASSUME NEW i \in 1..Len(m_queueMsgs'), m_queueMsgs'[i] = Msg("CONNECTED", x)
      PROVE  EndFollows(i, x)'
  <2>1. i + 1 \in 1..Len(m_queueMsgs) /\ m_queueMsgs[i + 1] = Msg("CONNECTED", x) /\ i \in Nat
    BY <1>1, <1>4
  <2>2. EndFollows(i + 1, x)
    BY <2>1 DEF Learns
  <2> QED BY <1>2, <2>1, <2>2
<1>5. x \in up' => EndFollows(0, x)'
  BY <1>2, <1>3
<1>6. /\ x \in m_bConnected' => Pending(x, "read")' > 0
      /\ x \in m_bIsConnecting' => Pending(x, "connect")' > 0
  BY DEF Learns
<1> QED BY <1>4, <1>5, <1>6 DEF Learns

(* A message is one of the three kinds, about its kind of endpoint.        *)
LEMMA HeadType ==
  ASSUME TypeOK, m_queueMsgs # << >>
  PROVE  /\ Head(m_queueMsgs) \in Messages /\ Tail(m_queueMsgs) \in Seq(Messages)
         /\ Head(m_queueMsgs).conn \in Endpoints
         /\ Head(m_queueMsgs).type = "ACCEPTED" => Head(m_queueMsgs).conn \in Connectors
         /\ Head(m_queueMsgs).type = "CONNECTED" =>
              Head(m_queueMsgs) = Msg("CONNECTED", Head(m_queueMsgs).conn)
<1>1. Head(m_queueMsgs) \in Messages /\ Tail(m_queueMsgs) \in Seq(Messages)
  BY DEF TypeOK
<1> QED BY <1>1 DEF Messages, Msg, Endpoints

LEMMA HandleOpenedStep ==
  ASSUME IInv, ~crashed, isServer' = isServer, HandleOpened
  PROVE  IInv'
<1> DEFINE h == Head(m_queueMsgs)
<1>1. TypeOK
  BY DEF IInv
<1>2. /\ m_queueMsgs # << >> /\ h.type \in {"ACCEPTED", "CONNECTED"}
      /\ up' = up \cup {h.conn} /\ m_queueMsgs' = Tail(m_queueMsgs)
      /\ UNCHANGED <<m_Socket, ops, crashed, flags, object, accepting, accepted>>
  BY DEF HandleOpened, accept
<1>3. /\ h \in Messages /\ Tail(m_queueMsgs) \in Seq(Messages) /\ h.conn \in Endpoints
      /\ h.type = "ACCEPTED" => h.conn \in Connectors
      /\ h.type = "CONNECTED" => h = Msg("CONNECTED", h.conn)
  BY <1>1, <1>2, HeadType
<1> HIDE DEF h
<1>4. TypeOK'
  <2>1. m_sendBuf' \subseteq Endpoints
    BY <1>1 DEF HandleOpened, TypeOK
  <2> QED BY <1>1, <1>2, <1>3, <2>1 DEF TypeOK, flags, object
<1>5. ASSUME NEW c \in inUse' PROVE ComesBack(c)'
  <2>1. c \in Connectors /\ ComesBack(c)
    BY <1>2, <1>5 DEF IInv, TypeOK, NoConnectorLost, object
  <2>2. Pending(c, "read")' = Pending(c, "read")
    BY <1>2 DEF Pending
  <2> QED BY <1>1, <1>2, <2>1, <2>2, HandledConnector DEF h, object
<1>6. ASSUME NEW x \in Clients PROVE Learns(x)'
  <2>1. Learns(x)
    BY DEF IInv, ClientWillLearn, Learns
  <2>2. Pending(x, "read")' = Pending(x, "read") /\ Pending(x, "connect")' = Pending(x, "connect")
    BY <1>2 DEF Pending
  <2>3. x \in up' => (x \in up /\ h.type \notin Ended) \/ h = Msg("CONNECTED", x)
    <3>1. h.conn = x => h.type = "CONNECTED"
      BY <1>2, <1>3, Apart
    <3> QED BY <1>2, <1>3, <3>1 DEF Ended
  <2> QED BY <1>1, <1>2, <2>1, <2>2, <2>3, HandledClient DEF h, flags
<1> QED BY <1>4, <1>5, <1>6 DEF IInv, NoConnectorLost, ClientWillLearn, Learns

LEMMA HandleConnectFailedStep ==
  ASSUME IInv, ~crashed, isServer' = isServer, HandleConnectFailed
  PROVE  IInv'
<1> DEFINE h == Head(m_queueMsgs)
<1>1. TypeOK
  BY DEF IInv
<1>2. /\ m_queueMsgs # << >> /\ h.type = "CONNECTFAILED"
      /\ up' = up \ {h.conn} /\ m_queueMsgs' = Tail(m_queueMsgs)
      /\ UNCHANGED <<m_Socket, ops, crashed, flags, object, accepting, accepted>>
  BY DEF HandleConnectFailed, accept
<1>3. Tail(m_queueMsgs) \in Seq(Messages)
  BY <1>1, <1>2, HeadType
<1> HIDE DEF h
<1>4. TypeOK'
  <2>1. m_sendBuf' \subseteq Endpoints
    BY <1>1 DEF HandleConnectFailed, TypeOK
  <2> QED BY <1>1, <1>2, <1>3, <2>1 DEF TypeOK, flags, object
<1>5. ASSUME NEW c \in inUse' PROVE ComesBack(c)'
  <2>1. c \in Connectors /\ ComesBack(c)
    BY <1>2, <1>5 DEF IInv, TypeOK, NoConnectorLost, object
  <2>2. Pending(c, "read")' = Pending(c, "read")
    BY <1>2 DEF Pending
  <2> QED BY <1>1, <1>2, <2>1, <2>2, HandledConnector DEF h, object
<1>6. ASSUME NEW x \in Clients PROVE Learns(x)'
  <2>1. Learns(x)
    BY DEF IInv, ClientWillLearn, Learns
  <2>2. Pending(x, "read")' = Pending(x, "read") /\ Pending(x, "connect")' = Pending(x, "connect")
    BY <1>2 DEF Pending
  <2>3. x \in up' => x \in up /\ h.conn # x
    BY <1>2
  <2> QED BY <1>1, <1>2, <2>1, <2>2, <2>3, HandledClient DEF h, flags
<1> QED BY <1>4, <1>5, <1>6 DEF IInv, NoConnectorLost, ClientWillLearn, Learns

LEMMA HandleDisconnectStep ==
  ASSUME IInv, ~crashed, isServer' = isServer, HandleDisconnect
  PROVE  IInv'
<1> DEFINE h == Head(m_queueMsgs)
           e == h.conn
<1>1. TypeOK
  BY DEF IInv
<1>2. /\ m_queueMsgs # << >> /\ h.type = "DISCONNECT"
      /\ up' = up \ {e} /\ m_queueMsgs' = Tail(m_queueMsgs)
      /\ m_bConnected' = m_bConnected \ {e} /\ m_bIsConnecting' = m_bIsConnecting \ {e}
      /\ IF e \in Connectors
           THEN Release(e, ops[e])
           ELSE Close(e, ops[e]) /\ m_sendBuf' = m_sendBuf \ {e} /\ UNCHANGED object
      /\ UNCHANGED <<crashed, accepting, accepted>>
  BY DEF HandleDisconnect, ClearFlags, accept
<1>3. Tail(m_queueMsgs) \in Seq(Messages) /\ e \in Endpoints
  BY <1>1, <1>2, HeadType
<1> HIDE DEF e
<1>4. /\ m_Socket' \in [Endpoints -> {"null", "fresh", "linked"}]
      /\ ops' \in [Endpoints -> OpRec]
      /\ \A x \in Endpoints : m_Socket'[x] = "null" => ops'[x].now = NoOps
      /\ \A x \in Endpoints, k \in Kinds : Pending(x, k)' = Pending(x, k)
      /\ inUse' \subseteq inUse \ {e} /\ managed' \subseteq managed /\ abandoned' \subseteq abandoned
      /\ \A x \in inUse' : /\ x \in managed => x \in managed'
                           /\ x \in abandoned => x \in abandoned'
      /\ m_sendBuf' \subseteq m_sendBuf
  <2>1. CASE e \in Connectors
    <3>1. Release(e, ops[e])
      BY <1>2, <2>1
    <3>2. /\ m_Socket' \in [Endpoints -> {"null", "fresh", "linked"}]
          /\ ops' \in [Endpoints -> OpRec]
          /\ \A x \in Endpoints : m_Socket'[x] = "null" => ops'[x].now = NoOps
          /\ \A x \in Endpoints, k \in Kinds : Pending(x, k)' = Pending(x, k)
          /\ inUse' = inUse \ {e} /\ managed' \subseteq managed /\ abandoned' \subseteq abandoned
          /\ \A x \in inUse' : /\ x \in managed => x \in managed'
                               /\ x \in abandoned => x \in abandoned'
          /\ m_sendBuf' \subseteq m_sendBuf
      BY <2>1, <3>1, ReleaseStep
    <3> QED BY <3>2
  <2>2. CASE e \notin Connectors
    <3>1. /\ Close(e, ops[e]) /\ UNCHANGED <<inUse, managed, abandoned>> /\ e \notin inUse
          /\ m_sendBuf' \subseteq m_sendBuf
      BY <1>1, <1>2, <2>2 DEF object, TypeOK
    <3>2. /\ m_Socket' \in [Endpoints -> {"null", "fresh", "linked"}]
          /\ ops' \in [Endpoints -> OpRec]
          /\ \A x \in Endpoints : m_Socket'[x] = "null" => ops'[x].now = NoOps
          /\ \A x \in Endpoints, k \in Kinds : Pending(x, k)' = Pending(x, k)
      BY <1>1, <1>3, <3>1, CloseStep
    <3> QED BY <3>1, <3>2
  <2> QED BY <2>1, <2>2
<1>5. TypeOK'
  BY <1>1, <1>2, <1>3, <1>4 DEF TypeOK, OpRec
<1>6. ASSUME NEW c \in inUse' PROVE ComesBack(c)'
  <2>1. c \in Connectors /\ c \in Endpoints /\ ComesBack(c) /\ c # e
    BY <1>4, <1>6 DEF IInv, TypeOK, NoConnectorLost, Endpoints
  <2>2. Pending(c, "read")' = Pending(c, "read")
    BY <1>4, <2>1 DEF Kinds
  <2>3. Head(m_queueMsgs).conn # c
    BY <2>1 DEF e
  <2>4. (c \in managed => c \in managed') /\ (c \in abandoned => c \in abandoned')
    BY <1>4, <1>6
  <2> QED BY <1>1, <1>2, <2>1, <2>2, <2>3, <2>4, HandledConnector
<1>7. ASSUME NEW x \in Clients PROVE Learns(x)'
  <2>1. Learns(x) /\ x \in Endpoints
    BY DEF IInv, ClientWillLearn, Learns, Endpoints
  <2>2. Pending(x, "read")' = Pending(x, "read") /\ Pending(x, "connect")' = Pending(x, "connect")
    BY <1>4, <2>1 DEF Kinds
  <2>3. x \in up' => x \in up /\ Head(m_queueMsgs).conn # x
    BY <1>2 DEF e
  <2> QED BY <1>1, <1>2, <2>1, <2>2, <2>3, HandledClient
<1> QED BY <1>5, <1>6, <1>7 DEF IInv, NoConnectorLost, ClientWillLearn, Learns

----------------------------------------------------------------------------
(* No operation is pending and nothing is in use at the beginning.         *)
LEMMA InitIInv == Init => IInv
<1> SUFFICES ASSUME Init PROVE IInv
  OBVIOUS
<1>1. TypeOK
  <2> DEFINE none == [now |-> NoOps, old |-> NoOps]
  <2>1. NoOps \in [Kinds -> Nat]
    BY DEF NoOps
  <2>2. none \in [Ages -> [Kinds -> Nat]] /\ none.now = NoOps
    BY <2>1 DEF Ages
  <2>3. ops = [e \in Endpoints |-> none]
    BY DEF Init
  <2> HIDE DEF none
  <2>4. ops \in [Endpoints -> [Ages -> [Kinds -> Nat]]] /\ \A e \in Endpoints : ops[e].now = NoOps
    BY <2>2, <2>3
  <2>5. m_queueMsgs \in Seq(Messages)
    BY DEF Init
  <2>6. accepting \in BOOLEAN /\ isServer \in BOOLEAN /\ crashed \in BOOLEAN
    BY DEF Init
  <2> QED BY <2>4, <2>5, <2>6 DEF Init, TypeOK
<1>2. NoConnectorLost /\ ClientWillLearn
  BY DEF Init, NoConnectorLost, ClientWillLearn
<1> QED BY <1>1, <1>2 DEF IInv

(* Every step keeps the invariant. *)
LEMMA NextIInv == IInv /\ [Next]_vars => IInv'
<1> SUFFICES ASSUME IInv, [Next]_vars PROVE IInv'
  OBVIOUS
<1>1. CASE UNCHANGED vars
  BY <1>1 DEF vars, IInv, TypeOK, NoConnectorLost, ClientWillLearn, ComesBack,
              EndFollows, Pending
<1>2. CASE Next
  <2>1. ~crashed /\ isServer' = isServer
    BY <1>2 DEF Next, Step
  <2>2. ASSUME NEW e \in Endpoints, OldReadOk(e) PROVE IInv'
    BY <2>1, <2>2, OldReadOkStep
  <2>3. ASSUME NEW e \in Endpoints, SafeClose(e) PROVE IInv'
    BY <2>1, <2>3, SafeCloseStep
  <2>4. ASSUME NEW e \in Endpoints, Send(e) PROVE IInv'
    BY <2>1, <2>4, SendStep
  <2>5. ASSUME NEW e \in Endpoints, SendRefused(e) PROVE IInv'
    BY <2>1, <2>5, SendRefusedStep
  <2>6. ASSUME NEW e \in Endpoints, NEW age \in Ages, WriteOk(e, age) PROVE IInv'
    BY <2>1, <2>6, WriteOkStep
  <2>7. ASSUME NEW e \in Endpoints, NEW age \in Ages, NEW k \in Kinds, Fails(e, age, k)
        PROVE  IInv'
    BY <2>1, <2>7, FailsStep
  <2>8. ASSUME NEW e \in Clients, NEW age \in Ages, ConnectOk(e, age) PROVE IInv'
    BY <2>1, <2>8, ConnectOkStep
  <2>9. ASSUME NEW e \in Clients, NEW age \in Ages, ConnectFails(e, age) PROVE IInv'
    BY <2>1, <2>9, ConnectFailsStep
  <2>10. ASSUME NEW e \in Clients, Connect(e) PROVE IInv'
    BY <2>1, <2>10, ConnectStep
  <2>11. ASSUME NEW c \in Connectors, AcceptApply(c) PROVE IInv'
    BY <2>1, <2>11, AcceptApplyStep
  <2>12. ASSUME NEW c \in Connectors, AcceptInit(c) PROVE IInv'
    BY <2>1, <2>12, AcceptInitStep
  <2>13. ASSUME NEW c \in Connectors, AcceptInitThrows(c) PROVE IInv'
    BY <2>1, <2>13, AcceptInitThrowsStep
  <2>14. CASE AcceptRefused
    BY <2>1, <2>14, AcceptRefusedStep
  <2>15. CASE Handle
    BY <2>1, <2>15, HandleOpenedStep, HandleConnectFailedStep, HandleDisconnectStep DEF Handle
  <2> QED BY <1>2, <2>2, <2>3, <2>4, <2>5, <2>6, <2>7, <2>8, <2>9, <2>10, <2>11, <2>12,
             <2>13, <2>14, <2>15 DEF Next, Step
<1> QED BY <1>1, <1>2

(* The conjunction of the type invariant and the two invariants below is   *)
(* inductive.                                                              *)
THEOREM InvariantHolds == Spec => []IInv
BY InitIInv, NextIInv, PTL DEF Spec

(* The manager, its objects, its queue and what the host believes keep     *)
(* their types, and no operation is pending on a socket that is closed,    *)
(* for any number of connectors and clients.                               *)
THEOREM TypeCorrect == Spec => []TypeOK
<1>1. IInv => TypeOK
  BY DEF IInv
<1> QED BY <1>1, InvariantHolds, PTL

(* Every connector in use comes back to the pool: onAccept has it, its     *)
(* read is pending, or its DISCONNECT is queued, except where InitSvr      *)
(* threw.                                                                  *)
THEOREM ConnectorsComeBack == Spec => []NoConnectorLost
<1>1. IInv => NoConnectorLost
  BY DEF IInv
<1> QED BY <1>1, InvariantHolds, PTL

(* A host that believes a client connected learns the end, and the flag    *)
(* IsConnecting has an attempt that will clear it.                         *)
THEOREM ClientsLearn == Spec => []ClientWillLearn
<1>1. IInv => ClientWillLearn
  BY DEF IInv
<1> QED BY <1>1, InvariantHolds, PTL

=============================================================================
