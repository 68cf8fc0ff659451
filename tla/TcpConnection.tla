--------------------------- MODULE TcpConnection ---------------------------
(***************************************************************************)
(* ITCPBASE (Socket/TCPSocket/TCPSocket.cpp) with its CSendBuffer          *)
(* (Socket/SendBuffer.cpp): one established connection, until it is closed. *)
(*                                                                         *)
(* Any thread may call Send and SafeClose (the main thread's handlers do); *)
(* the asio thread runs the completions of the pending read and write.     *)
(* m_sendLock covers AddBuffer and OnSend and nothing else, so the tests   *)
(* of m_Socket, DoSend, Close and the report to the manager interleave.    *)
(*                                                                         *)
(* The bytes given to Send are numbered 1, 2, 3, ...: where a byte is and  *)
(* in what order bytes leave is all that the properties look at.  The heap *)
(* may fail: a message's end is refused when a block cannot be allocated,  *)
(* and a block that gets no queue node is lost without a word.             *)
(***************************************************************************)
EXTENDS Naturals, Sequences

CONSTANTS
  Threads,      (* every thread                                          *)
  Io,           (* the asio thread                                       *)
  BLOCK,        (* SNDBUFFER_BLOCK_SIZE                                  *)
  m_nQueueLenMax,
  Lengths,      (* lengths of the messages given to Send                 *)
  MaxCalls      (* bound: calls of Send that find the socket open        *)

ASSUME ConnectionAssumption ==
  /\ Io \in Threads
  /\ BLOCK \in Nat \ {0} /\ m_nQueueLenMax \in Nat /\ MaxCalls \in Nat
  /\ Lengths \subseteq Nat \ {0}

VARIABLES
  m_Socket,          (* "open", "closed" (closed, pointer still set), "null"  *)
  m_pBlockSending,   (* bytes of the block being sent; << >> is NULL          *)
  m_queueSnd,        (* the blocks behind it                                  *)
  m_bIsSending,
  pc,                (* where each thread is                                  *)
  bSend,             (* Send's local: this call must start the write          *)
  writing,           (* async_write operations in flight, each its bytes      *)
  reading,           (* the async_read_some in flight: "live", "doomed" when  *)
                     (* it was started on a closed socket, "no" when none is  *)
  wire,              (* bytes the operating system took, in order             *)
  given,             (* bytes given to Send so far                            *)
  calls,             (* calls of Send so far                                  *)
  refused,           (* bytes that an AddBuffer did not take, returning FALSE *)
  lost,              (* bytes of the blocks that got no queue node            *)
  reports,           (* DISCONNECT messages queued, as they happened          *)
  crashed            (* a NULL m_Socket was dereferenced, or an exception     *)
                     (* ended the asio thread: the model stops here           *)

vars == <<m_Socket, m_pBlockSending, m_queueSnd, m_bIsSending, pc, bSend,
          writing, reading, wire, given, calls, refused, lost, reports, crashed>>

buffer == <<m_pBlockSending, m_queueSnd>>
ghosts == <<wire, given, calls, refused, lost>>

Locations == {"idle", "append", "test", "start", "close", "closed", "report",
              "sent", "reread"}

(* The buffer is empty: InitSvr clears a connector's, and the hosts clear  *)
(* a client's in OnConnected, OnConnectFailed and OnClosed.                *)
Init ==
  /\ m_Socket = "open"
  /\ m_pBlockSending = << >> /\ m_queueSnd = << >>
  /\ m_bIsSending = FALSE
  /\ pc = [t \in Threads |-> "idle"]
  /\ bSend = [t \in Threads |-> FALSE]
  /\ writing = << >> /\ reading = "live"
  /\ wire = << >> /\ given = 0 /\ calls = 0 /\ refused = {} /\ lost = {}
  /\ reports = 0 /\ crashed = FALSE

Goto(t, l) == pc' = [pc EXCEPT ![t] = l]

----------------------------------------------------------------------------
(* CSendBuffer.                                                            *)

(* The bytes first+1 .. first+len cut into blocks (SetData in a loop). *)
Blocks(first, len) ==
  [b \in 1..((len + BLOCK - 1) \div BLOCK) |->
     [i \in 1..(IF b * BLOCK <= len THEN BLOCK ELSE len - (b - 1) * BLOCK) |->
        first + (b - 1) * BLOCK + i]]

InBlock(b) == {b[i] : i \in 1..Len(b)}
InRow(L) == UNION {InBlock(L[k]) : k \in 1..Len(L)}

IsQueueFulled_Equal == m_nQueueLenMax > 0 /\ Len(m_queueSnd) = m_nQueueLenMax

IsQueueFulled == m_nQueueLenMax > 0 /\ Len(m_queueSnd) > m_nQueueLenMax

(* The ways to choose among 1..n, in ascending order. *)
Picks(n) ==
  UNION {{f \in [1..m -> 1..n] : \A j, k \in 1..m : j < k => f[j] < f[k]} : m \in 0..n}

(* What joins the buffer of the blocks that AddBuffer could allocate: any  *)
(* block may get no queue node, except the first when it becomes the front *)
(* block, which needs none.                                                *)
Joining(blocks) ==
  {p \in {[k \in DOMAIN f |-> blocks[f[k]]] : f \in Picks(Len(blocks))} :
     m_pBlockSending = << >> /\ blocks # << >> => p # << >> /\ p[1] = blocks[1]}

AddBuffer_QueuesFirstToo(blocks) ==
  /\ m_pBlockSending' =
       IF m_pBlockSending = << >> /\ blocks # << >> THEN blocks[1] ELSE m_pBlockSending
  /\ m_queueSnd' = m_queueSnd \o blocks

(* AddBuffer: the first block becomes the front block if there is none. *)
AddBuffer(blocks) ==
  IF m_pBlockSending = << >> /\ blocks # << >>
  THEN /\ m_pBlockSending' = Head(blocks)
       /\ m_queueSnd' = m_queueSnd \o Tail(blocks)
  ELSE /\ m_queueSnd' = m_queueSnd \o blocks
       /\ UNCHANGED m_pBlockSending

(* OnSend when the whole block has left: the next one, if there is one.    *)
OnSend ==
  IF m_queueSnd = << >>
  THEN m_pBlockSending' = << >> /\ UNCHANGED m_queueSnd
  ELSE m_pBlockSending' = Head(m_queueSnd) /\ m_queueSnd' = Tail(m_queueSnd)

----------------------------------------------------------------------------
(* Send, up to the lock: nothing is done on a socket that is not open.     *)
SendTest(t) ==
  /\ t # Io
  /\ pc[t] = "idle"
  /\ calls < MaxCalls
  /\ calls' = calls + 1
  /\ m_Socket = "open"
  /\ Goto(t, "append")
  /\ UNCHANGED <<m_Socket, buffer, m_bIsSending, bSend, writing, reading, wire,
                 given, refused, lost, reports, crashed>>

SendAppend_TestsAfterAdding(t) ==
  /\ pc[t] = "append"
  /\ \E len \in Lengths :
       LET blocks == Blocks(given, len) IN
       /\ given' = given + len
       /\ AddBuffer(blocks)
       /\ bSend' = [bSend EXCEPT ![t] = m_pBlockSending' = << >>]
       /\ Goto(t, IF m_pBlockSending' = << >> THEN "test" ELSE "idle")
       /\ UNCHANGED <<refused, lost>>
  /\ UNCHANGED <<m_Socket, m_bIsSending, writing, reading, wire, calls, reports,
                 crashed>>

SendAppend_AlwaysSends(t) ==
  /\ pc[t] = "append"
  /\ \E len \in Lengths :
       LET blocks == Blocks(given, len) IN
       /\ given' = given + len
       /\ bSend' = [bSend EXCEPT ![t] = TRUE]
       /\ AddBuffer(blocks) /\ Goto(t, "test") /\ UNCHANGED <<refused, lost>>
  /\ UNCHANGED <<m_Socket, m_bIsSending, writing, reading, wire, calls, reports,
                 crashed>>

(* Send's critical section.  bSend is taken before AddBuffer.  A full      *)
(* queue refuses the whole message, a failed allocation its end; either    *)
(* way OnError(0) follows.  A block that gets no node is not noticed.      *)
SendAppend(t) ==
  /\ pc[t] = "append"
  /\ \E len \in Lengths :
       LET blocks == Blocks(given, len)
           sending == m_pBlockSending # << >>
       IN
       /\ given' = given + len
       /\ bSend' = [bSend EXCEPT ![t] = ~sending]
       /\ \E got \in IF sending /\ IsQueueFulled THEN {0} ELSE 0..Len(blocks) :
            LET allocated == SubSeq(blocks, 1, got) IN
            /\ \E p \in Joining(allocated) :
                 AddBuffer(p) /\ lost' = lost \cup (InRow(allocated) \ InRow(p))
            /\ refused' = refused \cup ((given + 1)..(given + len) \ InRow(allocated))
            /\ Goto(t, IF got < Len(blocks) THEN "close"
                       ELSE IF sending THEN "idle" ELSE "test")
  /\ UNCHANGED <<m_Socket, m_bIsSending, writing, reading, wire, calls, reports,
                 crashed>>

(* DoSend: the test of m_Socket ... *)
DoSendTest(t) ==
  /\ pc[t] = "test"
  /\ bSend' = [bSend EXCEPT ![t] = FALSE]
  /\ Goto(t, IF m_Socket = "open" THEN "start" ELSE "idle")
  /\ UNCHANGED <<m_Socket, buffer, m_bIsSending, writing, reading, ghosts, reports,
                 crashed>>

(* ... and the use of it, when another thread may have reset it.           *)
DoSendStart(t) ==
  /\ pc[t] = "start"
  /\ m_bIsSending' = TRUE
  /\ IF m_Socket = "null"
     THEN crashed' = TRUE /\ UNCHANGED writing
     ELSE writing' = Append(writing, m_pBlockSending) /\ UNCHANGED crashed
  /\ Goto(t, "idle")
  /\ UNCHANGED <<m_Socket, buffer, bSend, reading, ghosts, reports>>

----------------------------------------------------------------------------
(* SafeClose, by any thread but the asio thread. *)
SafeClose(t) ==
  /\ t # Io
  /\ pc[t] = "idle"
  /\ m_Socket # "null"
  /\ m_Socket' = "closed"
  /\ Goto(t, "closed")
  /\ UNCHANGED <<buffer, m_bIsSending, bSend, writing, reading, ghosts, reports,
                 crashed>>

(* OnError's Close: the socket is closed, then the pointer reset. *)
Close(t) ==
  /\ pc[t] = "close"
  /\ m_Socket' = IF m_Socket = "open" THEN "closed" ELSE m_Socket
  /\ Goto(t, "report")
  /\ UNCHANGED <<buffer, m_bIsSending, bSend, writing, reading, ghosts, reports,
                 crashed>>

(* OnError's report: the pointer is reset, the manager gets a DISCONNECT.  *)
(* Send goes on to DoSend if it was to start the write.                    *)
Report(t) ==
  /\ pc[t] = "report"
  /\ m_Socket' = "null"
  /\ reports' = reports + 1
  /\ Goto(t, IF bSend[t] THEN "test" ELSE "idle")
  /\ UNCHANGED <<buffer, m_bIsSending, bSend, writing, reading, ghosts, crashed>>

(* The end of SafeClose. *)
Reset(t) ==
  /\ pc[t] = "closed"
  /\ m_Socket' = "null"
  /\ Goto(t, "idle")
  /\ UNCHANGED <<buffer, m_bIsSending, bSend, writing, reading, ghosts, reports,
                 crashed>>

----------------------------------------------------------------------------
WriteDone_SendsBlockAgain ==
  /\ pc[Io] = "idle"
  /\ \E w \in 1..Len(writing) :
       /\ wire' = wire \o writing[w]
       /\ writing' = SubSeq(writing, 1, w - 1) \o SubSeq(writing, w + 1, Len(writing))
  /\ IF m_queueSnd = << >>
     THEN OnSend /\ Goto(Io, "sent")
     ELSE UNCHANGED buffer /\ Goto(Io, "test")
  /\ UNCHANGED <<m_Socket, m_bIsSending, bSend, reading, given, calls, refused, lost,
                 reports, crashed>>

WriteDone_ForgetsRest ==
  /\ pc[Io] = "idle"
  /\ \E w \in 1..Len(writing) :
       /\ wire' = wire \o writing[w]
       /\ writing' = SubSeq(writing, 1, w - 1) \o SubSeq(writing, w + 1, Len(writing))
  /\ OnSend
  /\ Goto(Io, "sent")
  /\ UNCHANGED <<m_Socket, m_bIsSending, bSend, reading, given, calls, refused, lost,
                 reports, crashed>>

(* A write completes: the whole block was taken. *)
WriteDone ==
  /\ pc[Io] = "idle"
  /\ \E w \in 1..Len(writing) :
       /\ wire' = wire \o writing[w]
       /\ writing' = SubSeq(writing, 1, w - 1) \o SubSeq(writing, w + 1, Len(writing))
  /\ OnSend
  /\ Goto(Io, IF m_queueSnd = << >> THEN "sent" ELSE "test")
  /\ UNCHANGED <<m_Socket, m_bIsSending, bSend, reading, given, calls, refused, lost,
                 reports, crashed>>

(* m_bIsSending is cleared after the lock is released. *)
ClearSending ==
  /\ pc[Io] = "sent"
  /\ m_bIsSending' = FALSE
  /\ Goto(Io, "idle")
  /\ UNCHANGED <<m_Socket, buffer, bSend, writing, reading, ghosts, reports, crashed>>

(* A write fails: the peer is gone, or the socket was closed here. *)
WriteFailed ==
  /\ pc[Io] = "idle"
  /\ writing # << >>
  /\ writing' = << >>
  /\ Goto(Io, "close")
  /\ UNCHANGED <<m_Socket, buffer, m_bIsSending, bSend, reading, ghosts, reports,
                 crashed>>

(* Data arrives and OnRecved handles it; then the read is started again.   *)
(* The completion may run after another thread has closed the socket.      *)
ReadDone ==
  /\ pc[Io] = "idle"
  /\ reading = "live"
  /\ reading' = "no"
  /\ Goto(Io, "reread")
  /\ UNCHANGED <<m_Socket, buffer, m_bIsSending, bSend, writing, ghosts, reports,
                 crashed>>

DoRead ==
  /\ pc[Io] = "reread"
  /\ reading' = CASE m_Socket = "open" -> "live"
                  [] m_Socket = "closed" -> "doomed"
                  [] m_Socket = "null" -> "no"
  /\ crashed' = (m_Socket = "null")
  /\ Goto(Io, "idle")
  /\ UNCHANGED <<m_Socket, buffer, m_bIsSending, bSend, writing, ghosts, reports>>

ReadFailed_Silent ==
  /\ pc[Io] = "idle"
  /\ reading # "no"
  /\ reading' = "no"
  /\ m_Socket' = "null"
  /\ UNCHANGED <<pc, buffer, m_bIsSending, bSend, writing, ghosts, reports, crashed>>

(* The read fails: the peer closed or reset, or the socket was closed here. *)
ReadFailed ==
  /\ pc[Io] = "idle"
  /\ reading # "no"
  /\ reading' = "no"
  /\ Goto(Io, "close")
  /\ UNCHANGED <<m_Socket, buffer, m_bIsSending, bSend, writing, ghosts, reports,
                 crashed>>

(* An exception leaves the handler of a completion, as one of a pool does  *)
(* whose list gets no node: EventLoop ends, and with it the asio thread.   *)
IoThrows ==
  /\ pc[Io] = "idle"
  /\ writing # << >> \/ reading # "no"
  /\ crashed' = TRUE
  /\ UNCHANGED <<m_Socket, pc, buffer, m_bIsSending, bSend, writing, reading, ghosts,
                 reports>>

ThreadStep(t) ==
  \/ SendAppend(t) \/ DoSendTest(t) \/ DoSendStart(t)
  \/ Close(t) \/ Report(t) \/ Reset(t)

IoStep == ClearSending \/ DoRead

Next ==
  /\ ~crashed
  /\ \/ \E t \in Threads : SendTest(t) \/ SafeClose(t) \/ ThreadStep(t)
     \/ IoStep \/ WriteDone \/ WriteFailed \/ ReadDone \/ ReadFailed \/ IoThrows

Spec == Init /\ [][Next]_vars

(* A thread inside a call of the library goes on.  The operating system    *)
(* completes a write, and a read on a socket that has been closed; asio    *)
(* runs completions in the order they arrive, so that arriving data cannot *)
(* hold a write's completion back for ever (strong fairness).              *)
FairSpec ==
  /\ Spec
  /\ \A t \in Threads : WF_vars(~crashed /\ ThreadStep(t))
  /\ WF_vars(~crashed /\ IoStep)
  /\ SF_vars(~crashed /\ (WriteDone \/ WriteFailed))
  /\ WF_vars(~crashed /\ m_Socket # "open" /\ ReadFailed)

----------------------------------------------------------------------------
Bytes == Nat \ {0}
Block == {b \in Seq(Bytes) : Len(b) \in 1..BLOCK}

(* No write of an empty or overlong block is ever started. *)
TypeOK ==
  /\ m_Socket \in {"open", "closed", "null"}
  /\ m_pBlockSending \in Block \cup {<< >>}
  /\ m_queueSnd \in Seq(Block) /\ writing \in Seq(Block)
  /\ m_bIsSending \in BOOLEAN /\ reading \in {"live", "doomed", "no"}
  /\ refused \in SUBSET Bytes /\ lost \in SUBSET Bytes /\ crashed \in BOOLEAN
  /\ pc \in [Threads -> Locations] /\ bSend \in [Threads -> BOOLEAN]
  /\ wire \in Seq(Bytes) /\ given \in Nat /\ calls \in Nat /\ reports \in Nat

(* At most one write is in flight: two composed async_writes on one socket *)
(* would mix their bytes.  The block it reads from stays the front block   *)
(* until it completes.                                                     *)
OneWriteInFlight ==
  /\ Len(writing) <= 1
  /\ writing # << >> => writing[1] = m_pBlockSending

(* Threads that are past the decision to write. *)
Starting == {t \in Threads : pc[t] \in {"test", "start"}}

(* The right to write is held by one party at most, and while somebody     *)
(* holds it the front block is set, so nobody else will take it.  A thread *)
(* whose allocation failed may still test the socket, which it has closed. *)
WriterRight ==
  /\ m_Socket = "open" =>
       /\ \A t, u \in Starting : t = u
       /\ Starting # {} => writing = << >> /\ m_pBlockSending # << >>
  /\ \A t \in Threads : pc[t] = "start" =>
       /\ writing = << >> /\ m_pBlockSending # << >>
       /\ \A u \in Threads : pc[u] = "start" => t = u

(* On an open connection data never waits with nobody to send it.          *)
NoStall ==
  m_Socket = "open" /\ m_pBlockSending # << >> =>
    writing # << >> \/ \E t \in Threads : pc[t] \in {"test", "start", "close"}

(* The queue is only used behind a front block, which keeps bytes in order. *)
FrontFirst == m_pBlockSending = << >> => m_queueSnd = << >>

(* Together these are inductive. *)
IInv == TypeOK /\ OneWriteInFlight /\ WriterRight /\ NoStall /\ FrontFirst

(* The queue never grows beyond the limit by more than one message.        *)
QueueBounded ==
  m_nQueueLenMax > 0 =>
    \/ Len(m_queueSnd) <= m_nQueueLenMax
    \/ \E len \in Lengths : Len(m_queueSnd) <= m_nQueueLenMax + Len(Blocks(0, len))

(* What the abstract stream's channel stands for: the bytes of the blocks  *)
(* in the buffer, the one being sent included.                             *)
Pending == IF m_pBlockSending = << >> THEN m_queueSnd ELSE <<m_pBlockSending>> \o m_queueSnd
Unsent == InRow(Pending)
IsOpen == m_Socket = "open"

(* Bytes leave in the order they were given, none twice and none before an *)
(* earlier one that is still to leave; and of the bytes given none is      *)
(* missing but those that a Send refused and those of a block that the     *)
(* heap gave no node to, and none of these leaves after all.               *)
WireFaithful ==
  /\ \A i, j \in 1..Len(wire) : i < j => wire[i] < wire[j]
  /\ \A i \in 1..Len(wire), c \in Unsent : wire[i] < c
  /\ InBlock(wire) \cup Unsent \cup refused \cup lost = 1..given
  /\ (InBlock(wire) \cup Unsent) \cap (refused \cup lost) = {}

Stream == INSTANCE ByteStream WITH channel <- Unsent, up <- IsOpen

(* Threads, blocks, lock and completions together are one stream of bytes: *)
(* what is given joins its end at once, but for what is refused or lost,   *)
(* what leaves is taken from its beginning, and nothing else touches it;   *)
(* nothing ends twice, and no end is reported that has not happened.       *)
ImplementsStream == Stream!StreamSpec

(* What is in the buffer leaves, or the connection ends. *)
BufferDrains ==
  m_pBlockSending # << >> ~>
    (m_pBlockSending = << >> \/ m_Socket # "open" \/ crashed)

(* However a connection ends, the manager is told. *)
EndIsReported == m_Socket # "open" ~> (reports > 0 \/ crashed)
=============================================================================
