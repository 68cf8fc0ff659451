---------------------------- MODULE MessageQueue ----------------------------
(***************************************************************************)
(* The message queues (CMessageQueue, Socket/MessageQueue.hpp) that carry  *)
(* everything a network thread learns to the main thread, together with    *)
(* the event loop that drains them.                                        *)
(*                                                                         *)
(* AddNewMessage runs on any thread, the main thread included: a handler   *)
(* that closes a connection adds a message to the queue it is draining.    *)
(* The host's SetEvent of a queue is CServerApplication::SetEvent of the   *)
(* queue's event, and the event's Proc is the queue's MessageConsumer.     *)
(*                                                                         *)
(* MessageConsumer counts nothing: nCount is declared and compared with    *)
(* 128 but never incremented, so the early exit of lines 110-114 and the   *)
(* SetEvent of lines 149-152 are dead code and have no action here.        *)
(***************************************************************************)
EXTENDS ServerApplication

CONSTANTS
  Msgs,        (* what a message says; the queues do not look inside       *)
  NoMsg,       (* pItem when no message is being handled                   *)
  MaxQueue,    (* bound: threads add to a queue only below this length     *)
  MaxEvents    (* bound: threads add messages only below this many events  *)

ASSUME QueueAssumption ==
  /\ NoMsg \notin Msgs
  /\ MaxQueue \in Nat
  /\ MaxEvents \in Nat

VARIABLES
  m_queueMsgs,   (* m_queueMsgs of each queue                              *)
  pItem          (* the message the main thread has popped and is handling *)

vars == <<ayEventHandle, listEventQueue, semQueue, pcMain, curEvent, pcSet,
          argSet, m_queueMsgs, pItem>>

Init ==
  /\ AppInit
  /\ m_queueMsgs = [q \in Queues |-> << >>]
  /\ pItem = NoMsg

(* The queue whose consumer the current event's Proc runs. *)
curQueue == ayEventHandle[curEvent]

----------------------------------------------------------------------------
AddNewMessage_TestAfterPush(t, q, m) ==
  /\ pcSet[t] = "idle"
  /\ IF t = Main THEN pcMain = "handle" ELSE pcMain # "register"
  /\ Registered(q)
  /\ Len(m_queueMsgs[q]) < MaxQueue
  /\ Len(listEventQueue) < MaxEvents
  /\ m_queueMsgs' = [m_queueMsgs EXCEPT ![q] = Append(@, m)]
  /\ IF m_queueMsgs'[q] = << >>
     THEN CallSetEvent(t, EventOf[q])
     ELSE UNCHANGED <<pcSet, argSet>>
  /\ UNCHANGED <<ayEventHandle, listEventQueue, semQueue, pcMain, curEvent,
                 pItem>>

(* AddNewMessage: append under m_lockMsg; when the queue was empty, call   *)
(* SetEvent after the lock is released.  A thread adds nothing while it is *)
(* still inside SetEvent; the main thread adds only from a handler.        *)
AddNewMessage(t, q, m) ==
  /\ pcSet[t] = "idle"
  /\ IF t = Main THEN pcMain = "handle" ELSE pcMain # "register"
  /\ Registered(q)
  /\ Len(m_queueMsgs[q]) < MaxQueue
  /\ Len(listEventQueue) < MaxEvents
  /\ m_queueMsgs' = [m_queueMsgs EXCEPT ![q] = Append(@, m)]
  /\ IF m_queueMsgs[q] = << >>
     THEN CallSetEvent(t, EventOf[q])
     ELSE UNCHANGED <<pcSet, argSet>>
  /\ UNCHANGED <<ayEventHandle, listEventQueue, semQueue, pcMain, curEvent,
                 pItem>>

----------------------------------------------------------------------------
(* MessageConsumer *)

(* The emptiness test made before the loop, without the lock. *)
ConsumerCheck ==
  /\ pcMain = "call"
  /\ pcMain' = IF m_queueMsgs[curQueue] = << >> THEN "check" ELSE "take"
  /\ UNCHANGED <<ayEventHandle, listEventQueue, semQueue, curEvent, pcSet,
                 argSet, m_queueMsgs, pItem>>

(* One turn of the loop, under the lock: pop the front message, or leave   *)
(* the consumer when there is none.                                        *)
ConsumerTake ==
  /\ pcMain = "take"
  /\ IF m_queueMsgs[curQueue] = << >>
     THEN /\ pcMain' = "check"
          /\ UNCHANGED <<m_queueMsgs, pItem>>
     ELSE /\ pcMain' = "handle"
          /\ pItem' = Head(m_queueMsgs[curQueue])
          /\ m_queueMsgs' = [m_queueMsgs EXCEPT ![curQueue] = Tail(@)]
  /\ UNCHANGED <<ayEventHandle, listEventQueue, semQueue, curEvent, pcSet,
                 argSet>>

HandlerReturn_OneMessagePerEvent ==
  /\ pcMain = "handle"
  /\ pcSet[Main] = "idle"
  /\ pItem' = NoMsg
  /\ pcMain' = "check"
  /\ UNCHANGED <<ayEventHandle, listEventQueue, semQueue, curEvent, pcSet,
                 argSet, m_queueMsgs>>

(* The handler (ProcessMessage, ProcessEvent, ProcessDisconnectEvent)      *)
(* returns, the item goes back to its pool and the loop turns.             *)
HandlerReturn ==
  /\ pcMain = "handle"
  /\ pcSet[Main] = "idle"
  /\ pItem' = NoMsg
  /\ pcMain' = "take"
  /\ UNCHANGED <<ayEventHandle, listEventQueue, semQueue, curEvent, pcSet,
                 argSet, m_queueMsgs>>

----------------------------------------------------------------------------
ApplicationStep ==
  /\ \/ \E q \in Queues : RegisterEvent(q)
     \/ EnterRun
     \/ RunStep
     \/ \E t \in Threads : SetEventStep(t)
  /\ UNCHANGED <<m_queueMsgs, pItem>>

ConsumerStep == ConsumerCheck \/ ConsumerTake \/ HandlerReturn

Next ==
  \/ ApplicationStep
  \/ ConsumerStep
  \/ \E t \in Threads, q \in Queues, m \in Msgs : AddNewMessage(t, q, m)

Spec == Init /\ [][Next]_vars

(* The scheduler runs every thread: the main thread's loop, and each       *)
(* SetEvent call once it has begun.  Nothing obliges a host to register,   *)
(* to enter Run() or to send a message.                                    *)
Fairness ==
  /\ WF_vars(RunStep /\ UNCHANGED <<m_queueMsgs, pItem>>)
  /\ WF_vars(ConsumerStep)
  /\ \A t \in Threads :
       WF_vars(SetEventStep(t) /\ UNCHANGED <<m_queueMsgs, pItem>>)

FairSpec == Spec /\ Fairness

----------------------------------------------------------------------------
TypeOK ==
  /\ ayEventHandle \in [Slots -> Queues \cup {NoQueue}]
  /\ listEventQueue \in Seq(Slots)
  /\ semQueue \in 0..SEM_VALUE_MAX
  /\ pcMain \in {"register", "wait", "check", "pop", "call", "take", "handle"}
  /\ curEvent \in Nat
  /\ pcSet \in [Threads -> {"idle", "push", "post"}]
  /\ argSet \in [Threads -> Nat]
  /\ m_queueMsgs \in [Queues -> Seq(Msgs)]
  /\ pItem \in Msgs \cup {NoMsg}

(* Some thread has begun SetEvent for q and not yet queued the event. *)
Signalling(q) ==
  \E t \in Threads : pcSet[t] = "push" /\ argSet[t] = EventOf[q]

Listed(q) == \E i \in 1..Len(listEventQueue) : listEventQueue[i] = Slot(q)

Draining(q) == pcMain \in {"call", "take", "handle"} /\ curEvent = Slot(q)

Posting == \E t \in Threads : pcSet[t] = "post"

(* No message is stranded: the main thread never sleeps on the semaphore,  *)
(* with no wake-up on its way, while some queue holds a message.  The      *)
(* wake-up crosses two queues, each signalled only when it was empty, with *)
(* two locks released before the signal (MessageQueue.hpp 80-92 and        *)
(* Application.cpp 211-223), and an emptiness test outside either lock.    *)
NoLostWakeup ==
  \A q \in Queues :
    m_queueMsgs[q] # << >> /\ pcMain = "wait" =>
      \/ semQueue > 0
      \/ \E t \in Threads : pcSet[t] # "idle"

(* The same, queue by queue: a message's event is being signalled, listed, *)
(* or being drained at this moment.                                        *)
EventCovered ==
  \A q \in Queues :
    m_queueMsgs[q] # << >> => Signalling(q) \/ Listed(q) \/ Draining(q)

(* A queued event never waits for a main thread that nobody will wake.     *)
TokenCovered ==
  listEventQueue # << >> => semQueue > 0 \/ Posting \/ pcMain # "wait"

(* Run() pops the event list after an unlocked size test: with one thread  *)
(* in Run the list cannot have become empty in between (popping an empty   *)
(* std::list is undefined).                                                *)
PopFindsEvent == pcMain = "pop" => listEventQueue # << >>

(* Before Run() nothing is queued and nobody is inside SetEvent. *)
QuietBeforeRun ==
  pcMain = "register" =>
    /\ listEventQueue = << >>
    /\ \A t \in Threads : pcSet[t] = "idle"
    /\ \A q \in Queues : m_queueMsgs[q] = << >>

(* Only registered queues hold messages, are signalled, listed or          *)
(* dispatched, so Run() never calls a NULL Proc and a dispatched event     *)
(* runs the consumer of the very queue that signalled it.                  *)
OnlyRegistered ==
  /\ \A q \in Queues : m_queueMsgs[q] # << >> => Registered(q)
  /\ \A t \in Threads : pcSet[t] = "push" =>
       \E q \in Queues : Registered(q) /\ argSet[t] = EventOf[q]
  /\ \A i \in 1..Len(listEventQueue) :
       \E q \in Queues : Registered(q) /\ listEventQueue[i] = Slot(q)
  /\ pcMain \in {"call", "take", "handle"} =>
       \E q \in Queues : Registered(q) /\ curEvent = Slot(q)

(* A message is held exactly while its handler runs. *)
ItemWhileHandling == pItem # NoMsg <=> pcMain = "handle"

(* The inductive invariant behind NoLostWakeup and the refinement. *)
IInv ==
  /\ TypeOK
  /\ ItemWhileHandling
  /\ QuietBeforeRun
  /\ OnlyRegistered
  /\ PopFindsEvent
  /\ EventCovered
  /\ TokenCovered

----------------------------------------------------------------------------
(* The two queues and the loop together implement the executor that knows  *)
(* nothing of them.                                                        *)
Exec == INSTANCE Executor WITH pending <- m_queueMsgs, running <- pItem

ImplementsExecutor == Exec!ExecSpec

(* What the comment of MessageQueue.hpp:111 claims of the bound of 128     *)
(* messages per turn: one busy queue does not block the other queues'      *)
(* events.                                                                 *)
NoQueueBlocked ==
  \A q \in Queues : Listed(q) ~> Draining(q)
=============================================================================
