------------------------- MODULE MessageQueueProofs -------------------------
(***************************************************************************)
(* Proofs, for any number of threads and queues and any bounds, that no    *)
(* message is ever stranded in a queue with the main thread asleep.        *)
(***************************************************************************)
EXTENDS MessageQueue, TLAPS

USE ApplicationAssumption, QueueAssumption

----------------------------------------------------------------------------
(* Facts about the sequences the queues are made of. *)

(* Appending keeps every element in place and puts the new one last. *)
LEMMA AppendElements ==
  ASSUME NEW S, NEW s \in Seq(S), NEW e \in S
  PROVE  /\ Append(s, e) \in Seq(S)
         /\ Append(s, e) # << >>
         /\ Len(Append(s, e)) = Len(s) + 1
         /\ \A i \in 1..Len(s) : Append(s, e)[i] = s[i]
         /\ Append(s, e)[Len(s) + 1] = e
  OBVIOUS

(* Taking the tail moves every element but the first one place forward. *)
LEMMA TailElements ==
  ASSUME NEW S, NEW s \in Seq(S), s # << >>
  PROVE  /\ Tail(s) \in Seq(S)
         /\ Head(s) \in S
         /\ Head(s) = s[1]
         /\ Len(Tail(s)) = Len(s) - 1
         /\ Len(s) \in Nat \ {0}
         /\ \A i \in 1..(Len(s) - 1) : Tail(s)[i] = s[i + 1]
  OBVIOUS
----------------------------------------------------------------------------
(* An event in range has a slot of the table. *)
LEMMA SlotInTable ==
  ASSUME NEW e \in Nat, InRange(e)
  PROVE  e + EVENT_MIN \in Slots
  BY DEF InRange, Slots

(* While a consumer runs, the queue it drains is the registered one whose  *)
(* event was dispatched.                                                   *)
LEMMA CurrentQueue ==
  ASSUME TypeOK, OnlyRegistered, pcMain \in {"call", "take", "handle"}
  PROVE  /\ curQueue \in Queues
         /\ Registered(curQueue)
         /\ curEvent = Slot(curQueue)
         /\ \A q \in Queues : Registered(q) /\ curEvent = Slot(q) => q = curQueue
  BY DEF OnlyRegistered, Registered, curQueue

(* What the Next relation is made of, one named action at a time. *)
LEMMA NextActions ==
  ASSUME Next
  PROVE  \/ \E q \in Queues : RegisterEvent(q) /\ UNCHANGED <<m_queueMsgs, pItem>>
         \/ EnterRun /\ UNCHANGED <<m_queueMsgs, pItem>>
         \/ RunWait /\ UNCHANGED <<m_queueMsgs, pItem>>
         \/ RunCheck /\ UNCHANGED <<m_queueMsgs, pItem>>
         \/ RunPop /\ UNCHANGED <<m_queueMsgs, pItem>>
         \/ \E t \in Threads : SetEventPush(t) /\ UNCHANGED <<m_queueMsgs, pItem>>
         \/ \E t \in Threads : SetEventPost(t) /\ UNCHANGED <<m_queueMsgs, pItem>>
         \/ ConsumerCheck
         \/ ConsumerTake
         \/ HandlerReturn
         \/ \E t \in Threads, q \in Queues, m \in Msgs : AddNewMessage(t, q, m)
  BY DEF Next, ApplicationStep, ConsumerStep, RunStep, SetEventStep

----------------------------------------------------------------------------
(* One lemma for each group of actions that needs an argument of its own. *)

(* Start-up: nothing is queued yet, and registering touches only the table. *)
LEMMA StartUpKeepsIInv ==
  ASSUME IInv, UNCHANGED <<m_queueMsgs, pItem>>,
         (\E q \in Queues : RegisterEvent(q)) \/ EnterRun
  PROVE  IInv'
<1> USE DEF IInv
<1>1. CASE EnterRun
  <2>1. TypeOK' BY <1>1 DEF EnterRun, TypeOK
  <2>2. ItemWhileHandling' /\ QuietBeforeRun' BY <1>1 DEF EnterRun, ItemWhileHandling, QuietBeforeRun
  <2>3. OnlyRegistered'
    BY <1>1 DEF EnterRun, OnlyRegistered, QuietBeforeRun, Registered
  <2>4. PopFindsEvent' /\ EventCovered' /\ TokenCovered'
    BY <1>1 DEF EnterRun, QuietBeforeRun, PopFindsEvent, EventCovered, TokenCovered
  <2> QED BY <2>1, <2>2, <2>3, <2>4
<1>2. ASSUME NEW q \in Queues, RegisterEvent(q) PROVE IInv'
  <2> USE <1>2 DEF RegisterEvent
  <2>1. TypeOK' BY DEF TypeOK
  <2>2. ItemWhileHandling' /\ QuietBeforeRun' BY DEF ItemWhileHandling, QuietBeforeRun
  <2>3. OnlyRegistered'
    BY DEF OnlyRegistered, QuietBeforeRun
  <2>4. PopFindsEvent' /\ EventCovered' /\ TokenCovered'
    BY DEF ItemWhileHandling, QuietBeforeRun, PopFindsEvent, EventCovered, TokenCovered
  <2> QED BY <2>1, <2>2, <2>3, <2>4
<1> QED BY <1>1, <1>2

(* Waiting and testing the list: a token is consumed only by a main thread *)
(* that then looks at the list, and it sleeps only on an empty list.       *)
LEMMA LoopTestKeepsIInv ==
  ASSUME IInv, UNCHANGED <<m_queueMsgs, pItem>>, RunWait \/ RunCheck
  PROVE  IInv'
<1> USE DEF IInv
<1>1. CASE RunWait
  <2> USE <1>1 DEF RunWait
  <2>1. TypeOK' BY DEF TypeOK
  <2>2. ItemWhileHandling' /\ QuietBeforeRun' /\ PopFindsEvent' BY DEF ItemWhileHandling, QuietBeforeRun, PopFindsEvent
  <2>3. OnlyRegistered' BY DEF OnlyRegistered, Registered
  <2>4. EventCovered' BY DEF EventCovered, Signalling, Listed, Draining
  <2>5. TokenCovered' BY DEF TokenCovered
  <2> QED BY <2>1, <2>2, <2>3, <2>4, <2>5
<1>2. CASE RunCheck
  <2> USE <1>2 DEF RunCheck
  <2>1. TypeOK' BY DEF TypeOK
  <2>2. ItemWhileHandling' /\ QuietBeforeRun' /\ PopFindsEvent' BY DEF ItemWhileHandling, QuietBeforeRun, PopFindsEvent
  <2>3. OnlyRegistered' BY DEF OnlyRegistered, Registered
  <2>4. EventCovered' BY DEF EventCovered, Signalling, Listed, Draining
  <2>5. TokenCovered' BY DEF TokenCovered
  <2> QED BY <2>1, <2>2, <2>3, <2>4, <2>5
<1> QED BY <1>1, <1>2

(* Popping an event: its queue stops being listed and starts being drained. *)
LEMMA PopKeepsIInv ==
  ASSUME IInv, UNCHANGED <<m_queueMsgs, pItem>>, RunPop
  PROVE  IInv'
<1> USE DEF IInv, RunPop
<1>1. listEventQueue \in Seq(Slots) /\ listEventQueue # << >>
  BY DEF TypeOK
<1>2. /\ listEventQueue' \in Seq(Slots)
      /\ curEvent' \in Slots
      /\ curEvent' = listEventQueue[1]
      /\ Len(listEventQueue') = Len(listEventQueue) - 1
      /\ Len(listEventQueue) \in Nat \ {0}
      /\ \A i \in 1..(Len(listEventQueue) - 1) :
            listEventQueue'[i] = listEventQueue[i + 1]
  BY <1>1, TailElements
<1>3. TypeOK' BY <1>2 DEF TypeOK, Slots
<1>4. ItemWhileHandling' /\ QuietBeforeRun' /\ PopFindsEvent' /\ TokenCovered'
  BY DEF ItemWhileHandling, QuietBeforeRun, PopFindsEvent, TokenCovered
<1>5. OnlyRegistered'
  <2>1. \A q \in Queues : Registered(q)' <=> Registered(q) BY DEF Registered
  <2>2. \A i \in 1..Len(listEventQueue') :
           \E q \in Queues : Registered(q) /\ listEventQueue'[i] = Slot(q)
    BY <1>2 DEF OnlyRegistered
  <2>3. \E q \in Queues : Registered(q) /\ curEvent' = Slot(q)
    BY <1>2 DEF OnlyRegistered
  <2> QED BY <2>1, <2>2, <2>3 DEF OnlyRegistered
<1>6. EventCovered'
  <2> SUFFICES ASSUME NEW q \in Queues, m_queueMsgs[q] # << >>
               PROVE  (Signalling(q) \/ Listed(q) \/ Draining(q))'
    BY DEF EventCovered
  <2>1. CASE Signalling(q) BY <2>1 DEF Signalling
  <2>2. CASE Draining(q) BY <2>2 DEF Draining
  <2>3. CASE Listed(q)
    <3>1. PICK i \in 1..Len(listEventQueue) : listEventQueue[i] = Slot(q)
      BY <2>3 DEF Listed
    <3>2. CASE i = 1 BY <1>2, <3>1, <3>2 DEF Draining
    <3>3. CASE i # 1
      <4>1. i - 1 \in 1..Len(listEventQueue') /\ listEventQueue'[i - 1] = Slot(q)
        BY <1>2, <3>1, <3>3
      <4> QED BY <4>1 DEF Listed
    <3> QED BY <3>2, <3>3
  <2> QED BY <2>1, <2>2, <2>3 DEF EventCovered
<1> QED BY <1>3, <1>4, <1>5, <1>6

(* Queueing an event: a signalled queue becomes listed, and the thread that *)
(* made the list non-empty owes a post.                                     *)
LEMMA PushKeepsIInv ==
  ASSUME IInv, UNCHANGED <<m_queueMsgs, pItem>>,
         NEW t \in Threads, SetEventPush(t)
  PROVE  IInv'
<1> USE DEF IInv
<1>1. PICK r \in Queues : Registered(r) /\ argSet[t] = EventOf[r]
  BY DEF SetEventPush, OnlyRegistered
<1>2. InRange(argSet[t]) /\ Slot(r) = argSet[t] + EVENT_MIN /\ Slot(r) \in Slots
  BY <1>1, SlotInTable DEF Registered, Slot
<1>3. /\ listEventQueue' = Append(listEventQueue, Slot(r))
      /\ pcSet' = [pcSet EXCEPT ![t] = IF listEventQueue = << >> THEN "post" ELSE "idle"]
      /\ pcSet[t] = "push"
      /\ UNCHANGED <<ayEventHandle, semQueue, pcMain, curEvent, argSet>>
  BY <1>2 DEF SetEventPush
<1>4. /\ listEventQueue' \in Seq(Slots)
      /\ listEventQueue' # << >>
      /\ Len(listEventQueue') = Len(listEventQueue) + 1
      /\ Len(listEventQueue) \in Nat
      /\ \A i \in 1..Len(listEventQueue) : listEventQueue'[i] = listEventQueue[i]
      /\ listEventQueue'[Len(listEventQueue) + 1] = Slot(r)
  BY <1>2, <1>3, AppendElements DEF TypeOK
<1>5. pcSet \in [Threads -> {"idle", "push", "post"}] BY DEF TypeOK
<1>6. TypeOK' BY <1>3, <1>4, <1>5 DEF TypeOK
<1>7. ItemWhileHandling' /\ QuietBeforeRun' /\ PopFindsEvent'
  BY <1>3, <1>4 DEF ItemWhileHandling, QuietBeforeRun, PopFindsEvent
<1>8. OnlyRegistered'
  <2>1. \A q \in Queues : Registered(q)' <=> Registered(q)
    BY <1>3 DEF Registered
  <2>2. \A u \in Threads : pcSet'[u] = "push" => pcSet[u] = "push"
    BY <1>3, <1>5
  <2>3. \A i \in 1..Len(listEventQueue') :
           \E q \in Queues : Registered(q) /\ listEventQueue'[i] = Slot(q)
    BY <1>1, <1>4 DEF OnlyRegistered
  <2> QED BY <1>3, <2>1, <2>2, <2>3 DEF OnlyRegistered
<1>9. EventCovered'
  <2> SUFFICES ASSUME NEW q \in Queues, m_queueMsgs[q] # << >>
               PROVE  (Signalling(q) \/ Listed(q) \/ Draining(q))'
    BY DEF EventCovered
  <2>1. CASE Signalling(q)
    <3>1. PICK u \in Threads : pcSet[u] = "push" /\ argSet[u] = EventOf[q]
      BY <2>1 DEF Signalling
    <3>2. CASE u = t
      <4>1. listEventQueue'[Len(listEventQueue) + 1] = Slot(q)
        BY <1>2, <1>4, <3>1, <3>2 DEF Slot
      <4> QED BY <1>4, <4>1 DEF Listed
    <3>3. CASE u # t BY <1>3, <1>5, <3>1, <3>3 DEF Signalling
    <3> QED BY <3>2, <3>3
  <2>2. CASE Listed(q) BY <1>4, <2>2 DEF Listed
  <2>3. CASE Draining(q) BY <1>3, <2>3 DEF Draining
  <2> QED BY <2>1, <2>2, <2>3 DEF EventCovered
<1>10. TokenCovered'
  <2>1. CASE listEventQueue = << >> BY <1>3, <1>5, <2>1 DEF TokenCovered, Posting
  <2>2. CASE listEventQueue # << >>
    <3>1. Posting => Posting' BY <1>3, <1>5 DEF Posting
    <3> QED BY <1>3, <2>2, <3>1 DEF TokenCovered
  <2> QED BY <2>1, <2>2
<1> QED BY <1>6, <1>7, <1>8, <1>9, <1>10

(* The post leaves the semaphore positive, even when it was full. *)
LEMMA PostKeepsIInv ==
  ASSUME IInv, UNCHANGED <<m_queueMsgs, pItem>>,
         NEW t \in Threads, SetEventPost(t)
  PROVE  IInv'
<1> USE DEF IInv, SetEventPost
<1>1. semQueue' \in 0..SEM_VALUE_MAX /\ semQueue' > 0 BY DEF TypeOK, SemPost
<1>2. TypeOK' BY <1>1 DEF TypeOK
<1>3. ItemWhileHandling' /\ QuietBeforeRun' /\ PopFindsEvent' BY DEF ItemWhileHandling, QuietBeforeRun, PopFindsEvent, TypeOK
<1>4. \A u \in Threads : pcSet'[u] = "push" <=> pcSet[u] = "push" BY DEF TypeOK
<1>5. OnlyRegistered' BY <1>4 DEF OnlyRegistered, Registered
<1>6. EventCovered' BY <1>4 DEF EventCovered, Signalling, Listed, Draining
<1>7. TokenCovered' BY <1>1 DEF TokenCovered
<1> QED BY <1>2, <1>3, <1>5, <1>6, <1>7

(* The consumer leaves its queue only when it has seen it empty. *)
LEMMA ConsumerKeepsIInv ==
  ASSUME IInv, ConsumerStep
  PROVE  IInv'
<1> USE DEF IInv
<1>1. pcMain \in {"call", "take", "handle"}
  BY DEF ConsumerStep, ConsumerCheck, ConsumerTake, HandlerReturn
<1>2. /\ curQueue \in Queues
      /\ Registered(curQueue)
      /\ curEvent = Slot(curQueue)
      /\ \A q \in Queues : Registered(q) /\ curEvent = Slot(q) => q = curQueue
  BY <1>1, CurrentQueue
<1>3. m_queueMsgs[curQueue] \in Seq(Msgs) BY <1>2 DEF TypeOK
<1>4. UNCHANGED <<ayEventHandle, listEventQueue, semQueue, curEvent, pcSet, argSet>>
  BY DEF ConsumerStep, ConsumerCheck, ConsumerTake, HandlerReturn
<1>5. pcMain' \in {"check", "take", "handle"}
  BY DEF ConsumerStep, ConsumerCheck, ConsumerTake, HandlerReturn
<1>6. /\ m_queueMsgs' \in [Queues -> Seq(Msgs)]
      /\ pItem' \in Msgs \cup {NoMsg}
      /\ \A q \in Queues : m_queueMsgs'[q] # << >> => m_queueMsgs[q] # << >>
      /\ m_queueMsgs[curQueue] = << >> \/ pcMain' # "check"
  <2>1. CASE ConsumerCheck BY <1>2, <2>1 DEF ConsumerCheck, TypeOK
  <2>2. CASE ConsumerTake /\ m_queueMsgs[curQueue] = << >>
    BY <2>2 DEF ConsumerTake, TypeOK
  <2>3. CASE ConsumerTake /\ m_queueMsgs[curQueue] # << >>
    <3>1. /\ Head(m_queueMsgs[curQueue]) \in Msgs
          /\ Tail(m_queueMsgs[curQueue]) \in Seq(Msgs)
      BY <1>3, <2>3, TailElements
    <3>2. /\ m_queueMsgs' = [m_queueMsgs EXCEPT ![curQueue] = Tail(@)]
          /\ pItem' = Head(m_queueMsgs[curQueue])
          /\ pcMain' = "handle"
      BY <2>3 DEF ConsumerTake
    <3> QED BY <1>2, <2>3, <3>1, <3>2 DEF TypeOK
  <2>4. CASE HandlerReturn BY <2>4 DEF HandlerReturn, TypeOK
  <2> QED BY <2>1, <2>2, <2>3, <2>4 DEF ConsumerStep
<1>7. TypeOK' BY <1>4, <1>5, <1>6 DEF TypeOK
<1>8. QuietBeforeRun' /\ PopFindsEvent' /\ TokenCovered'
  BY <1>4, <1>5 DEF QuietBeforeRun, PopFindsEvent, TokenCovered
<1>11. ItemWhileHandling'
  <2>1. CASE ConsumerCheck
    BY <2>1 DEF ConsumerCheck, ItemWhileHandling
  <2>2. CASE ConsumerTake /\ m_queueMsgs[curQueue] = << >>
    BY <2>2 DEF ConsumerTake, ItemWhileHandling
  <2>3. CASE ConsumerTake /\ m_queueMsgs[curQueue] # << >>
    <3>1. Head(m_queueMsgs[curQueue]) \in Msgs BY <1>3, <2>3, TailElements
    <3> QED BY <2>3, <3>1 DEF ConsumerTake, ItemWhileHandling
  <2>4. CASE HandlerReturn BY <2>4 DEF HandlerReturn, ItemWhileHandling
  <2> QED BY <2>1, <2>2, <2>3, <2>4 DEF ConsumerStep
<1>9. OnlyRegistered'
  <2>1. \A q \in Queues : Registered(q)' <=> Registered(q)
    BY <1>4 DEF Registered
  <2> QED BY <1>1, <1>4, <1>6, <2>1 DEF OnlyRegistered
<1>10. EventCovered'
  <2> SUFFICES ASSUME NEW q \in Queues, m_queueMsgs'[q] # << >>
               PROVE  (Signalling(q) \/ Listed(q) \/ Draining(q))'
    BY DEF EventCovered
  <2>1. m_queueMsgs[q] # << >> /\ Registered(q) BY <1>6 DEF OnlyRegistered
  <2>2. CASE Signalling(q) BY <1>4, <2>2 DEF Signalling
  <2>3. CASE Listed(q) BY <1>4, <2>3 DEF Listed
  <2>4. CASE Draining(q)
    <3>1. q = curQueue BY <1>2, <2>1, <2>4 DEF Draining
    <3> QED BY <1>4, <1>5, <1>6, <2>1, <2>4, <3>1 DEF Draining
  <2> QED BY <2>1, <2>2, <2>3, <2>4 DEF EventCovered
<1> QED BY <1>7, <1>8, <1>9, <1>10, <1>11

(* The message that makes a queue non-empty is signalled by its sender; a  *)
(* later one relies on the signal, event or consumer already on its way.   *)
LEMMA AddKeepsIInv ==
  ASSUME IInv, NEW t \in Threads, NEW r \in Queues, NEW m \in Msgs,
         AddNewMessage(t, r, m)
  PROVE  IInv'
<1> USE DEF IInv
<1>1. /\ m_queueMsgs' = [m_queueMsgs EXCEPT ![r] = Append(@, m)]
      /\ UNCHANGED <<ayEventHandle, listEventQueue, semQueue, pcMain, curEvent, pItem>>
      /\ pcMain # "register"
      /\ pcSet[t] = "idle"
      /\ Registered(r)
  BY DEF AddNewMessage
<1>2. /\ m_queueMsgs' \in [Queues -> Seq(Msgs)]
      /\ \A q \in Queues : q # r => m_queueMsgs'[q] = m_queueMsgs[q]
  BY <1>1, AppendElements DEF TypeOK
<1>3. /\ pcSet' \in [Threads -> {"idle", "push", "post"}]
      /\ argSet' \in [Threads -> Nat]
      /\ \A u \in Threads : u # t => pcSet'[u] = pcSet[u] /\ argSet'[u] = argSet[u]
      /\ pcSet'[t] = "idle" \/ (pcSet'[t] = "push" /\ argSet'[t] = EventOf[r])
      /\ m_queueMsgs[r] = << >> => pcSet'[t] = "push"
  BY DEF AddNewMessage, CallSetEvent, TypeOK
<1>4. TypeOK' BY <1>1, <1>2, <1>3 DEF TypeOK
<1>5. ItemWhileHandling' /\ QuietBeforeRun' /\ PopFindsEvent'
  BY <1>1 DEF ItemWhileHandling, QuietBeforeRun, PopFindsEvent
<1>6. \A q \in Queues : Registered(q)' <=> Registered(q)
  BY <1>1 DEF Registered
<1>7. OnlyRegistered'
  <2>1. \A q \in Queues : m_queueMsgs'[q] # << >> => Registered(q)
    BY <1>1, <1>2 DEF OnlyRegistered
  <2>2. \A u \in Threads : pcSet'[u] = "push" =>
           \E q \in Queues : Registered(q) /\ argSet'[u] = EventOf[q]
    <3> SUFFICES ASSUME NEW u \in Threads, pcSet'[u] = "push"
                 PROVE  \E q \in Queues : Registered(q) /\ argSet'[u] = EventOf[q]
      OBVIOUS
    <3>1. CASE u = t BY <1>1, <1>3, <3>1
    <3>2. CASE u # t BY <1>3, <3>2 DEF OnlyRegistered
    <3> QED BY <3>1, <3>2
  <2> QED BY <1>1, <1>6, <2>1, <2>2 DEF OnlyRegistered
<1>8. EventCovered'
  <2> SUFFICES ASSUME NEW q \in Queues, m_queueMsgs'[q] # << >>
               PROVE  (Signalling(q) \/ Listed(q) \/ Draining(q))'
    BY DEF EventCovered
  <2>1. CASE m_queueMsgs[q] = << >>
    <3>1. q = r BY <1>2, <2>1
    <3> QED BY <1>3, <2>1, <3>1 DEF Signalling
  <2>2. CASE m_queueMsgs[q] # << >>
    <3>1. Signalling(q) => Signalling(q)'
      <4> SUFFICES ASSUME NEW u \in Threads, pcSet[u] = "push",
                          argSet[u] = EventOf[q]
                   PROVE  Signalling(q)'
        BY DEF Signalling
      <4>1. u # t BY <1>1
      <4> QED BY <1>3, <4>1 DEF Signalling
    <3>2. Listed(q) => Listed(q)' BY <1>1 DEF Listed
    <3>3. Draining(q) => Draining(q)' BY <1>1 DEF Draining
    <3> QED BY <2>2, <3>1, <3>2, <3>3 DEF EventCovered
  <2> QED BY <2>1, <2>2
<1>9. TokenCovered'
  <2>1. Posting => Posting' BY <1>1, <1>3 DEF Posting
  <2> QED BY <1>1, <2>1 DEF TokenCovered
<1> QED BY <1>4, <1>5, <1>7, <1>8, <1>9

----------------------------------------------------------------------------
(* The invariant is inductive. *)
LEMMA InitIInv == Init => IInv
<1> SUFFICES ASSUME Init PROVE IInv
  OBVIOUS
<1> USE DEF Init, AppInit
<1>1. TypeOK BY DEF TypeOK, Slots
<1>2. ItemWhileHandling /\ QuietBeforeRun /\ PopFindsEvent
  BY DEF ItemWhileHandling, QuietBeforeRun, PopFindsEvent
<1>3. OnlyRegistered BY DEF OnlyRegistered
<1>4. EventCovered /\ TokenCovered BY DEF EventCovered, TokenCovered
<1> QED BY <1>1, <1>2, <1>3, <1>4 DEF IInv

LEMMA NextIInv == IInv /\ [Next]_vars => IInv'
<1> SUFFICES ASSUME IInv, [Next]_vars PROVE IInv'
  OBVIOUS
<1>1. CASE UNCHANGED vars
  BY <1>1 DEF vars, IInv, TypeOK, ItemWhileHandling, QuietBeforeRun, OnlyRegistered, Registered,
     PopFindsEvent, EventCovered, Signalling, Listed, Draining, TokenCovered,
     Posting
<1>2. CASE Next
  BY <1>2, NextActions, StartUpKeepsIInv, LoopTestKeepsIInv, PopKeepsIInv,
     PushKeepsIInv, PostKeepsIInv, ConsumerKeepsIInv, AddKeepsIInv
     DEF ConsumerStep
<1> QED BY <1>1, <1>2

THEOREM InvariantHolds == Spec => []IInv
  BY InitIInv, NextIInv, PTL DEF Spec

(* Type correctness, for every host, thread count and bound. *)
THEOREM TypeCorrect == Spec => []TypeOK
<1>1. IInv => TypeOK BY DEF IInv
<1> QED BY <1>1, InvariantHolds, PTL

(* The main thread of CServerApplication::Run never sleeps on an empty     *)
(* semaphore, with nobody about to wake it, while a message is queued.     *)
THEOREM NoMessageStranded == Spec => []NoLostWakeup
<1>1. IInv => NoLostWakeup
  <2> SUFFICES ASSUME IInv, NEW q \in Queues, m_queueMsgs[q] # << >>,
                      pcMain = "wait"
               PROVE  semQueue > 0 \/ \E t \in Threads : pcSet[t] # "idle"
    BY DEF NoLostWakeup
  <2>1. CASE Signalling(q) BY <2>1 DEF Signalling
  <2>2. CASE Listed(q)
    <3>1. listEventQueue # << >> BY <2>2 DEF Listed
    <3> QED BY <3>1 DEF IInv, TokenCovered, Posting
  <2> QED BY <2>1, <2>2 DEF IInv, EventCovered, Draining
<1> QED BY <1>1, InvariantHolds, PTL

(* Every queue that holds messages has its event listed, a thread about to *)
(* list it, or the main thread draining it, however AddNewMessage of the   *)
(* threads and MessageConsumer interleave.                                 *)
THEOREM EveryQueueCovered == Spec => []EventCovered
<1>1. IInv => EventCovered BY DEF IInv
<1> QED BY <1>1, InvariantHolds, PTL

(* A listed event has a token of the semaphore, or a thread between the    *)
(* lock and the post of SetEvent, or a main thread that is awake.          *)
THEOREM EveryEventHasToken == Spec => []TokenCovered
<1>1. IInv => TokenCovered BY DEF IInv
<1> QED BY <1>1, InvariantHolds, PTL

(* Run() never pops an empty event list, although it tests the size        *)
(* without the lock.                                                       *)
THEOREM PopIsSafe == Spec => []PopFindsEvent
<1>1. IInv => PopFindsEvent BY DEF IInv
<1> QED BY <1>1, InvariantHolds, PTL

----------------------------------------------------------------------------
(* The queues, events, locks and semaphore together behave as the executor *)
(* that has none of them: every step enqueues a message, starts the oldest *)
(* of a queue, finishes one, or changes nothing the executor can see.      *)
THEOREM QueuesRefineExecutor == Spec => Exec!ExecSafe
<1>1. Init => Exec!ExecInit
  BY DEF Init, Exec!ExecInit
<1>2. IInv /\ [Next]_vars => [Exec!ExecNext]_<<m_queueMsgs, pItem>>
  <2> SUFFICES ASSUME IInv, Next,
                      ~ UNCHANGED <<m_queueMsgs, pItem>>
               PROVE  Exec!ExecNext
    BY DEF vars
  <2>1. ASSUME NEW t \in Threads, NEW q \in Queues, NEW m \in Msgs,
               AddNewMessage(t, q, m)
        PROVE  Exec!ExecNext
    <3>1. Exec!Enqueue(q, m) BY <2>1 DEF AddNewMessage, Exec!Enqueue
    <3> QED BY <3>1 DEF Exec!ExecNext
  <2>2. CASE ConsumerTake
    <3>1. curQueue \in Queues BY <2>2, CurrentQueue DEF ConsumerTake, IInv
    <3>2. Exec!Start(curQueue)
      BY <2>2 DEF ConsumerTake, Exec!Start, IInv, ItemWhileHandling
    <3> QED BY <3>1, <3>2 DEF Exec!ExecNext
  <2>3. CASE HandlerReturn
    <3>1. Exec!Finish
      BY <2>3 DEF HandlerReturn, Exec!Finish, IInv, ItemWhileHandling
    <3> QED BY <3>1 DEF Exec!ExecNext
  <2> QED BY <2>1, <2>2, <2>3, NextActions DEF ConsumerCheck
<1> QED
  BY <1>1, <1>2, InvariantHolds, PTL
     DEF Spec, Exec!ExecSafe, Exec!execVars
=============================================================================
