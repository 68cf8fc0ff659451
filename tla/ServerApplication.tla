------------------------- MODULE ServerApplication -------------------------
(***************************************************************************)
(* The event loop of a server process: CServerApplication, in              *)
(* Service/Application.cpp.  Any thread calls SetEvent; the main thread    *)
(* alone runs Run(): it waits on a semaphore, then pops event indices and  *)
(* calls the handler (Proc) registered for each.                           *)
(*                                                                         *)
(* A handler is opaque here: pcMain = "call" is the point where Run()      *)
(* enters it, and the module that EXTENDS this one says what it does and   *)
(* sends pcMain back to "check".  Each m_lockQueue critical section is one *)
(* action; everything the code reads or does outside the lock is an action *)
(* of its own.                                                             *)
(***************************************************************************)
EXTENDS Naturals, Sequences

CONSTANTS
  Threads,        (* every thread that may call SetEvent                   *)
  Main,           (* the thread inside Run()                               *)
  Queues,         (* what an event handler drains: one message queue each  *)
  NoQueue,        (* NULL: no handler, no queue                            *)
  EventOf,        (* [Queues -> Nat]: the event index the host gives each  *)
  EVENT_MIN,      (* APPLICATION_EVENT_MIN_COUNT                           *)
  EVENT_MAX,      (* APPLICATION_EVENT_MAX_COUNT                           *)
  SEM_VALUE_MAX,  (* a semaphore refuses to count beyond this              *)
  InitTokens      (* count left by Create: 0 (Windows) or 1 (POSIX)        *)

ASSUME ApplicationAssumption ==
  /\ Main \in Threads
  /\ NoQueue \notin Queues
  /\ EventOf \in [Queues -> Nat]
  /\ EVENT_MIN \in Nat
  /\ EVENT_MAX \in Nat
  /\ SEM_VALUE_MAX \in Nat \ {0}
  /\ InitTokens \in SUBSET (0..SEM_VALUE_MAX)

VARIABLES
  ayEventHandle,   (* the handler table: which queue's handler, or NoQueue *)
  listEventQueue,  (* m_listEventQueue                                     *)
  semQueue,        (* m_semQueue                                           *)
  pcMain,          (* where the main thread is                             *)
  curEvent,        (* dwEvent of Run(): the event being dispatched         *)
  pcSet,           (* where each thread is inside SetEvent                 *)
  argSet           (* the event index each thread passed to SetEvent       *)

appVars == <<ayEventHandle, listEventQueue, semQueue, pcMain, curEvent,
             pcSet, argSet>>

Slots == 0..(EVENT_MAX - 1)

InRange(e) == e + EVENT_MIN < EVENT_MAX

Slot(q) == EventOf[q] + EVENT_MIN

(* The registration the host asked for is in the table. *)
Registered(q) == InRange(EventOf[q]) /\ ayEventHandle[Slot(q)] = q

AppInit ==
  /\ ayEventHandle = [s \in Slots |-> NoQueue]
  /\ listEventQueue = << >>
  /\ semQueue \in InitTokens
  /\ pcMain = "register"
  /\ curEvent = 0
  /\ pcSet = [t \in Threads |-> "idle"]
  /\ argSet = [t \in Threads |-> 0]

----------------------------------------------------------------------------
(* Start-up: main() registers its handlers, then calls Run(). *)

(* A taken slot and an index out of range are refused. *)
CheckEventIndex(e) == InRange(e) /\ ayEventHandle[e + EVENT_MIN] = NoQueue

RegisterEvent(q) ==
  /\ pcMain = "register"
  /\ CheckEventIndex(EventOf[q])
  /\ ayEventHandle' = [ayEventHandle EXCEPT ![Slot(q)] = q]
  /\ UNCHANGED <<listEventQueue, semQueue, pcMain, curEvent, pcSet, argSet>>

(* Every host registers its handlers before it calls Run(). *)
EnterRun ==
  /\ pcMain = "register"
  /\ \E q \in Queues : Registered(q)
  /\ pcMain' = "wait"
  /\ UNCHANGED <<ayEventHandle, listEventQueue, semQueue, curEvent, pcSet,
                 argSet>>

----------------------------------------------------------------------------
(* SetEvent, called by any thread. *)

(* Entering SetEvent; a conjunct of the action that makes the call. *)
CallSetEvent(t, e) ==
  /\ pcSet[t] = "idle"
  /\ pcSet' = [pcSet EXCEPT ![t] = "push"]
  /\ argSet' = [argSet EXCEPT ![t] = e]

SetEventPush_TestAfterPush(t) ==
  /\ pcSet[t] = "push"
  /\ InRange(argSet[t])
  /\ listEventQueue' = Append(listEventQueue, argSet[t] + EVENT_MIN)
  /\ pcSet' = [pcSet EXCEPT ![t] =
                  IF listEventQueue' = << >> THEN "post" ELSE "idle"]
  /\ UNCHANGED <<ayEventHandle, semQueue, pcMain, curEvent, argSet>>

(* The locked part.  The event that makes the list non-empty must be       *)
(* followed by a post, made after the lock is released.                    *)
SetEventPush(t) ==
  /\ pcSet[t] = "push"
  /\ IF InRange(argSet[t])
     THEN /\ listEventQueue' = Append(listEventQueue, argSet[t] + EVENT_MIN)
          /\ pcSet' = [pcSet EXCEPT ![t] =
                         IF listEventQueue = << >> THEN "post" ELSE "idle"]
     ELSE /\ pcSet' = [pcSet EXCEPT ![t] = "idle"]
          /\ UNCHANGED listEventQueue
  /\ UNCHANGED <<ayEventHandle, semQueue, pcMain, curEvent, argSet>>

SemPost_Unbounded(n) == n + 1

(* m_semQueue.UnLock(1); a post on a full semaphore fails and is ignored. *)
SemPost(n) == IF n < SEM_VALUE_MAX THEN n + 1 ELSE n

SetEventPost(t) ==
  /\ pcSet[t] = "post"
  /\ semQueue' = SemPost(semQueue)
  /\ pcSet' = [pcSet EXCEPT ![t] = "idle"]
  /\ UNCHANGED <<ayEventHandle, listEventQueue, pcMain, curEvent, argSet>>

----------------------------------------------------------------------------
(* Run, the main thread. *)

RunWait ==
  /\ pcMain = "wait"
  /\ semQueue > 0
  /\ semQueue' = semQueue - 1
  /\ pcMain' = "check"
  /\ UNCHANGED <<ayEventHandle, listEventQueue, curEvent, pcSet, argSet>>

RunCheck_PopsAlways ==
  /\ pcMain = "check"
  /\ pcMain' = "pop"
  /\ UNCHANGED <<ayEventHandle, listEventQueue, semQueue, curEvent, pcSet,
                 argSet>>

(* while (m_listEventQueue.size()): read without the lock. *)
RunCheck ==
  /\ pcMain = "check"
  /\ pcMain' = IF listEventQueue = << >> THEN "wait" ELSE "pop"
  /\ UNCHANGED <<ayEventHandle, listEventQueue, semQueue, curEvent, pcSet,
                 argSet>>

RunPop ==
  /\ pcMain = "pop"
  /\ listEventQueue # << >>
  /\ curEvent' = Head(listEventQueue)
  /\ listEventQueue' = Tail(listEventQueue)
  /\ pcMain' = "call"
  /\ UNCHANGED <<ayEventHandle, semQueue, pcSet, argSet>>

SetEventStep(t) == SetEventPush(t) \/ SetEventPost(t)
RunStep == RunWait \/ RunCheck \/ RunPop
=============================================================================
