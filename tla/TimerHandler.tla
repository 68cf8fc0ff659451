---------------------------- MODULE TimerHandler ----------------------------
(***************************************************************************)
(* ITIMERHANDLER (Service/TimerHandler.cpp) and the tick of its host       *)
(* (CTimerMgr::OnTimerCheckQueue): timers that end before the next full    *)
(* hour are in a sorted set, later ones in a list that is sorted into the  *)
(* set when the hour comes; timers of high level have a set of their own.  *)
(* A timer's level and end tell where it is, and that is where RemoveTimer *)
(* and UpdateTimer look for it.                                            *)
(*                                                                         *)
(* All of it runs on the main thread: the host's handlers, between ticks,  *)
(* and OnTimer, in the middle of one, add, move and remove any timer.      *)
(* Times are whole numbers; timers with the same end fire in any order     *)
(* (the code's order is that of their addresses).                          *)
(***************************************************************************)
EXTENDS Naturals

CONSTANTS
  Timers,    (* the objects of m_poolTimers                                *)
  NoTimer,   (* NULL                                                       *)
  Times,     (* readings of the clock, and the ends of timers              *)
  HOUR,      (* 3600                                                       *)
  MaxLate    (* bound: timers that OnTimer sets to a time already reached  *)

ASSUME TimerAssumption ==
  /\ NoTimer \notin Timers
  /\ Times \subseteq Nat /\ 0 \in Times
  /\ HOUR \in Nat \ {0} /\ MaxLate \in Nat

Levels == {"normal", "high"}
Places == {"near", "far", "high"}

VARIABLES
  inUse,        (* the timers taken from the pool                          *)
  m_emLevel,
  m_tEnd,
  m_bCalling,   (* the timers whose flag is set                            *)
  held,         (* near: m_setTimers, far: m_listFarTimer,                 *)
                (* high: m_setHighTimers                                   *)
  m_tNow,
  m_tNextHour,
  checking,     (* "high", "near": in CheckHighTimer, in CheckTimer; "no"  *)
  pTimer,       (* their local: the timer whose OnTimer runs, or NoTimer   *)
  late          (* calls counted against MaxLate                           *)

vars == <<inUse, m_emLevel, m_tEnd, m_bCalling, held, m_tNow, m_tNextHour,
          checking, pTimer, late>>

timer == <<inUse, m_emLevel, m_tEnd, m_bCalling>>
clock == <<m_tNow, m_tNextHour>>
loop  == <<checking, pTimer>>

NextHour_ThisHour(now) == (now \div HOUR) * HOUR

(* The full hour after now, from the constructor. *)
NextHour(now) == (now \div HOUR + 1) * HOUR

Init ==
  /\ inUse = {} /\ m_bCalling = {} /\ late = 0
  /\ m_emLevel = [t \in Timers |-> "normal"]
  /\ m_tEnd = [t \in Timers |-> 0]
  /\ held = [p \in Places |-> {}]
  /\ m_tNow \in Times
  /\ m_tNextHour = NextHour(m_tNow)
  /\ checking = "no" /\ pTimer = NoTimer

----------------------------------------------------------------------------
(* Host code runs between ticks and inside OnTimer. *)
HostRuns == checking = "no" \/ pTimer # NoTimer

(* A bound, not a condition of the code: see MaxLate. *)
Counted(end) ==
  LET isLate == checking # "no" /\ end <= m_tNow
  IN  /\ isLate => late < MaxLate
      /\ late' = IF isLate THEN late + 1 ELSE late

Place_ByTheClock(level, end) ==
  IF level = "high" THEN "high" ELSE IF end < m_tNow + HOUR THEN "near" ELSE "far"

(* Where a timer goes, and where it is looked for. *)
Place(level, end) ==
  IF level = "high" THEN "high" ELSE IF end < m_tNextHour THEN "near" ELSE "far"

PlaceOf(t) == Place(m_emLevel[t], m_tEnd[t])

Held == held.near \cup held.far \cup held.high

Insert(where, p, t) == [where EXCEPT ![p] = @ \cup {t}]
Erase(where, p, t)  == [where EXCEPT ![p] = @ \ {t}]

SetNewTimer(t, level, end) ==
  /\ HostRuns /\ t \notin inUse
  /\ Counted(end)
  /\ inUse' = inUse \cup {t}
  /\ m_emLevel' = [m_emLevel EXCEPT ![t] = level]
  /\ m_tEnd' = [m_tEnd EXCEPT ![t] = end]
  /\ held' = Insert(held, Place(level, end), t)
  /\ UNCHANGED <<m_bCalling, loop, clock>>

(* Back to the pool, which cleans it. *)
ReleaseTimer(t) ==
  /\ inUse' = inUse \ {t}
  /\ m_bCalling' = m_bCalling \ {t}
  /\ m_emLevel' = [m_emLevel EXCEPT ![t] = "normal"]
  /\ m_tEnd' = [m_tEnd EXCEPT ![t] = 0]

MayRemove_Any(t) == TRUE

MayRemove(t) == t \notin m_bCalling

(* A timer that is calling is left alone: its call ends with its release. *)
(* The timer of a stale pointer is found nowhere and is not in use.        *)
RemoveTimer(t) ==
  /\ HostRuns /\ MayRemove(t)
  /\ held' = Erase(held, PlaceOf(t), t)
  /\ ReleaseTimer(t)
  /\ UNCHANGED <<loop, late, clock>>

(* Nothing happens when the set that its level and end say does not have   *)
(* the timer.  The list has no such return: a timer it does not have is    *)
(* added to it, with its old end.                                          *)
UpdateTimer(t, end) ==
  LET found  == t \in held[PlaceOf(t)]
      newEnd == IF found THEN end ELSE m_tEnd[t]
  IN  /\ HostRuns
      /\ found \/ PlaceOf(t) = "far"
      /\ Counted(newEnd)
      /\ m_tEnd' = [m_tEnd EXCEPT ![t] = newEnd]
      /\ held' = Insert(Erase(held, PlaceOf(t), t), Place(m_emLevel[t], newEnd), t)
      /\ UNCHANGED <<inUse, m_emLevel, m_bCalling, loop, clock>>

----------------------------------------------------------------------------
(* OnTimerCheckQueue, called when the tick's event is handled, reads the   *)
(* clock, which may have jumped or been set back; a host that uses high    *)
(* timers has CheckHighTimer called first.                                 *)
Tick ==
  /\ checking = "no"
  /\ m_tNow' \in Times
  /\ checking' = "high"
  /\ UNCHANGED <<timer, held, pTimer, late, m_tNextHour>>

First_ByAddress(s) == s

(* What begin() of a sorted set may be. *)
First(s) == {t \in s : \A u \in s : m_tEnd[t] <= m_tEnd[u]}

DueFirst(p) == {t \in First(held[p]) : m_tEnd[t] <= m_tNow}

(* One round of the loop of CheckHighTimer or CheckTimer, up to OnTimer. *)
Fire(t) ==
  /\ checking # "no" /\ pTimer = NoTimer
  /\ t \in DueFirst(checking)
  /\ held' = Erase(held, checking, t)
  /\ m_bCalling' = m_bCalling \cup {t}
  /\ pTimer' = t
  /\ UNCHANGED <<inUse, m_emLevel, m_tEnd, checking, late, clock>>

OnTimerReturns ==
  /\ pTimer # NoTimer
  /\ ReleaseTimer(pTimer)
  /\ pTimer' = NoTimer
  /\ UNCHANGED <<held, checking, late, clock>>

(* The loop ends at the first timer that is not due; putting that one out  *)
(* of the set and back changes nothing.                                    *)
CheckHighTimerEnds ==
  /\ checking = "high" /\ pTimer = NoTimer /\ DueFirst("high") = {}
  /\ checking' = "near"
  /\ UNCHANGED <<timer, held, pTimer, late, clock>>

ArrangeTimer_Nothing(hour) == UNCHANGED held

(* What ends before the hour moves from the list to the set. *)
ArrangeTimer(hour) ==
  LET near == {t \in held.far : m_tEnd[t] < hour}
  IN  held' = [held EXCEPT !.far = @ \ near, !.near = @ \cup near]

(* The rest of OnTimerCheckQueue.  Its test of the minute is passed        *)
(* whenever that of the hour is: m_tNextMinute never passes m_tNextHour.   *)
HourStep ==
  IF m_tNow >= m_tNextHour
    THEN /\ m_tNextHour' = m_tNextHour + HOUR
         /\ ArrangeTimer(m_tNextHour')
    ELSE UNCHANGED <<m_tNextHour, held>>

CheckTimerEnds ==
  /\ checking = "near" /\ pTimer = NoTimer /\ DueFirst("near") = {}
  /\ checking' = "no"
  /\ HourStep
  /\ UNCHANGED <<timer, pTimer, late, m_tNow>>

Next ==
  \/ \E t \in Timers, level \in Levels, end \in Times : SetNewTimer(t, level, end)
  \/ \E t \in Timers, end \in Times : UpdateTimer(t, end)
  \/ \E t \in Timers : RemoveTimer(t) \/ Fire(t)
  \/ OnTimerReturns \/ Tick \/ CheckHighTimerEnds \/ CheckTimerEnds

Spec == Init /\ [][Next]_vars

(* The tick's event is served again and again (ImplementsExecutor in the   *)
(* module MessageQueue), OnTimer returns, and the loops run on.            *)
FairSpec ==
  /\ Spec
  /\ WF_vars(Tick) /\ WF_vars(CheckHighTimerEnds) /\ WF_vars(CheckTimerEnds)
  /\ WF_vars(\E t \in Timers : Fire(t)) /\ WF_vars(OnTimerReturns)

----------------------------------------------------------------------------
(* OnTimer runs only inside a check. *)
TypeOK ==
  /\ inUse \subseteq Timers /\ m_bCalling \subseteq Timers
  /\ m_emLevel \in [Timers -> Levels] /\ m_tEnd \in [Timers -> Times]
  /\ held \in [Places -> SUBSET Timers]
  /\ m_tNow \in Times /\ m_tNextHour \in Nat \ {0}
  /\ checking \in {"no", "high", "near"} /\ pTimer \in Timers \cup {NoTimer}
  /\ checking = "no" => pTimer = NoTimer
  /\ late \in Nat

(* A timer is held only where its level and its end say: the search of     *)
(* RemoveTimer and of UpdateTimer never misses one, and what CheckTimer    *)
(* does not look at ends later than all it looks at.                       *)
FoundWhereSought ==
  /\ \A p \in Places : \A t \in held[p] : PlaceOf(t) = p
  /\ \A t \in m_bCalling : PlaceOf(t) # "far"

(* The timers in use are those that will fire and the one being called:    *)
(* none is leaked, none is released while a set still names it, and the    *)
(* one released after OnTimer is the one that was called.                  *)
UsedMeansHeld ==
  /\ inUse = Held \cup m_bCalling
  /\ m_bCalling = {t \in Timers : t = pTimer} /\ Held \cap m_bCalling = {}
  /\ \A t \in Timers \ inUse : m_emLevel[t] = "normal" /\ m_tEnd[t] = 0

(* Together these are inductive. *)
IInv == TypeOK /\ FoundWhereSought /\ UsedMeansHeld

(* The alarms that the containers stand for. *)
Alarms ==
  [t \in Timers |-> IF t \in Held THEN [level |-> m_emLevel[t], end |-> m_tEnd[t]]
                                  ELSE [level |-> "off", end |-> 0]]

Clock == INSTANCE AlarmClock WITH alarm <- Alarms, ringing <- m_bCalling, now <- m_tNow

(* Timers ring once, not early, and in the order of their ends, the far    *)
(* list included, whatever callbacks and handlers do in between.           *)
RingsInOrder == Clock!AlarmSpec

(* A timer whose end the clock has reached rings, however far the clock    *)
(* jumped, unless it is removed or moved or the clock is set back.         *)
NoneForgotten ==
  \A t \in Timers :
    (t \in Held /\ m_tEnd[t] <= m_tNow) ~> ~(t \in Held /\ m_tEnd[t] <= m_tNow)
=============================================================================
