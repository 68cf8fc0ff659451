------------------------- MODULE TimerHandlerProofs -------------------------
(***************************************************************************)
(* The invariant of TimerHandler is inductive, and TimerHandler implements *)
(* AlarmClock, for any timers, any times and any length of the hour.       *)
(***************************************************************************)
EXTENDS TimerHandler, TLAPS

(* A place is one of the three. *)
LEMMA PlaceType == \A level, end : Place(level, end) \in Places
BY DEF Place, Places

LEMMA InitIInv == Init => IInv
<1> SUFFICES ASSUME Init PROVE IInv
  OBVIOUS
<1>1. m_tNextHour \in Nat \ {0}
  BY TimerAssumption DEF Init, NextHour
<1>2. TypeOK
  BY <1>1, TimerAssumption DEF Init, TypeOK, Levels
<1>3. FoundWhereSought /\ UsedMeansHeld
  BY TimerAssumption DEF Init, FoundWhereSought, UsedMeansHeld, Held, Places
<1> QED BY <1>2, <1>3 DEF IInv

LEMMA SetNewTimerIInv ==
  ASSUME IInv, NEW t \in Timers, NEW level \in Levels, NEW end \in Times,
         SetNewTimer(t, level, end)
  PROVE  IInv' /\ Held' = Held \cup {t} /\ t \notin Held \cup m_bCalling
<1> DEFINE p == Place(level, end)
<1>1. p \in Places /\ t \notin inUse /\ t \notin Held \cup m_bCalling
  BY PlaceType DEF SetNewTimer, IInv, UsedMeansHeld
<1>2. \A q \in Places : held'[q] = IF q = p THEN held[q] \cup {t} ELSE held[q]
  BY <1>1 DEF SetNewTimer, Insert, IInv, TypeOK
<1>3. TypeOK'
  BY <1>1 DEF IInv, TypeOK, SetNewTimer, Insert, Counted, loop, clock
<1>4. \A u \in Timers : /\ u # t => PlaceOf(u)' = PlaceOf(u)
                        /\ u = t => PlaceOf(u)' = p
  BY DEF IInv, TypeOK, SetNewTimer, PlaceOf, Place, clock
<1>5. ASSUME NEW q \in Places, NEW u \in held'[q] PROVE PlaceOf(u)' = q
  <2>1. CASE u = t
    BY <1>1, <1>2, <1>4, <2>1 DEF Held, Places
  <2>2. CASE u # t
    BY <1>2, <1>4, <2>2 DEF IInv, TypeOK, FoundWhereSought
  <2> QED BY <2>1, <2>2
<1>6. ASSUME NEW u \in m_bCalling' PROVE PlaceOf(u)' # "far"
  BY <1>1, <1>4 DEF IInv, TypeOK, FoundWhereSought, UsedMeansHeld, SetNewTimer
<1>7. FoundWhereSought'
  BY <1>5, <1>6 DEF FoundWhereSought
<1>8. Held' = Held \cup {t}
  BY <1>1, <1>2 DEF Held, Places
<1>9. UsedMeansHeld'
  BY <1>1, <1>8 DEF IInv, TypeOK, UsedMeansHeld, SetNewTimer, loop
<1> QED BY <1>1, <1>3, <1>7, <1>8, <1>9 DEF IInv

(* A timer that is held is where it is sought, and nowhere else. *)
LEMMA HeldOnce ==
  ASSUME IInv, NEW t \in Held
  PROVE  /\ t \in Timers /\ t \in inUse /\ t \notin m_bCalling
         /\ t \in held[PlaceOf(t)]
         /\ \A q \in Places : t \in held[q] => q = PlaceOf(t)
<1>1. PICK q \in Places : t \in held[q]
  BY DEF Held, Places
<1>2. PlaceOf(t) = q
  BY <1>1 DEF IInv, FoundWhereSought
<1> QED BY <1>1, <1>2 DEF IInv, TypeOK, FoundWhereSought, UsedMeansHeld

LEMMA RemoveTimerIInv ==
  ASSUME IInv, NEW t \in Timers, RemoveTimer(t)
  PROVE  IInv' /\ Held' = Held \ {t} /\ m_bCalling' = m_bCalling
<1>1. PlaceOf(t) \in Places /\ t \notin m_bCalling
  BY PlaceType DEF RemoveTimer, MayRemove, PlaceOf
<1>2. \A q \in Places : held'[q] = IF q = PlaceOf(t) THEN held[q] \ {t} ELSE held[q]
  BY <1>1 DEF RemoveTimer, Erase, IInv, TypeOK
<1>3. \A q \in Places : t \notin held'[q]
  BY <1>2, HeldOnce DEF Held, Places
<1>4. TypeOK'
  BY <1>1, TimerAssumption
     DEF IInv, TypeOK, RemoveTimer, ReleaseTimer, Erase, Levels, loop, clock
<1>5. \A u \in Timers : u # t => PlaceOf(u)' = PlaceOf(u)
  BY DEF IInv, TypeOK, RemoveTimer, ReleaseTimer, PlaceOf, Place, clock
<1>6. FoundWhereSought'
  <2>1. ASSUME NEW q \in Places, NEW u \in held'[q] PROVE PlaceOf(u)' = q
    BY <1>2, <1>3, <1>5 DEF IInv, TypeOK, FoundWhereSought
  <2>2. ASSUME NEW u \in m_bCalling' PROVE PlaceOf(u)' # "far"
    BY <1>1, <1>5 DEF IInv, TypeOK, FoundWhereSought, RemoveTimer, ReleaseTimer
  <2> QED BY <2>1, <2>2 DEF FoundWhereSought
<1>7. Held' = Held \ {t}
  BY <1>2, <1>3 DEF Held, Places
<1>8. UsedMeansHeld'
  <2>1. inUse' = Held' \cup m_bCalling'
    BY <1>1, <1>7 DEF IInv, UsedMeansHeld, RemoveTimer, ReleaseTimer
  <2>2. m_bCalling' = {u \in Timers : u = pTimer'} /\ Held' \cap m_bCalling' = {}
    BY <1>1, <1>7 DEF IInv, UsedMeansHeld, RemoveTimer, ReleaseTimer, loop
  <2>3. \A u \in Timers \ inUse' : m_emLevel'[u] = "normal" /\ m_tEnd'[u] = 0
    BY DEF IInv, TypeOK, UsedMeansHeld, RemoveTimer, ReleaseTimer
  <2> QED BY <2>1, <2>2, <2>3 DEF UsedMeansHeld
<1>9. m_bCalling' = m_bCalling
  BY <1>1 DEF RemoveTimer, ReleaseTimer
<1> QED BY <1>4, <1>6, <1>7, <1>8, <1>9 DEF IInv

(* The far branch of UpdateTimer always finds its timer: one that is free  *)
(* or calling is not sought in the list.                                   *)
LEMMA FarIsFound ==
  ASSUME IInv, NEW t \in Timers, PlaceOf(t) = "far"
  PROVE  t \in Held
<1>1. t \notin m_bCalling
  BY DEF IInv, FoundWhereSought
<1>2. t \in inUse
  BY TimerAssumption DEF IInv, TypeOK, UsedMeansHeld, PlaceOf, Place
<1> QED BY <1>1, <1>2 DEF IInv, UsedMeansHeld

LEMMA UpdateTimerIInv ==
  ASSUME IInv, NEW t \in Timers, NEW end \in Times, UpdateTimer(t, end)
  PROVE  IInv' /\ t \in Held /\ Held' = Held /\ m_tEnd' = [m_tEnd EXCEPT ![t] = end]
<1> DEFINE p == Place(m_emLevel[t], end)
<1>1. p \in Places /\ PlaceOf(t) \in Places
  BY PlaceType DEF PlaceOf
<1>2. t \in Held /\ t \in held[PlaceOf(t)]
  <2>1. CASE t \in held[PlaceOf(t)]
    BY <1>1, <2>1 DEF Held, Places
  <2>2. CASE PlaceOf(t) = "far"
    BY <2>2, FarIsFound, HeldOnce
  <2> QED BY <2>1, <2>2 DEF UpdateTimer
<1>3. t \in inUse /\ t \notin m_bCalling /\ \A q \in Places : t \in held[q] => q = PlaceOf(t)
  BY <1>2, HeldOnce
<1>4. m_tEnd' = [m_tEnd EXCEPT ![t] = end] /\ held' = Insert(Erase(held, PlaceOf(t), t), p, t)
  BY <1>2 DEF UpdateTimer
<1>5. \A q \in Places : held'[q] = IF q = p THEN held[q] \cup {t} ELSE held[q] \ {t}
  BY <1>1, <1>3, <1>4 DEF Insert, Erase, IInv, TypeOK
<1>6. TypeOK'
  BY <1>1, <1>4 DEF IInv, TypeOK, UpdateTimer, Counted, Insert, Erase, loop, clock
<1>7. \A u \in Timers : /\ u # t => PlaceOf(u)' = PlaceOf(u)
                        /\ u = t => PlaceOf(u)' = p
  BY <1>4 DEF IInv, TypeOK, UpdateTimer, PlaceOf, Place, clock
<1>8. FoundWhereSought'
  <2>1. ASSUME NEW q \in Places, NEW u \in held'[q] PROVE PlaceOf(u)' = q
    <3>1. CASE u = t
      <4>1. q = p
        BY <1>5, <3>1
      <4> QED BY <1>7, <3>1, <4>1
    <3>2. CASE u # t
      <4>1. u \in held[q]
        BY <1>5, <3>2
      <4>2. u \in Timers /\ PlaceOf(u) = q
        BY <4>1 DEF IInv, TypeOK, FoundWhereSought
      <4> QED BY <1>7, <3>2, <4>2
    <3> QED BY <3>1, <3>2
  <2>2. ASSUME NEW u \in m_bCalling' PROVE PlaceOf(u)' # "far"
    BY <1>3, <1>7 DEF IInv, TypeOK, FoundWhereSought, UpdateTimer
  <2> QED BY <2>1, <2>2 DEF FoundWhereSought
<1>9. Held' = Held
  BY <1>1, <1>2, <1>5 DEF Held, Places
<1>10. UsedMeansHeld'
  BY <1>3, <1>4, <1>9 DEF IInv, TypeOK, UsedMeansHeld, UpdateTimer, loop
<1> QED BY <1>2, <1>4, <1>6, <1>8, <1>9, <1>10 DEF IInv

LEMMA TickIInv == ASSUME IInv, Tick PROVE IInv'
<1>1. \A t : PlaceOf(t)' = PlaceOf(t)
  BY DEF Tick, timer, PlaceOf, Place
<1>2. TypeOK'
  BY TimerAssumption DEF IInv, TypeOK, Tick, timer
<1>3. FoundWhereSought'
  BY <1>1 DEF IInv, FoundWhereSought, Tick, timer
<1>4. UsedMeansHeld'
  BY DEF IInv, UsedMeansHeld, Held, Tick, timer
<1> QED BY <1>2, <1>3, <1>4 DEF IInv

LEMMA FireIInv ==
  ASSUME IInv, NEW t \in Timers, Fire(t)
  PROVE  /\ IInv' /\ Held' = Held \ {t} /\ t \in held[checking]
         /\ m_bCalling = {} /\ m_bCalling' = {t}
<1>1. /\ checking \in {"near", "high"} /\ checking \in Places
      /\ t \in held[checking] /\ m_bCalling = {}
  BY TimerAssumption
     DEF IInv, TypeOK, UsedMeansHeld, Fire, DueFirst, First, Places
<1>2. t \in Held /\ PlaceOf(t) = checking
  BY <1>1 DEF Held, Places, IInv, FoundWhereSought
<1>3. t \in inUse /\ \A q \in Places : t \in held[q] => q = checking
  BY <1>2, HeldOnce
<1>4. \A q \in Places : held'[q] = held[q] \ {t}
  BY <1>1, <1>3 DEF Fire, Erase, IInv, TypeOK
<1>5. TypeOK'
  BY <1>1 DEF IInv, TypeOK, Fire, Erase, clock
<1>6. \A u : PlaceOf(u)' = PlaceOf(u)
  BY DEF Fire, PlaceOf, Place, clock
<1>7. m_bCalling' = {t}
  BY <1>1 DEF Fire
<1>8. FoundWhereSought'
  <2>1. ASSUME NEW q \in Places, NEW u \in held'[q] PROVE PlaceOf(u)' = q
    BY <1>4, <1>6 DEF IInv, FoundWhereSought
  <2>2. ASSUME NEW u \in m_bCalling' PROVE PlaceOf(u)' # "far"
    BY <1>1, <1>2, <1>6, <1>7
  <2> QED BY <2>1, <2>2 DEF FoundWhereSought
<1>9. Held' = Held \ {t}
  BY <1>4 DEF Held, Places
<1>10. UsedMeansHeld'
  BY <1>1, <1>2, <1>3, <1>7, <1>9 DEF IInv, UsedMeansHeld, Fire
<1> QED BY <1>1, <1>5, <1>7, <1>8, <1>9, <1>10 DEF IInv

LEMMA OnTimerReturnsIInv ==
  ASSUME IInv, OnTimerReturns
  PROVE  IInv' /\ Held' = Held /\ m_bCalling # {} /\ m_bCalling' = {}
<1>1. /\ pTimer \in Timers /\ m_bCalling = {pTimer} /\ pTimer \notin Held
      /\ m_bCalling' = {}
  BY DEF IInv, TypeOK, UsedMeansHeld, OnTimerReturns, ReleaseTimer
<1>2. Held' = Held /\ Held \subseteq Timers
  BY DEF Held, OnTimerReturns, IInv, TypeOK, Places
<1>3. TypeOK'
  BY <1>1, TimerAssumption
     DEF IInv, TypeOK, OnTimerReturns, ReleaseTimer, Levels, clock
<1>4. \A u \in Timers : u # pTimer => PlaceOf(u)' = PlaceOf(u)
  BY DEF IInv, TypeOK, OnTimerReturns, ReleaseTimer, PlaceOf, Place, clock
<1>5. FoundWhereSought'
  <2>1. ASSUME NEW q \in Places, NEW u \in held'[q] PROVE PlaceOf(u)' = q
    <3>1. u \in held[q] /\ u \in Held
      BY DEF OnTimerReturns, Held, Places
    <3> QED BY <1>1, <1>2, <1>4, <3>1 DEF IInv, FoundWhereSought
  <2> QED BY <1>1, <2>1 DEF FoundWhereSought
<1>6. UsedMeansHeld'
  <2>1. inUse' = Held' \cup m_bCalling' /\ Held' \cap m_bCalling' = {}
    BY <1>1, <1>2 DEF IInv, UsedMeansHeld, OnTimerReturns, ReleaseTimer
  <2>2. m_bCalling' = {u \in Timers : u = pTimer'}
    BY <1>1, TimerAssumption DEF OnTimerReturns
  <2>3. \A u \in Timers \ inUse' : m_emLevel'[u] = "normal" /\ m_tEnd'[u] = 0
    BY <1>1 DEF IInv, TypeOK, UsedMeansHeld, OnTimerReturns, ReleaseTimer
  <2> QED BY <2>1, <2>2, <2>3 DEF UsedMeansHeld
<1> QED BY <1>1, <1>2, <1>3, <1>5, <1>6 DEF IInv

LEMMA CheckHighTimerEndsIInv == ASSUME IInv, CheckHighTimerEnds PROVE IInv'
<1>1. \A t : PlaceOf(t)' = PlaceOf(t)
  BY DEF CheckHighTimerEnds, timer, clock, PlaceOf, Place
<1>2. TypeOK'
  BY DEF IInv, TypeOK, CheckHighTimerEnds, timer, clock
<1>3. FoundWhereSought'
  BY <1>1 DEF IInv, FoundWhereSought, CheckHighTimerEnds, timer
<1>4. UsedMeansHeld'
  BY DEF IInv, UsedMeansHeld, Held, CheckHighTimerEnds, timer
<1> QED BY <1>2, <1>3, <1>4 DEF IInv

(* The boundary moves by an hour and takes along what lies before it. *)
LEMMA CheckTimerEndsIInv ==
  ASSUME IInv, CheckTimerEnds
  PROVE  IInv' /\ Held' = Held
<1>1. CASE m_tNow >= m_tNextHour
  <2> DEFINE hour == m_tNextHour + HOUR
             near == {t \in held.far : m_tEnd[t] < hour}
  <2>1. m_tNextHour' = hour /\ held' = [held EXCEPT !.far = @ \ near, !.near = @ \cup near]
    BY <1>1 DEF CheckTimerEnds, HourStep, ArrangeTimer
  <2>2. hour \in Nat \ {0} /\ hour > m_tNextHour /\ m_tNextHour \in Nat
    BY TimerAssumption DEF IInv, TypeOK
  <2>3. /\ held'["near"] = held["near"] \cup near /\ held'["far"] = held["far"] \ near
        /\ held'["high"] = held["high"]
    BY <2>1 DEF IInv, TypeOK, Places
  <2>4. TypeOK'
    BY <2>1, <2>2 DEF IInv, TypeOK, CheckTimerEnds, timer, Places
  <2>5. FoundWhereSought'
    <3>1. ASSUME NEW q \in Places, NEW u \in held'[q] PROVE PlaceOf(u)' = q
      <4>1. u \in Timers /\ m_tEnd[u] \in Nat
        BY <2>4, TimerAssumption DEF IInv, TypeOK, CheckTimerEnds, timer
      <4>2. \A r \in Places : u \in held[r] => PlaceOf(u) = r
        BY DEF IInv, FoundWhereSought
      <4>3. CASE q = "near"
        BY <2>1, <2>2, <2>3, <4>1, <4>2, <4>3
           DEF CheckTimerEnds, timer, PlaceOf, Place, Places
      <4>4. CASE q = "far"
        BY <2>1, <2>2, <2>3, <4>1, <4>2, <4>4
           DEF CheckTimerEnds, timer, PlaceOf, Place, Places
      <4>5. CASE q = "high"
        BY <2>1, <2>2, <2>3, <4>1, <4>2, <4>5
           DEF CheckTimerEnds, timer, PlaceOf, Place, Places
      <4> QED BY <4>3, <4>4, <4>5 DEF Places
    <3>2. m_bCalling' = {}
      BY TimerAssumption DEF IInv, UsedMeansHeld, CheckTimerEnds, timer
    <3> QED BY <3>1, <3>2 DEF FoundWhereSought
  <2>6. Held' = Held
    BY <2>3 DEF Held
  <2>7. UsedMeansHeld'
    BY <2>6 DEF IInv, UsedMeansHeld, CheckTimerEnds, timer
  <2> QED BY <2>4, <2>5, <2>6, <2>7 DEF IInv
<1>2. CASE ~(m_tNow >= m_tNextHour)
  <2>1. \A t : PlaceOf(t)' = PlaceOf(t)
    BY <1>2 DEF CheckTimerEnds, HourStep, timer, PlaceOf, Place
  <2>2. TypeOK'
    BY <1>2 DEF IInv, TypeOK, CheckTimerEnds, HourStep, timer
  <2>3. FoundWhereSought'
    BY <1>2, <2>1 DEF IInv, FoundWhereSought, CheckTimerEnds, HourStep, timer
  <2>4. UsedMeansHeld' /\ Held' = Held
    BY <1>2 DEF IInv, UsedMeansHeld, Held, CheckTimerEnds, HourStep, timer
  <2> QED BY <2>2, <2>3, <2>4 DEF IInv
<1> QED BY <1>1, <1>2

LEMMA StutterIInv == ASSUME IInv, UNCHANGED vars PROVE IInv'
<1>1. \A t : PlaceOf(t)' = PlaceOf(t)
  BY DEF vars, PlaceOf, Place
<1>2. TypeOK' /\ FoundWhereSought' /\ UsedMeansHeld'
  BY <1>1 DEF IInv, TypeOK, FoundWhereSought, UsedMeansHeld, Held, vars
<1> QED BY <1>2 DEF IInv

LEMMA NextIInv == IInv /\ [Next]_vars => IInv'
<1> SUFFICES ASSUME IInv, [Next]_vars PROVE IInv'
  OBVIOUS
<1> QED BY SetNewTimerIInv, RemoveTimerIInv, UpdateTimerIInv, TickIInv, FireIInv,
           OnTimerReturnsIInv, CheckHighTimerEndsIInv, CheckTimerEndsIInv,
           StutterIInv DEF Next

(* The inductive invariant holds throughout. *)
THEOREM InvariantHolds == Spec => []IInv
BY InitIInv, NextIInv, PTL DEF Spec

(* Every variable keeps its type, and OnTimer runs only inside a check. *)
THEOREM TypeCorrect == Spec => []TypeOK
BY InvariantHolds, PTL DEF IInv

(* RemoveTimer and UpdateTimer look for a timer where it is, whatever      *)
(* boundary the tick has moved since it was put there.                     *)
THEOREM NeverMissed == Spec => []FoundWhereSought
BY InvariantHolds, PTL DEF IInv

(* No timer is leaked, and none is back in the pool while a set or a       *)
(* callback still has it.                                                  *)
THEOREM PoolIsRight == Spec => []UsedMeansHeld
BY InvariantHolds, PTL DEF IInv

----------------------------------------------------------------------------
LEMMA ArmedIsHeld == IInv => Clock!Armed = Held
BY DEF IInv, TypeOK, Held, Places, Levels, Alarms, Clock!Armed, Clock!Off

LEMMA InitRefines == Init => Clock!AlarmInit
BY DEF Init, Held, Places, Alarms, Clock!AlarmInit, Clock!Off

(* What leaves the timers that are held alone leaves the alarms alone. *)
LEMMA SameAlarms ==
  ASSUME Held' = Held,
         \A t \in Held : m_emLevel'[t] = m_emLevel[t] /\ m_tEnd'[t] = m_tEnd[t]
  PROVE  Alarms' = Alarms
BY DEF Alarms

(* What takes one timer out of what is held takes its alarm away. *)
LEMMA AlarmTaken ==
  ASSUME NEW t \in Timers, Held' = Held \ {t},
         \A u \in Held : u # t => m_emLevel'[u] = m_emLevel[u] /\ m_tEnd'[u] = m_tEnd[u]
  PROVE  Alarms' = [Alarms EXCEPT ![t] = Clock!Off]
BY DEF Alarms, Clock!Off

LEMMA StepRefines == IInv /\ [Next]_vars => [Clock!AlarmNext]_(Clock!alarmVars)
<1> SUFFICES ASSUME IInv, [Next]_vars
             PROVE  Clock!AlarmNext \/ UNCHANGED Clock!alarmVars
  OBVIOUS
<1> USE DEF Clock!alarmVars
<1>1. ASSUME NEW t \in Timers, NEW level \in Levels, NEW end \in Times,
             SetNewTimer(t, level, end)
      PROVE  Clock!Set(t, level, end)
  <2>1. Held' = Held \cup {t} /\ t \notin Held \cup m_bCalling
    BY <1>1, SetNewTimerIInv
  <2>2. Alarms' = [Alarms EXCEPT ![t] = [level |-> level, end |-> end]]
    BY <1>1, <2>1 DEF SetNewTimer, Alarms, IInv, TypeOK
  <2> QED BY <1>1, <2>1, <2>2, ArmedIsHeld DEF Clock!Set, SetNewTimer, clock
<1>2. ASSUME NEW t \in Timers, NEW end \in Times, UpdateTimer(t, end)
      PROVE  Clock!Change(t, end)
  <2>1. t \in Held /\ Held' = Held /\ m_tEnd' = [m_tEnd EXCEPT ![t] = end]
    BY <1>2, UpdateTimerIInv
  <2>2. Alarms' = [Alarms EXCEPT ![t] = [level |-> Alarms[t].level, end |-> end]]
    BY <1>2, <2>1 DEF UpdateTimer, Alarms, IInv, TypeOK
  <2> QED BY <1>2, <2>1, <2>2, ArmedIsHeld DEF Clock!Change, UpdateTimer, clock
<1>3. ASSUME NEW t \in Timers, RemoveTimer(t)
      PROVE  Clock!Cancel(t) \/ UNCHANGED Clock!alarmVars
  <2>1. Held' = Held \ {t} /\ m_bCalling' = m_bCalling /\ m_tNow' = m_tNow
    BY <1>3, RemoveTimerIInv DEF RemoveTimer, clock
  <2>2. \A u \in Held : u # t => m_emLevel'[u] = m_emLevel[u] /\ m_tEnd'[u] = m_tEnd[u]
    BY <1>3, HeldOnce DEF RemoveTimer, ReleaseTimer, IInv, TypeOK
  <2>3. CASE t \in Held
    BY <2>1, <2>2, <2>3, AlarmTaken, ArmedIsHeld DEF Clock!Cancel
  <2>4. CASE t \notin Held
    BY <2>1, <2>2, <2>4, SameAlarms
  <2> QED BY <2>3, <2>4
<1>4. ASSUME NEW t \in Timers, Fire(t) PROVE Clock!Ring(t)
  <2>1. /\ Held' = Held \ {t} /\ t \in held[checking] /\ t \in Held
        /\ checking \in {"near", "high"}
        /\ m_bCalling = {} /\ m_bCalling' = {t}
    BY <1>4, FireIInv DEF Fire, IInv, TypeOK, Held
  <2>2. Alarms' = [Alarms EXCEPT ![t] = Clock!Off] /\ m_tNow' = m_tNow
    BY <1>4, <2>1, AlarmTaken DEF Fire, clock
  <2>3. \A u \in Held : Alarms[u].level = m_emLevel[u] /\ Alarms[u].end = m_tEnd[u]
    BY HeldOnce DEF Alarms
  <2>4. m_tEnd[t] <= m_tNow
    BY <1>4 DEF Fire, DueFirst
  <2>5. ASSUME NEW u \in Held, m_emLevel[u] = m_emLevel[t] PROVE m_tEnd[t] <= m_tEnd[u]
    <3>1. u \in Timers /\ u \in held[PlaceOf(u)] /\ PlaceOf(t) = checking
      BY <2>1, HeldOnce DEF Places
    <3>2. CASE PlaceOf(u) = checking
      BY <1>4, <3>1, <3>2 DEF Fire, DueFirst, First
    <3>3. CASE PlaceOf(u) # checking
      <4>1. /\ m_tEnd[t] \in Nat /\ m_tEnd[u] \in Nat /\ m_tNextHour \in Nat
        BY <3>1, TimerAssumption DEF IInv, TypeOK
      <4>2. m_emLevel[t] # "high" /\ m_tEnd[t] < m_tNextHour
        BY <2>1, <2>5, <3>1, <3>3 DEF PlaceOf, Place
      <4>3. ~(m_tEnd[u] < m_tNextHour)
        BY <2>1, <2>5, <3>1, <3>3, <4>2 DEF PlaceOf, Place
      <4> QED BY <4>1, <4>2, <4>3
    <3> QED BY <3>2, <3>3
  <2> QED BY <2>1, <2>2, <2>3, <2>4, <2>5, ArmedIsHeld DEF Clock!Ring
<1>5. CASE OnTimerReturns
  <2>1. Held' = Held /\ m_bCalling # {} /\ m_bCalling' = {} /\ m_tNow' = m_tNow
    BY <1>5, OnTimerReturnsIInv DEF OnTimerReturns, clock
  <2>2. \A u \in Held : u \in Timers /\ u # pTimer
    BY HeldOnce DEF IInv, UsedMeansHeld
  <2>3. Alarms' = Alarms
    BY <1>5, <2>1, <2>2, SameAlarms DEF OnTimerReturns, ReleaseTimer, IInv, TypeOK
  <2> QED BY <2>1, <2>3 DEF Clock!AlarmNext, Clock!RingingEnds
<1>6. CASE Tick
  BY <1>6, SameAlarms DEF Tick, timer, Held, Clock!AlarmNext, Clock!ReadClock
<1>7. CASE CheckHighTimerEnds
  BY <1>7, SameAlarms DEF CheckHighTimerEnds, timer, clock, Held
<1>8. CASE CheckTimerEnds
  BY <1>8, CheckTimerEndsIInv, SameAlarms DEF CheckTimerEnds, timer
<1>9. CASE UNCHANGED vars
  BY <1>9, SameAlarms DEF vars, Held
<1> QED BY <1>1, <1>2, <1>3, <1>4, <1>5, <1>6, <1>7, <1>8, <1>9
     DEF Next, Clock!AlarmNext

(* Every timer rings once, not before its end and in the order of the      *)
(* ends, for any timers, any times and any behaviour of the callbacks.     *)
THEOREM HandlerIsAlarmClock == Spec => RingsInOrder
BY InvariantHolds, InitRefines, StepRefines, PTL DEF Spec, RingsInOrder, Clock!AlarmSpec
=============================================================================
