----------------------------- MODULE AlarmClock -----------------------------
(***************************************************************************)
(* What ITIMERHANDLER promises its users: a timer that is set rings once,  *)
(* not before its end, and after every timer of its level that ends        *)
(* earlier.  There are no lists, no hours and no pool at this level.       *)
(***************************************************************************)
EXTENDS Naturals

CONSTANTS Timers, Levels, Times

VARIABLES
  alarm,     (* per timer, its level and end, or Off              *)
  ringing,   (* the timer whose user is being told: none or one   *)
  now        (* the last reading of the clock                     *)

alarmVars == <<alarm, ringing, now>>

Off == [level |-> "off", end |-> 0]
Armed == {t \in Timers : alarm[t] # Off}

AlarmInit ==
  /\ alarm = [t \in Timers |-> Off]
  /\ ringing = {}
  /\ now \in Times

Set(t, level, end) ==
  /\ t \notin Armed \cup ringing
  /\ alarm' = [alarm EXCEPT ![t] = [level |-> level, end |-> end]]
  /\ UNCHANGED <<ringing, now>>

Change(t, end) ==
  /\ t \in Armed
  /\ alarm' = [alarm EXCEPT ![t] = [level |-> alarm[t].level, end |-> end]]
  /\ UNCHANGED <<ringing, now>>

Cancel(t) ==
  /\ t \in Armed
  /\ alarm' = [alarm EXCEPT ![t] = Off]
  /\ UNCHANGED <<ringing, now>>

Ring(t) ==
  /\ ringing = {}
  /\ t \in Armed /\ alarm[t].end <= now
  /\ \A u \in Armed : alarm[u].level = alarm[t].level => alarm[t].end <= alarm[u].end
  /\ ringing' = {t}
  /\ alarm' = [alarm EXCEPT ![t] = Off]
  /\ UNCHANGED now

RingingEnds == ringing # {} /\ ringing' = {} /\ UNCHANGED <<alarm, now>>

(* The wall clock: it may jump, and it may be set back. *)
ReadClock == now' \in Times /\ UNCHANGED <<alarm, ringing>>

AlarmNext ==
  \/ \E t \in Timers : Cancel(t) \/ Ring(t)
  \/ \E t \in Timers, level \in Levels, end \in Times : Set(t, level, end)
  \/ \E t \in Timers, end \in Times : Change(t, end)
  \/ RingingEnds \/ ReadClock

AlarmSpec == AlarmInit /\ [][AlarmNext]_alarmVars
=============================================================================
