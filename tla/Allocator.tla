----------------------------- MODULE Allocator -----------------------------
(***************************************************************************)
(* What the object pool promises its users, of whichever thread: an object *)
(* is idle, lent to one user, or on its way back, and never two of these;  *)
(* it is lent only when idle, or made for the purpose when none is idle.   *)
(* The stock of idle objects stays below twice the growth step.  When the  *)
(* heap fails an object may be gone, one at a time, when it is made or     *)
(* given back, and is never lent again.  There are no lists, flags, locks  *)
(* or counts at this level.                                                *)
(***************************************************************************)
EXTENDS Naturals, FiniteSets

CONSTANTS Objs, Step

VARIABLES
  idle,        (* the stock                                *)
  lent,        (* the objects users have                   *)
  returning,   (* the objects being given back             *)
  gone         (* the objects a failing heap took          *)

allocVars == <<idle, lent, returning, gone>>

AllocInit ==
  /\ idle \in SUBSET Objs /\ Cardinality(idle) = Step
  /\ lent = {} /\ returning = {} /\ gone = {}

Lend(o) ==
  /\ o \in idle
  /\ idle' = idle \ {o}
  /\ lent' = lent \cup {o}
  /\ UNCHANGED <<returning, gone>>

(* The stock is out: objects nobody has are made, and one of them is lent. *)
Grow(made, lost) ==
  /\ idle = {}
  /\ (made \cup lost) \cap (lent \cup returning \cup gone) = {}
  /\ Cardinality(made) <= Step /\ made \cap lost = {}
  /\ \/ made = {} /\ UNCHANGED <<idle, lent>>
     \/ \E o \in made : idle' = made \ {o} /\ lent' = lent \cup {o}
  /\ gone' = gone \cup lost
  /\ UNCHANGED returning

GiveBack(o) ==
  /\ o \in lent
  /\ lent' = lent \ {o}
  /\ returning' = returning \cup {o}
  /\ UNCHANGED <<idle, gone>>

(* The object joins the stock, which is cut when it would grow too large.  *)
Restock(o) ==
  /\ o \in returning
  /\ returning' = returning \ {o}
  /\ idle' \subseteq idle \cup {o}
  /\ IF Cardinality(idle \cup {o}) < 2 * Step THEN idle' = idle \cup {o}
                                              ELSE Cardinality(idle') = Step - 1
  /\ UNCHANGED <<lent, gone>>

Lose(o) ==
  /\ o \in returning
  /\ returning' = returning \ {o}
  /\ gone' = gone \cup {o}
  /\ UNCHANGED <<idle, lent>>

AllocNext ==
  \/ \E o \in Objs : Lend(o) \/ GiveBack(o) \/ Restock(o) \/ Lose(o)
  \/ \E made \in SUBSET Objs, lost \in {{}} \cup {{o} : o \in Objs} : Grow(made, lost)

AllocSpec == AllocInit /\ [][AllocNext]_allocVars
=============================================================================
