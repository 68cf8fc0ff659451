--------------------------- MODULE RequestService ---------------------------
(***************************************************************************)
(* What the database workers promise the main thread: a request is put in  *)
(* the row of one connection; a row is worked off from its head, which is  *)
(* tried again after each refusal until it succeeds or has been refused    *)
(* too often; its one outcome is then queued and handed over.  There are   *)
(* no threads, semaphores, events or locks at this level.                  *)
(***************************************************************************)
EXTENDS Naturals, Sequences

CONSTANTS Lanes, Reqs, Tries

VARIABLES
  issued,      (* requests made so far; they are numbered             *)
  row,         (* per lane: the requests without an outcome handed in *)
  calling,     (* the request the caller itself waits for, or 0       *)
  refusals,    (* per request                                         *)
  outcome,     (* per request: "none", "ok" or "error"                *)
  answers,     (* requests whose outcome waits for the caller         *)
  told         (* requests whose outcome the caller has got, in order *)

serviceVars == <<issued, row, calling, refusals, outcome, answers, told>>

ServiceInit ==
  /\ issued = 0 /\ calling = 0
  /\ row = [l \in Lanes |-> << >>]
  /\ refusals = [r \in Reqs |-> 0] /\ outcome = [r \in Reqs |-> "none"]
  /\ answers = << >> /\ told = << >>

Issue == calling = 0 /\ issued + 1 \in Reqs /\ issued' = issued + 1

Submit(l) ==
  /\ Issue
  /\ row' = [row EXCEPT ![l] = Append(@, issued + 1)]
  /\ UNCHANGED <<calling, refusals, outcome, answers, told>>

(* One attempt at request r. *)
Try(r) ==
  /\ outcome[r] = "none"
  /\ \/ outcome' = [outcome EXCEPT ![r] = "ok"] /\ UNCHANGED refusals
     \/ /\ refusals' = [refusals EXCEPT ![r] = @ + 1]
        /\ outcome' = IF refusals[r] + 1 < Tries THEN outcome
                                                 ELSE [outcome EXCEPT ![r] = "error"]

Perform(l) ==
  /\ row[l] # << >>
  /\ Try(Head(row[l]))
  /\ UNCHANGED <<issued, row, calling, answers, told>>

Answer(l) ==
  /\ row[l] # << >>
  /\ outcome[Head(row[l])] # "none"
  /\ answers' = Append(answers, Head(row[l]))
  /\ row' = [row EXCEPT ![l] = Tail(@)]
  /\ UNCHANGED <<issued, calling, refusals, outcome, told>>

Tell ==
  /\ calling = 0 /\ answers # << >>
  /\ told' = Append(told, Head(answers))
  /\ answers' = Tail(answers)
  /\ UNCHANGED <<issued, row, calling, refusals, outcome>>

(* A synchronous request: one attempt, whose outcome, if it is one, the    *)
(* caller gets at once.                                                    *)
Call ==
  /\ Issue
  /\ calling' = issued + 1
  /\ UNCHANGED <<row, refusals, outcome, answers, told>>

CallEnds ==
  /\ calling # 0
  /\ Try(calling)
  /\ told' = IF outcome'[calling] = "none" THEN told ELSE Append(told, calling)
  /\ calling' = 0
  /\ UNCHANGED <<issued, row, answers>>

ServiceNext ==
  \/ \E l \in Lanes : Submit(l) \/ Perform(l) \/ Answer(l)
  \/ Tell \/ Call \/ CallEnds

ServiceSpec == ServiceInit /\ [][ServiceNext]_serviceVars
=============================================================================
