------------------------------ MODULE Executor ------------------------------
(***************************************************************************)
(* What the event loop and its message queues promise their users: each    *)
(* queue's messages are handled one at a time by a single executor, each   *)
(* once and in the order they were added, and while some message is        *)
(* waiting the executor does not stop.  Nothing is said about which queue  *)
(* goes first.  There are no events, semaphores or locks at this level.    *)
(***************************************************************************)
EXTENDS Naturals, Sequences

CONSTANTS Queues, Msgs, NoMsg

VARIABLES
  pending,   (* [Queues -> Seq(Msgs)]: added and not yet taken  *)
  running    (* the message being handled, or NoMsg             *)

execVars == <<pending, running>>

ExecInit ==
  /\ pending = [q \in Queues |-> << >>]
  /\ running = NoMsg

Enqueue(q, m) ==
  /\ pending' = [pending EXCEPT ![q] = Append(@, m)]
  /\ UNCHANGED running

Start(q) ==
  /\ running = NoMsg
  /\ pending[q] # << >>
  /\ running' = Head(pending[q])
  /\ pending' = [pending EXCEPT ![q] = Tail(@)]

Finish ==
  /\ running # NoMsg
  /\ running' = NoMsg
  /\ UNCHANGED pending

ExecNext ==
  \/ \E q \in Queues, m \in Msgs : Enqueue(q, m)
  \/ \E q \in Queues : Start(q)
  \/ Finish

ExecSafe == ExecInit /\ [][ExecNext]_execVars

ExecSpec ==
  /\ ExecSafe
  /\ WF_execVars(\E q \in Queues : Start(q))
  /\ WF_execVars(Finish)
=============================================================================
