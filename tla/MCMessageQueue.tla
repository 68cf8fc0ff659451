--------------------------- MODULE MCMessageQueue ---------------------------
(* Values for model-checking MessageQueue. *)
EXTENDS MessageQueue, TLC

CONSTANTS q1, q2, q3

(* Two queues with events of their own, and one whose host gave it the     *)
(* event of the first: whichever of the two registers first has it.        *)
OneSharedEvent == (q1 :> 0) @@ (q2 :> 1) @@ (q3 :> 0)

(* Both counts that Create can leave. *)
EitherBuild == {0, 1}
=============================================================================
