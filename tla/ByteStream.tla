----------------------------- MODULE ByteStream -----------------------------
(***************************************************************************)
(* What one connection promises the threads that send on it: a first in,   *)
(* first out channel of bytes, whatever the blocks they are kept in and    *)
(* whoever writes them.  The bytes are numbered as they are given, so that *)
(* the channel is a set: the lowest bytes leave first.  What a connection  *)
(* does not take of a message is an end of it, which it refuses, and parts *)
(* that it loses; nothing is lost of the byte that an empty channel is     *)
(* given first.  It is reported as ended after it has ended.               *)
(***************************************************************************)
EXTENDS Naturals, Sequences

CONSTANT Lengths

VARIABLES
  given,       (* bytes given so far                               *)
  channel,     (* the bytes taken that have not left               *)
  wire,        (* the bytes that left, in order                    *)
  refused,     (* the bytes not taken                              *)
  lost,        (* the bytes taken and lost                         *)
  up,
  reports      (* how often the end was reported                   *)

streamVars == <<given, channel, wire, refused, lost, up, reports>>

StreamInit ==
  /\ given = 0 /\ channel = {} /\ wire = << >>
  /\ refused = {} /\ lost = {} /\ up = TRUE /\ reports = 0

Give(len) ==
  /\ given' = given + len
  /\ \E kept \in 0..len : \E holes \in SUBSET ((given + 1)..(given + kept)) :
       /\ channel = {} => given + 1 \notin holes
       /\ channel' = channel \cup ((given + 1)..(given + kept) \ holes)
       /\ lost' = lost \cup holes
       /\ refused' = refused \cup ((given + kept + 1)..(given + len))
  /\ UNCHANGED <<wire, up, reports>>

(* The bytes from a to b, which come before all others in the channel. *)
Leave(a, b) ==
  /\ a <= b /\ a..b \subseteq channel
  /\ \A c \in channel \ (a..b) : b < c
  /\ wire' = wire \o [i \in 1..(b - a + 1) |-> a + i - 1]
  /\ channel' = channel \ (a..b)
  /\ UNCHANGED <<given, refused, lost, up, reports>>

End ==
  /\ up /\ up' = FALSE
  /\ UNCHANGED <<given, channel, wire, refused, lost, reports>>

Report ==
  /\ ~up
  /\ reports' = reports + 1
  /\ UNCHANGED <<given, channel, wire, refused, lost, up>>

StreamNext ==
  \/ \E len \in Lengths : Give(len)
  \/ \E a, b \in channel : Leave(a, b)
  \/ End \/ Report

StreamSpec == StreamInit /\ [][StreamNext]_streamVars
=============================================================================
