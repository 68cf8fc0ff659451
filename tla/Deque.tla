------------------------------- MODULE Deque -------------------------------
(***************************************************************************)
(* What CWQueue promises: a sequence of values with insertion at both ends, *)
(* removal at the front and removal of the first occurrence of a value.    *)
(***************************************************************************)
EXTENDS Naturals, Sequences

CONSTANTS Vals, NoVal

VARIABLES
  contents,   (* Seq(Vals)                          *)
  popped      (* what the last pop_front returned   *)

dequeVars == <<contents, popped>>

(* The sequence s with its i-th element taken out. *)
Without(s, i) == [j \in 1..(Len(s) - 1) |-> IF j < i THEN s[j] ELSE s[j + 1]]

DequeInit == contents = << >> /\ popped = NoVal

PushFront(v) == contents' = <<v>> \o contents /\ UNCHANGED popped
PushBack(v)  == contents' = Append(contents, v) /\ UNCHANGED popped

PopFront ==
  /\ popped' = IF contents = << >> THEN NoVal ELSE contents[1]
  /\ contents' = IF contents = << >> THEN << >> ELSE Without(contents, 1)

EraseFirst(v) ==
  \E i \in 1..Len(contents) :
    /\ contents[i] = v
    /\ \A j \in 1..(i - 1) : contents[j] # v
    /\ contents' = Without(contents, i)
    /\ UNCHANGED popped

DequeNext ==
  \/ PopFront
  \/ \E v \in Vals : PushFront(v) \/ PushBack(v) \/ EraseFirst(v)

DequeSpec == DequeInit /\ [][DequeNext]_dequeVars
=============================================================================
