------------------------------- MODULE WQueue -------------------------------
(***************************************************************************)
(* CWQueue (stl/wqueue.h): a singly linked queue with a tail pointer and a *)
(* length, over nodes of its own CPool.  Send buffers, database requests   *)
(* and database responses wait in one.  Callers hold the queue's lock (or  *)
(* one of their own) around an operation, so an operation is one action.   *)
(***************************************************************************)
EXTENDS Naturals, Sequences, FiniteSets

CONSTANTS
  Nodes,     (* the nodes the heap can give                 *)
  NULL,
  Vals,      (* what the queue holds (the program: pointers) *)
  NoVal      (* an unset value, and the NULL that pop_front returns *)

ASSUME WQueueAssumption ==
  NULL \notin Nodes /\ NoVal \notin Vals /\ IsFiniteSet(Nodes)

VARIABLES
  m_pHeadNode, m_pTailNode, m_nQueueLen,
  next,      (* _pNext of each node                         *)
  value,     (* _value of each node                         *)
  used,      (* nodes applied from m_poolNode               *)
  popped     (* what the last pop_front returned            *)

vars == <<m_pHeadNode, m_pTailNode, m_nQueueLen, next, value, used, popped>>

Init ==
  /\ m_pHeadNode = NULL /\ m_pTailNode = NULL /\ m_nQueueLen = 0
  /\ next = [n \in Nodes |-> NULL]
  /\ value = [n \in Nodes |-> NoVal]
  /\ used = {}
  /\ popped = NoVal

----------------------------------------------------------------------------
(* AllocateNode and the assignment of _value.  Without a node a push does  *)
(* nothing and reports nothing: it is a stuttering step here.              *)
Allocate(n, v) ==
  /\ n \in Nodes \ used
  /\ used' = used \cup {n}
  /\ value' = [value EXCEPT ![n] = v]

(* ReleaseNode: the pool calls Init, which clears _pNext. *)
Release(links, n) ==
  /\ used' = used \ {n}
  /\ next' = [links EXCEPT ![n] = NULL]

push_front_Uncounted(n, v) ==
  /\ Allocate(n, v)
  /\ next' = [next EXCEPT ![n] = m_pHeadNode]
  /\ m_pHeadNode' = n
  /\ m_pTailNode' = IF m_pHeadNode = NULL THEN n ELSE m_pTailNode
  /\ UNCHANGED <<m_nQueueLen, popped>>

push_front(n, v) ==
  /\ Allocate(n, v)
  /\ next' = [next EXCEPT ![n] = m_pHeadNode]
  /\ m_pHeadNode' = n
  /\ m_pTailNode' = IF m_pHeadNode = NULL THEN n ELSE m_pTailNode
  /\ m_nQueueLen' = m_nQueueLen + 1
  /\ UNCHANGED popped

push_back(n, v) ==
  /\ Allocate(n, v)
  /\ \/ /\ m_pTailNode = NULL
        /\ m_pHeadNode' = n
        /\ next' = [next EXCEPT ![n] = NULL]
     \/ /\ m_pTailNode # NULL
        /\ next' = [next EXCEPT ![n] = NULL, ![m_pTailNode] = n]
        /\ UNCHANGED m_pHeadNode
  /\ m_pTailNode' = n
  /\ m_nQueueLen' = m_nQueueLen + 1
  /\ UNCHANGED popped

(* The front node leaves: pop_front, and erase of the front value. *)
UnlinkHead ==
  /\ m_pHeadNode # NULL
  /\ m_pHeadNode' = next[m_pHeadNode]
  /\ m_pTailNode' = IF next[m_pHeadNode] = NULL THEN NULL ELSE m_pTailNode
  /\ m_nQueueLen' = IF next[m_pHeadNode] = NULL THEN 0 ELSE m_nQueueLen - 1
  /\ Release(next, m_pHeadNode)
  /\ UNCHANGED value

pop_front_ReadsNewHead ==
  /\ UnlinkHead
  /\ popped' = IF m_pHeadNode' = NULL THEN value[m_pHeadNode] ELSE value[m_pHeadNode']

pop_front ==
  /\ UnlinkHead
  /\ popped' = value[m_pHeadNode]

pop_front_empty ==
  /\ m_pHeadNode = NULL
  /\ popped' = NoVal
  /\ UNCHANGED <<m_pHeadNode, m_pTailNode, m_nQueueLen, next, value, used>>

erase_head(v) ==
  /\ UnlinkHead
  /\ value[m_pHeadNode] = v
  /\ UNCHANGED popped

(* The walk from the head along _pNext that stops at the first node with   *)
(* value v.                                                                *)
WalksTo(v) ==
  {w \in UNION {[1..n -> Nodes] : n \in 1..Cardinality(Nodes)} :
     /\ w[1] = m_pHeadNode
     /\ \A i \in 1..(Len(w) - 1) : w[i + 1] = next[w[i]] /\ value[w[i]] # v
     /\ value[w[Len(w)]] = v}

erase_inner_TailKept(v) ==
  \E w \in WalksTo(v) :
    LET i == Len(w) IN
    /\ i > 1
    /\ Release([next EXCEPT ![w[i - 1]] = next[w[i]]], w[i])
    /\ m_nQueueLen' = m_nQueueLen - 1
    /\ UNCHANGED <<m_pHeadNode, m_pTailNode, value, popped>>

erase_inner_NodeKept(v) ==
  \E w \in WalksTo(v) :
    LET i == Len(w) IN
    /\ i > 1
    /\ m_pTailNode' = IF next[w[i]] = NULL THEN w[i - 1] ELSE m_pTailNode
    /\ next' = [next EXCEPT ![w[i - 1]] = next[w[i]]]
    /\ m_nQueueLen' = m_nQueueLen - 1
    /\ UNCHANGED <<m_pHeadNode, used, value, popped>>

(* erase of a value behind the front. *)
erase_inner(v) ==
  \E w \in WalksTo(v) :
    LET i == Len(w) IN
    /\ i > 1
    /\ m_pTailNode' = IF next[w[i]] = NULL THEN w[i - 1] ELSE m_pTailNode
    /\ Release([next EXCEPT ![w[i - 1]] = next[w[i]]], w[i])
    /\ m_nQueueLen' = m_nQueueLen - 1
    /\ UNCHANGED <<m_pHeadNode, value, popped>>

Next ==
  \/ \E n \in Nodes, v \in Vals : push_front(n, v) \/ push_back(n, v)
  \/ pop_front \/ pop_front_empty
  \/ \E v \in Vals : erase_head(v) \/ erase_inner(v)

Spec == Init /\ [][Next]_vars

----------------------------------------------------------------------------
TypeOK ==
  /\ m_pHeadNode \in Nodes \cup {NULL} /\ m_pTailNode \in Nodes \cup {NULL}
  /\ m_nQueueLen \in Nat
  /\ next \in [Nodes -> Nodes \cup {NULL}]
  /\ value \in [Nodes -> Vals \cup {NoVal}]
  /\ used \in SUBSET Nodes
  /\ popped \in Vals \cup {NoVal}

(* w is what a walk from the head along _pNext meets, up to a NULL link,   *)
(* and the tail pointer names its end.                                     *)
IsWalk(w) ==
  /\ m_pHeadNode = IF w = << >> THEN NULL ELSE w[1]
  /\ m_pTailNode = IF w = << >> THEN NULL ELSE w[Len(w)]
  /\ \A i \in 1..Len(w) :
       next[w[i]] = IF i = Len(w) THEN NULL ELSE w[i + 1]

(* The nodes of w are the ones applied from the pool and not yet returned, *)
(* each once; a pooled node points nowhere.                                *)
Owns(w) ==
  /\ used = {w[i] : i \in 1..Len(w)}
  /\ \A i, j \in 1..Len(w) : w[i] = w[j] => i = j
  /\ \A n \in Nodes \ used : next[n] = NULL
  /\ \A i \in 1..Len(w) : value[w[i]] \in Vals

(* Whatever mix of pushes, pops and erases led here, the walk from the     *)
(* head ends, at the tail, after m_nQueueLen nodes.                        *)
Linked == \E w \in [1..m_nQueueLen -> Nodes] : IsWalk(w)

(* The queue links exactly the nodes it took from its pool: none is leaked *)
(* and none is linked after it was released.                               *)
NodesOwned == \A w \in [1..m_nQueueLen -> Nodes] : IsWalk(w) => Owns(w)

IInv == TypeOK /\ Linked /\ NodesOwned

(* The queue implements the abstract one.                                  *)
Chain == CHOOSE w \in [1..m_nQueueLen -> Nodes] : IsWalk(w)
Contents == [i \in 1..m_nQueueLen |-> value[Chain[i]]]
Abstract == INSTANCE Deque WITH contents <- Contents
ImplementsDeque == Abstract!DequeSpec
=============================================================================
