---------------------------- MODULE WQueueProofs ----------------------------
(***************************************************************************)
(* Proofs that CWQueue's pointers always describe a list, and that the     *)
(* list behaves as a double-ended queue, for any set of nodes and values.  *)
(*                                                                         *)
(* The argument: the walk from the head is unique (two walks of one length *)
(* agree, by the least index at which they could differ), so it is enough  *)
(* to exhibit, after each operation, one walk that owns its nodes.         *)
(***************************************************************************)
EXTENDS WQueue, TLAPS, SequenceTheorems, WellFoundedInduction

USE WQueueAssumption

(* A set of naturals that is not empty has a least element. *)
LEMMA LeastElement ==
  ASSUME NEW T \in SUBSET Nat, T # {}
  PROVE  \E x \in T : \A y \in T : x <= y
<1> DEFINE R == OpToRel(<, Nat)
<1>1. IsWellFoundedOn(R, Nat) BY NatLessThanWellFounded
<1>2. PICK x \in T : \A y \in T : ~(<<y, x>> \in R) BY <1>1, WFMin
<1>3. \A y \in T : x <= y
  <2> SUFFICES ASSUME NEW y \in T, ~(x <= y) PROVE FALSE OBVIOUS
  <2>1. y < x /\ y \in Nat /\ x \in Nat OBVIOUS
  <2>2. <<y, x>> \in R BY <2>1 DEF OpToRel
  <2> QED BY <1>2, <2>2
<1> QED BY <1>3

(* w is a walk of n nodes along the links from head, up to a NULL link. *)
WalkOf(n, links, head, w) ==
  /\ w \in [1..n -> Nodes]
  /\ n > 0 => w[1] = head
  /\ \A i \in 1..n : i < n => w[i + 1] = links[w[i]]

(* A walk is determined by where it starts and how long it is. *)
LEMMA WalkUnique ==
  ASSUME NEW n \in Nat, NEW links, NEW head, NEW u, NEW w,
         WalkOf(n, links, head, u), WalkOf(n, links, head, w)
  PROVE  u = w
<1> DEFINE T == {i \in 1..n : u[i] # w[i]}
<1>1. SUFFICES T = {}
  BY DEF WalkOf
<1>2. SUFFICES ASSUME T # {} PROVE FALSE OBVIOUS
<1>3. T \in SUBSET Nat OBVIOUS
<1>4. PICK x \in T : \A y \in T : x <= y BY <1>2, <1>3, LeastElement
<1>5. x \in 1..n /\ u[x] # w[x] BY <1>4
<1>6. x # 1 BY <1>5 DEF WalkOf
<1>7. x - 1 \in 1..n /\ x - 1 < n /\ x - 1 + 1 = x BY <1>5, <1>6
<1>8. u[x - 1] = w[x - 1]
  <2>1. ~(x <= x - 1) BY <1>5
  <2> QED BY <1>4, <1>7, <2>1
<1>9. u[x] = links[u[x - 1]] /\ w[x] = links[w[x - 1]] BY <1>7 DEF WalkOf
<1> QED BY <1>5, <1>8, <1>9

----------------------------------------------------------------------------
(* The walk of the queue, with all that is known of it. *)
Rep(w) == w \in [1..m_nQueueLen -> Nodes] /\ IsWalk(w) /\ Owns(w)

LEMMA RepIsChain ==
  ASSUME m_nQueueLen \in Nat, NEW w, Rep(w)
  PROVE  Chain = w /\ Linked /\ NodesOwned
<1>1. w \in [1..m_nQueueLen -> Nodes] /\ IsWalk(w) /\ Owns(w) BY DEF Rep
<1>2. ASSUME NEW u \in [1..m_nQueueLen -> Nodes], IsWalk(u)
      PROVE  u = w
  <2>1. WalkOf(m_nQueueLen, next, m_pHeadNode, u) BY <1>2 DEF IsWalk, WalkOf
  <2>2. WalkOf(m_nQueueLen, next, m_pHeadNode, w) BY <1>1 DEF IsWalk, WalkOf
  <2> QED BY <2>1, <2>2, WalkUnique
<1> QED BY <1>1, <1>2 DEF Chain, Linked, NodesOwned

(* The same, one step later. *)
LEMMA RepIsChainNext ==
  ASSUME m_nQueueLen' \in Nat, NEW w, Rep(w)'
  PROVE  Chain' = w /\ Linked' /\ NodesOwned'
<1>1. w \in [1..m_nQueueLen' -> Nodes] /\ IsWalk(w)' /\ Owns(w)' BY DEF Rep
<1>2. ASSUME NEW u \in [1..m_nQueueLen' -> Nodes], IsWalk(u)'
      PROVE  u = w
  <2>1. WalkOf(m_nQueueLen', next', m_pHeadNode', u) BY <1>2 DEF IsWalk, WalkOf
  <2>2. WalkOf(m_nQueueLen', next', m_pHeadNode', w) BY <1>1 DEF IsWalk, WalkOf
  <2> QED BY <2>1, <2>2, WalkUnique
<1> QED BY <1>1, <1>2 DEF Chain, Linked, NodesOwned

LEMMA ChainIsRep == IInv => Rep(Chain)
<1> SUFFICES ASSUME IInv PROVE Rep(Chain) OBVIOUS
<1>1. PICK w \in [1..m_nQueueLen -> Nodes] : IsWalk(w) BY DEF IInv, Linked
<1>2. Rep(w) BY <1>1 DEF IInv, NodesOwned, Rep
<1>3. Chain = w BY <1>2, RepIsChain DEF IInv, TypeOK
<1> QED BY <1>2, <1>3

----------------------------------------------------------------------------
(* What each operation does to the walk. *)
Pushed(n, w)  == [i \in 1..(Len(w) + 1) |-> IF i = 1 THEN n ELSE w[i - 1]]
Queued(n, w)  == [i \in 1..(Len(w) + 1) |-> IF i = Len(w) + 1 THEN n ELSE w[i]]
Cut(w, k) == [j \in 1..(Len(w) - 1) |-> IF j < k THEN w[j] ELSE w[j + 1]]

(* All that is known of a queue whose walk is w. *)
Described(w) ==
  /\ m_nQueueLen \in Nat /\ Len(w) = m_nQueueLen
  /\ w \in [1..m_nQueueLen -> Nodes]
  /\ m_nQueueLen = 0 => m_pHeadNode = NULL /\ m_pTailNode = NULL
  /\ m_nQueueLen > 0 => /\ m_pHeadNode = w[1] /\ m_pTailNode = w[m_nQueueLen]
                       /\ m_pHeadNode \in Nodes /\ m_pTailNode \in Nodes
  /\ \A i \in 1..m_nQueueLen :
       next[w[i]] = IF i = m_nQueueLen THEN NULL ELSE w[i + 1]
  /\ used = {w[i] : i \in 1..m_nQueueLen}
  /\ \A i, j \in 1..m_nQueueLen : w[i] = w[j] => i = j
  /\ \A n \in Nodes \ used : next[n] = NULL
  /\ \A i \in 1..m_nQueueLen : value[w[i]] \in Vals

LEMMA RepFacts ==
  ASSUME TypeOK, NEW w, Rep(w)
  PROVE  Described(w)
<1>1. m_nQueueLen \in Nat /\ Len(w) = m_nQueueLen /\ w \in [1..m_nQueueLen -> Nodes]
  BY DEF TypeOK, Rep
<1>2. ASSUME m_nQueueLen = 0 PROVE m_pHeadNode = NULL /\ m_pTailNode = NULL
  <2>1. w = << >> BY <1>1, <1>2
  <2> QED BY <2>1 DEF Rep, IsWalk
<1>3. ASSUME m_nQueueLen > 0
      PROVE  /\ m_pHeadNode = w[1] /\ m_pTailNode = w[m_nQueueLen]
             /\ m_pHeadNode \in Nodes /\ m_pTailNode \in Nodes
  <2>1. w # << >> BY <1>1, <1>3
  <2> QED BY <1>1, <1>3, <2>1 DEF Rep, IsWalk
<1> QED BY <1>1, <1>2, <1>3 DEF Described, Rep, IsWalk, Owns

(* To exhibit a representation of the next state. *)
LEMMA RepNext ==
  ASSUME m_nQueueLen' \in Nat, NEW s \in [1..m_nQueueLen' -> Nodes],
         m_nQueueLen' = 0 => m_pHeadNode' = NULL /\ m_pTailNode' = NULL,
         m_nQueueLen' > 0 => m_pHeadNode' = s[1] /\ m_pTailNode' = s[m_nQueueLen'],
         \A i \in 1..m_nQueueLen' :
            next'[s[i]] = IF i = m_nQueueLen' THEN NULL ELSE s[i + 1],
         used' = {s[i] : i \in 1..m_nQueueLen'},
         \A i, j \in 1..m_nQueueLen' : s[i] = s[j] => i = j,
         \A n \in Nodes \ used' : next'[n] = NULL,
         \A i \in 1..m_nQueueLen' : value'[s[i]] \in Vals
  PROVE  Rep(s)'
<1>1. Len(s) = m_nQueueLen' OBVIOUS
<1>2. m_nQueueLen' = 0 <=> s = << >> BY <1>1
<1>3. IsWalk(s)' BY <1>1, <1>2 DEF IsWalk
<1>4. Owns(s)' BY <1>1 DEF Owns
<1> QED BY <1>3, <1>4 DEF Rep

LEMMA PushFrontRep ==
  ASSUME TypeOK, NEW w, Rep(w), NEW n \in Nodes, NEW v \in Vals, push_front(n, v)
  PROVE  TypeOK' /\ Rep(Pushed(n, w))' /\ m_nQueueLen' = m_nQueueLen + 1
<1>1. /\ n \notin used /\ used' = used \cup {n}
      /\ value' = [value EXCEPT ![n] = v]
      /\ next' = [next EXCEPT ![n] = m_pHeadNode]
      /\ m_pHeadNode' = n
      /\ m_pTailNode' = IF m_pHeadNode = NULL THEN n ELSE m_pTailNode
      /\ m_nQueueLen' = m_nQueueLen + 1
      /\ UNCHANGED popped
  BY DEF push_front, Allocate
<1>2. TypeOK' BY <1>1 DEF TypeOK
<1> DEFINE k == m_nQueueLen
<1>3. /\ k \in Nat /\ Len(w) = k /\ w \in [1..k -> Nodes]
      /\ k = 0 => m_pHeadNode = NULL
      /\ k > 0 => m_pHeadNode = w[1] /\ m_pTailNode = w[k] /\ m_pHeadNode \in Nodes
      /\ \A i \in 1..k : next[w[i]] = IF i = k THEN NULL ELSE w[i + 1]
      /\ used = {w[i] : i \in 1..k}
      /\ \A i, j \in 1..k : w[i] = w[j] => i = j
      /\ \A x \in Nodes \ used : next[x] = NULL
      /\ \A i \in 1..k : value[w[i]] \in Vals
  BY RepFacts DEF Described
<1>4. PICK s : s = Pushed(n, w) OBVIOUS
<1>5. /\ s \in [1..(k + 1) -> Nodes] /\ s[1] = n
      /\ \A i \in 1..k : s[i + 1] = w[i]
      /\ \A i \in 2..(k + 1) : i - 1 \in 1..k /\ s[i] = w[i - 1]
  BY <1>3, <1>4 DEF Pushed
<1>6. \A i \in 1..k : w[i] \in used /\ w[i] # n BY <1>1, <1>3
<1>7. k + 1 > 0 => m_pHeadNode' = s[1] /\ m_pTailNode' = s[k + 1]
  <2>1. CASE k = 0 BY <2>1, <1>1, <1>3, <1>5
  <2>2. CASE k > 0 BY <2>2, <1>1, <1>3, <1>5
  <2> QED BY <2>1, <2>2, <1>3
<1>8. ASSUME NEW i \in 1..(k + 1)
      PROVE  next'[s[i]] = IF i = k + 1 THEN NULL ELSE s[i + 1]
  <2>1. CASE i = 1
    <3>1. next'[s[i]] = m_pHeadNode BY <2>1, <1>1, <1>5 DEF TypeOK
    <3>2. CASE k = 0 BY <2>1, <3>1, <3>2, <1>3
    <3>3. CASE k > 0
      <4>1. 1 \in 1..k /\ 1 + 1 = 2 BY <3>3, <1>3
      <4>2. s[2] = w[1] BY <4>1, <1>5
      <4> QED BY <2>1, <3>1, <3>3, <4>2, <1>3
    <3> QED BY <3>2, <3>3, <1>3
  <2>2. CASE i # 1
    <3>1. i \in 2..(k + 1) /\ i - 1 \in 1..k /\ s[i] = w[i - 1] BY <2>2, <1>3, <1>5
    <3>2. next'[s[i]] = next[w[i - 1]] BY <3>1, <1>1, <1>3, <1>6 DEF TypeOK
    <3>3. next[w[i - 1]] = IF i - 1 = k THEN NULL ELSE w[i] BY <3>1, <1>3
    <3>4. CASE i = k + 1 BY <3>2, <3>3, <3>4, <1>3
    <3>5. CASE i # k + 1
      <4>1. i \in 1..k /\ s[i + 1] = w[i] BY <3>1, <3>5, <1>3, <1>5
      <4> QED BY <3>1, <3>2, <3>3, <3>5, <4>1, <1>3
    <3> QED BY <3>4, <3>5
  <2> QED BY <2>1, <2>2
<1>9. used' = {s[i] : i \in 1..(k + 1)}
  <2>1. ASSUME NEW x \in used' PROVE \E i \in 1..(k + 1) : s[i] = x
    <3>1. CASE x = n BY <3>1, <1>3, <1>5
    <3>2. CASE x # n
      <4>1. PICK i \in 1..k : x = w[i] BY <2>1, <3>2, <1>1, <1>3
      <4>2. i + 1 \in 1..(k + 1) /\ s[i + 1] = x BY <4>1, <1>3, <1>5
      <4> QED BY <4>2
    <3> QED BY <3>1, <3>2
  <2>2. ASSUME NEW i \in 1..(k + 1) PROVE s[i] \in used'
    <3>1. CASE i = 1 BY <3>1, <1>1, <1>5
    <3>2. CASE i # 1 BY <3>2, <1>1, <1>3, <1>5, <1>6
    <3> QED BY <3>1, <3>2
  <2> QED BY <2>1, <2>2
<1>10. ASSUME NEW i \in 1..(k + 1), NEW j \in 1..(k + 1), s[i] = s[j] PROVE i = j
  <2>1. CASE i = 1 /\ j = 1 BY <2>1
  <2>2. CASE i = 1 /\ j # 1 BY <2>2, <1>3, <1>5, <1>6, <1>10
  <2>3. CASE i # 1 /\ j = 1 BY <2>3, <1>3, <1>5, <1>6, <1>10
  <2>4. CASE i # 1 /\ j # 1
    <3>1. i - 1 \in 1..k /\ j - 1 \in 1..k /\ w[i - 1] = w[j - 1]
      BY <2>4, <1>3, <1>5, <1>10
    <3>2. i - 1 = j - 1 BY <3>1, <1>3
    <3> QED BY <3>2
  <2> QED BY <2>1, <2>2, <2>3, <2>4
<1>11. \A x \in Nodes \ used' : next'[x] = NULL BY <1>1, <1>3 DEF TypeOK
<1>12. ASSUME NEW i \in 1..(k + 1) PROVE value'[s[i]] \in Vals
  <2>1. CASE i = 1 BY <2>1, <1>1, <1>5 DEF TypeOK
  <2>2. CASE i # 1 BY <2>2, <1>1, <1>3, <1>5, <1>6 DEF TypeOK
  <2> QED BY <2>1, <2>2
<1>13. m_nQueueLen' = k + 1 /\ k + 1 \in Nat /\ k + 1 # 0 BY <1>1, <1>3
<1>14. Rep(s)' BY <1>5, <1>7, <1>8, <1>9, <1>10, <1>11, <1>12, <1>13, RepNext
<1> QED BY <1>1, <1>2, <1>4, <1>14

LEMMA PushBackRep ==
  ASSUME TypeOK, NEW w, Rep(w), NEW n \in Nodes, NEW v \in Vals, push_back(n, v)
  PROVE  TypeOK' /\ Rep(Queued(n, w))' /\ m_nQueueLen' = m_nQueueLen + 1
<1> DEFINE k == m_nQueueLen
<1>1. /\ n \notin used /\ used' = used \cup {n}
      /\ value' = [value EXCEPT ![n] = v]
      /\ m_pTailNode' = n
      /\ m_nQueueLen' = k + 1
      /\ UNCHANGED popped
  BY DEF push_back, Allocate
<1>2. /\ k \in Nat /\ Len(w) = k /\ w \in [1..k -> Nodes]
      /\ k = 0 => m_pHeadNode = NULL /\ m_pTailNode = NULL
      /\ k > 0 => m_pHeadNode = w[1] /\ m_pTailNode = w[k] /\ m_pTailNode \in Nodes
      /\ \A i \in 1..k : next[w[i]] = IF i = k THEN NULL ELSE w[i + 1]
      /\ used = {w[i] : i \in 1..k}
      /\ \A i, j \in 1..k : w[i] = w[j] => i = j
      /\ \A x \in Nodes \ used : next[x] = NULL
      /\ \A i \in 1..k : value[w[i]] \in Vals
  BY RepFacts DEF Described
<1>3. \A i \in 1..k : w[i] \in used /\ w[i] # n BY <1>1, <1>2
<1>4. CASE k = 0
  <2>1. m_pHeadNode' = n /\ next' = [next EXCEPT ![n] = NULL]
    BY <1>2, <1>4 DEF push_back
  <2>2. TypeOK' BY <1>1, <1>2, <2>1 DEF TypeOK
  <2>3. PICK s : s = Queued(n, w) OBVIOUS
  <2>4. s \in [1..1 -> Nodes] /\ s[1] = n BY <1>2, <1>4, <2>3 DEF Queued
  <2>5. used = {} BY <1>2, <1>4
  <2>6. used' = {s[i] : i \in 1..1} BY <1>1, <2>4, <2>5
  <2>7. \A i \in 1..1 : value'[s[i]] \in Vals BY <1>1, <2>4 DEF TypeOK
  <2>8. \A i \in 1..1 : next'[s[i]] = NULL BY <2>1, <2>4 DEF TypeOK
  <2>9. \A x \in Nodes \ used' : next'[x] = NULL BY <1>1, <1>2, <2>1 DEF TypeOK
  <2>10. m_nQueueLen' = 1 BY <1>1, <1>4
  <2>11. m_pHeadNode' = s[1] /\ m_pTailNode' = s[1] BY <1>1, <2>1, <2>4
  <2>12. Rep(s)' BY <2>4, <2>6, <2>7, <2>8, <2>9, <2>10, <2>11, RepNext
  <2> QED BY <1>1, <2>2, <2>3, <2>12
<1>5. CASE k > 0
  <2>1. m_pHeadNode' = m_pHeadNode /\ next' = [next EXCEPT ![n] = NULL, ![w[k]] = n]
    BY <1>2, <1>5 DEF push_back
  <2>2. w[k] \in Nodes /\ k \in 1..k BY <1>2, <1>5
  <2>3. TypeOK' BY <1>1, <1>2, <2>1, <2>2 DEF TypeOK
  <2>4. PICK s : s = Queued(n, w) OBVIOUS
  <2>5. /\ s \in [1..(k + 1) -> Nodes] /\ s[k + 1] = n
        /\ \A i \in 1..k : s[i] = w[i]
    BY <1>2, <2>4 DEF Queued
  <2>6. m_pHeadNode' = s[1] /\ m_pTailNode' = s[k + 1]
    BY <1>1, <1>2, <1>5, <2>1, <2>5
  <2>7. ASSUME NEW i \in 1..(k + 1)
        PROVE  next'[s[i]] = IF i = k + 1 THEN NULL ELSE s[i + 1]
    <3>1. CASE i = k + 1
      <4>1. n # w[k] BY <1>3, <2>2
      <4>2. next'[n] = NULL BY <2>1, <4>1 DEF TypeOK
      <4> QED BY <3>1, <4>2, <2>5
    <3>2. CASE i = k
      <4>1. next'[w[k]] = n BY <2>1, <2>2 DEF TypeOK
      <4> QED BY <3>2, <4>1, <2>2, <2>5, <1>2
    <3>3. CASE i \in 1..(k - 1)
      <4>1. i \in 1..k /\ i + 1 \in 1..k /\ i # k /\ i # k + 1 BY <3>3, <1>2
      <4>2. w[i] # n /\ w[i] # w[k] /\ w[i] \in Nodes BY <4>1, <1>2, <1>3, <2>2
      <4>3. next'[w[i]] = next[w[i]] BY <2>1, <4>2 DEF TypeOK
      <4> QED BY <4>1, <4>3, <1>2, <2>5
    <3> QED BY <3>1, <3>2, <3>3, <1>2
  <2>8. used' = {s[i] : i \in 1..(k + 1)}
    <3>1. ASSUME NEW x \in used' PROVE \E i \in 1..(k + 1) : s[i] = x
      <4>1. CASE x = n BY <4>1, <1>2, <2>5
      <4>2. CASE x # n
        <5>1. PICK i \in 1..k : x = w[i] BY <3>1, <4>2, <1>1, <1>2
        <5>2. i \in 1..(k + 1) /\ s[i] = x BY <5>1, <1>2, <2>5
        <5> QED BY <5>2
      <4> QED BY <4>1, <4>2
    <3>2. ASSUME NEW i \in 1..(k + 1) PROVE s[i] \in used'
      <4>1. CASE i = k + 1 BY <4>1, <1>1, <2>5
      <4>2. CASE i # k + 1
        <5>1. i \in 1..k BY <4>2, <1>2
        <5> QED BY <5>1, <1>1, <1>3, <2>5
      <4> QED BY <4>1, <4>2
    <3> QED BY <3>1, <3>2
  <2>9. ASSUME NEW i \in 1..(k + 1), NEW j \in 1..(k + 1), s[i] = s[j] PROVE i = j
    <3>1. i = k + 1 \/ (i \in 1..k /\ s[i] = w[i] /\ w[i] # n) BY <1>2, <1>3, <2>5
    <3>2. j = k + 1 \/ (j \in 1..k /\ s[j] = w[j] /\ w[j] # n) BY <1>2, <1>3, <2>5
    <3> QED BY <3>1, <3>2, <2>9, <2>5, <1>2
  <2>10. \A x \in Nodes \ used' : next'[x] = NULL
    BY <1>1, <1>2, <1>3, <2>1, <2>2 DEF TypeOK
  <2>11. ASSUME NEW i \in 1..(k + 1) PROVE value'[s[i]] \in Vals
    <3>1. CASE i = k + 1 BY <3>1, <1>1, <2>5 DEF TypeOK
    <3>2. CASE i # k + 1
      <4>1. i \in 1..k BY <3>2, <1>2
      <4> QED BY <4>1, <1>1, <1>2, <1>3, <2>5 DEF TypeOK
    <3> QED BY <3>1, <3>2
  <2>12. m_nQueueLen' = k + 1 /\ k + 1 \in Nat /\ k + 1 # 0 BY <1>1, <1>2
  <2>13. Rep(s)'
    BY <2>5, <2>6, <2>7, <2>8, <2>9, <2>10, <2>11, <2>12, RepNext
  <2> QED BY <1>1, <2>3, <2>4, <2>13
<1> QED BY <1>2, <1>4, <1>5

(* Unlinking the k-th node, and giving it back to the pool. *)
LEMMA CutRep ==
  ASSUME TypeOK, NEW w, Rep(w), NEW k \in 1..m_nQueueLen,
         m_pHeadNode' = IF k = 1 THEN next[w[1]] ELSE m_pHeadNode,
         m_pTailNode' = IF next[w[k]] = NULL
                        THEN (IF k = 1 THEN NULL ELSE w[k - 1])
                        ELSE m_pTailNode,
         m_nQueueLen' = m_nQueueLen - 1,
         next' = [(IF k = 1 THEN next ELSE [next EXCEPT ![w[k - 1]] = next[w[k]]])
                     EXCEPT ![w[k]] = NULL],
         used' = used \ {w[k]},
         value' = value,
         popped' \in Vals \cup {NoVal}
  PROVE  TypeOK' /\ Rep(Cut(w, k))'
<1> DEFINE n == m_nQueueLen
<1>1. /\ n \in Nat /\ Len(w) = n /\ w \in [1..n -> Nodes]
      /\ n > 0 => m_pHeadNode = w[1] /\ m_pTailNode = w[n]
      /\ \A i \in 1..n : next[w[i]] = IF i = n THEN NULL ELSE w[i + 1]
      /\ used = {w[i] : i \in 1..n}
      /\ \A i, j \in 1..n : w[i] = w[j] => i = j
      /\ \A x \in Nodes \ used : next[x] = NULL
      /\ \A i \in 1..n : value[w[i]] \in Vals
  BY RepFacts DEF Described
<1>2. n - 1 \in Nat /\ k \in 1..n /\ n > 0 /\ 1 \in 1..n /\ n \in 1..n BY <1>1
<1>3. w[k] \in Nodes /\ next[w[k]] \in Nodes \cup {NULL}
      /\ (k # 1 => k - 1 \in 1..n /\ w[k - 1] \in Nodes)
  BY <1>1, <1>2 DEF TypeOK
<1>4. next[w[k]] = NULL <=> k = n
  <2>1. k # n => k + 1 \in 1..n /\ w[k + 1] \in Nodes BY <1>1, <1>2
  <2> QED BY <1>1, <1>2, <2>1
<1>5. TypeOK'
  <2>1. next' \in [Nodes -> Nodes \cup {NULL}] BY <1>3 DEF TypeOK
  <2>2. m_pHeadNode' \in Nodes \cup {NULL} BY <1>1, <1>2 DEF TypeOK
  <2>3. m_pTailNode' \in Nodes \cup {NULL} BY <1>3 DEF TypeOK
  <2> QED BY <1>2, <2>1, <2>2, <2>3 DEF TypeOK
<1>6. PICK s : s = Cut(w, k) OBVIOUS
<1>7. /\ s \in [1..(n - 1) -> Nodes]
      /\ \A j \in 1..(n - 1) : s[j] = IF j < k THEN w[j] ELSE w[j + 1]
  BY <1>1, <1>6 DEF Cut
(* Each node that stays, and where it was. *)
<1> DEFINE was(j) == IF j < k THEN j ELSE j + 1
<1>8. \A j \in 1..(n - 1) : was(j) \in 1..n /\ was(j) # k /\ s[j] = w[was(j)]
  BY <1>1, <1>2, <1>7
<1>9. \A j \in 1..(n - 1) : w[was(j)] # w[k] BY <1>1, <1>2, <1>8
<1>10. ASSUME NEW j \in 1..(n - 1)
       PROVE  next'[s[j]] = IF j = n - 1 THEN NULL ELSE s[j + 1]
  <2>1. s[j] \in Nodes /\ s[j] # w[k] BY <1>7, <1>8, <1>9
  <2>2. CASE j = k - 1
    <3>1. k # 1 /\ s[j] = w[k - 1] BY <2>2, <1>2, <1>7
    <3>2. next'[s[j]] = next[w[k]] BY <2>1, <3>1, <1>3 DEF TypeOK
    <3>3. CASE k = n BY <2>2, <3>2, <3>3, <1>4
    <3>4. CASE k # n
      <4>1. next[w[k]] = w[k + 1] BY <3>4, <1>1, <1>2
      <4>2. j + 1 \in 1..(n - 1) /\ ~(j + 1 < k) /\ j + 1 = k /\ j # n - 1
        BY <2>2, <3>4, <1>2
      <4>3. s[j + 1] = w[k + 1] BY <4>2, <1>7
      <4> QED BY <3>2, <4>1, <4>2, <4>3
    <3> QED BY <3>3, <3>4
  <2>3. CASE j # k - 1
    <3>1. was(j) # k - 1 /\ was(j) \in 1..n BY <2>3, <1>2, <1>8
    <3>2. k # 1 => w[was(j)] # w[k - 1] BY <3>1, <1>1, <1>3
    <3>3. next'[s[j]] = next[w[was(j)]] BY <2>1, <3>2, <1>3, <1>8 DEF TypeOK
    <3>4. next[w[was(j)]] = IF was(j) = n THEN NULL ELSE w[was(j) + 1] BY <3>1, <1>1
    <3>5. was(j) = n <=> j = n - 1 BY <2>3, <1>2
    <3>6. j # n - 1 => j + 1 \in 1..(n - 1) /\ was(j + 1) = was(j) + 1
      BY <2>3, <1>2
    <3>7. j # n - 1 => s[j + 1] = w[was(j) + 1] BY <3>6, <1>8
    <3> QED BY <3>3, <3>4, <3>5, <3>7
  <2> QED BY <2>2, <2>3
<1>11. used' = {s[j] : j \in 1..(n - 1)}
  <2>1. ASSUME NEW x \in used' PROVE \E j \in 1..(n - 1) : s[j] = x
    <3>1. PICK i \in 1..n : x = w[i] /\ i # k BY <2>1, <1>1
    <3>2. CASE i < k
      <4>1. i \in 1..(n - 1) /\ s[i] = x BY <3>1, <3>2, <1>2, <1>7
      <4> QED BY <4>1
    <3>3. CASE i > k
      <4>1. i - 1 \in 1..(n - 1) /\ ~(i - 1 < k) /\ i - 1 + 1 = i
        BY <3>1, <3>3, <1>2
      <4>2. s[i - 1] = x BY <4>1, <3>1, <1>7
      <4> QED BY <4>1, <4>2
    <3> QED BY <3>1, <3>2, <3>3, <1>2
  <2>2. ASSUME NEW j \in 1..(n - 1) PROVE s[j] \in used' BY <1>1, <1>8, <1>9
  <2> QED BY <2>1, <2>2
<1>12. ASSUME NEW i \in 1..(n - 1), NEW j \in 1..(n - 1), s[i] = s[j] PROVE i = j
  <2>1. was(i) = was(j) BY <1>1, <1>8, <1>12
  <2> QED BY <2>1, <1>2
<1>13. ASSUME NEW x \in Nodes \ used' PROVE next'[x] = NULL
  <2>1. CASE x = w[k] BY <2>1, <1>3 DEF TypeOK
  <2>2. CASE x # w[k]
    <3>1. x \in Nodes \ used BY <2>2, <1>13
    <3>2. k # 1 => x # w[k - 1] BY <3>1, <1>1, <1>3
    <3>3. next'[x] = next[x] BY <2>2, <3>1, <3>2, <1>3 DEF TypeOK
    <3> QED BY <3>1, <3>3, <1>1
  <2> QED BY <2>1, <2>2
<1>14. \A j \in 1..(n - 1) : value'[s[j]] \in Vals BY <1>1, <1>8
<1>15. n - 1 = 0 => m_pHeadNode' = NULL /\ m_pTailNode' = NULL
  <2> SUFFICES ASSUME n = 1 PROVE m_pHeadNode' = NULL /\ m_pTailNode' = NULL
    BY <1>2
  <2>1. k = 1 /\ k = n BY <1>2
  <2> QED BY <2>1, <1>4
<1>16. n - 1 > 0 => m_pHeadNode' = s[1] /\ m_pTailNode' = s[n - 1]
  <2> SUFFICES ASSUME n > 1 PROVE m_pHeadNode' = s[1] /\ m_pTailNode' = s[n - 1]
    BY <1>2
  <2>1. 1 \in 1..(n - 1) /\ n - 1 \in 1..(n - 1) BY <1>2
  <2>2. m_pHeadNode' = s[1]
    <3>1. CASE k = 1
      <4>1. s[1] = w[2] /\ next[w[1]] = w[2] BY <3>1, <2>1, <1>1, <1>2, <1>7
      <4> QED BY <3>1, <4>1
    <3>2. CASE k # 1
      <4>1. s[1] = w[1] BY <3>2, <2>1, <1>2, <1>7
      <4> QED BY <3>2, <4>1, <1>1, <1>2
    <3> QED BY <3>1, <3>2
  <2>3. m_pTailNode' = s[n - 1]
    <3>1. CASE k = n
      <4>1. k # 1 /\ s[n - 1] = w[k - 1] BY <3>1, <2>1, <1>2, <1>7
      <4> QED BY <3>1, <4>1, <1>4
    <3>2. CASE k # n
      <4>1. s[n - 1] = w[n] BY <3>2, <2>1, <1>2, <1>7
      <4> QED BY <3>2, <4>1, <1>1, <1>2, <1>4
    <3> QED BY <3>1, <3>2
  <2> QED BY <2>2, <2>3
<1>17. m_nQueueLen' = n - 1 /\ n - 1 \in Nat BY <1>2
<1>18. s \in [1..m_nQueueLen' -> Nodes] BY <1>7, <1>17
<1>19. m_nQueueLen' = 0 => m_pHeadNode' = NULL /\ m_pTailNode' = NULL
  BY <1>15, <1>17
<1>20. m_nQueueLen' > 0 => m_pHeadNode' = s[1] /\ m_pTailNode' = s[m_nQueueLen']
  BY <1>16, <1>17
<1>21. \A i \in 1..m_nQueueLen' :
         next'[s[i]] = IF i = m_nQueueLen' THEN NULL ELSE s[i + 1]
  BY <1>10, <1>17
<1>22. used' = {s[i] : i \in 1..m_nQueueLen'} BY <1>11, <1>17
<1>23. \A i, j \in 1..m_nQueueLen' : s[i] = s[j] => i = j BY <1>12, <1>17
<1>24. \A i \in 1..m_nQueueLen' : value'[s[i]] \in Vals BY <1>14, <1>17
<1>25. Rep(s)'
  BY <1>17, <1>18, <1>19, <1>20, <1>21, <1>22, <1>23, <1>24, <1>13, RepNext
<1> QED BY <1>5, <1>6, <1>25

LEMMA UnlinkHeadRep ==
  ASSUME TypeOK, NEW w, Rep(w), UnlinkHead, popped' \in Vals \cup {NoVal}
  PROVE  /\ m_nQueueLen \in Nat \ {0}
         /\ m_pHeadNode = w[1]
         /\ m_nQueueLen' = m_nQueueLen - 1
         /\ TypeOK' /\ Rep(Cut(w, 1))'
<1>1. /\ m_nQueueLen \in Nat \ {0} /\ m_pHeadNode = w[1]
      /\ next[w[1]] = IF 1 = m_nQueueLen THEN NULL ELSE w[2]
      /\ m_nQueueLen > 1 => w[2] \in Nodes
  BY RepFacts DEF Described, UnlinkHead
<1>2. 1 \in 1..m_nQueueLen BY <1>1
<1>3. next[w[1]] = NULL <=> m_nQueueLen = 1 BY <1>1
<1>4. /\ m_pHeadNode' = next[w[1]]
      /\ m_pTailNode' = IF next[w[1]] = NULL THEN NULL ELSE m_pTailNode
      /\ m_nQueueLen' = m_nQueueLen - 1
      /\ next' = [next EXCEPT ![w[1]] = NULL]
      /\ used' = used \ {w[1]}
      /\ value' = value
  BY <1>1, <1>3 DEF UnlinkHead, Release
<1> QED BY <1>1, <1>2, <1>4, CutRep

(* The walk of erase is the beginning of the queue's walk. *)
LEMMA EraseWalk ==
  ASSUME TypeOK, NEW w, Rep(w), NEW v, NEW u \in WalksTo(v)
  PROVE  /\ Len(u) \in 1..m_nQueueLen
         /\ \A i \in 1..Len(u) : u[i] = w[i]
         /\ \A i \in 1..(Len(u) - 1) : value[w[i]] # v
         /\ value[w[Len(u)]] = v
<1> DEFINE n == m_nQueueLen
<1>1. PICK m \in 1..Cardinality(Nodes) : u \in [1..m -> Nodes] BY DEF WalksTo
<1>2. /\ m \in Nat \ {0} /\ Len(u) = m /\ u[1] = m_pHeadNode
      /\ \A i \in 1..(m - 1) : u[i + 1] = next[u[i]] /\ value[u[i]] # v
      /\ value[u[m]] = v
  BY <1>1 DEF WalksTo
<1>3. /\ n \in Nat /\ w \in [1..n -> Nodes]
      /\ n = 0 => m_pHeadNode = NULL
      /\ n > 0 => m_pHeadNode = w[1]
      /\ \A i \in 1..n : next[w[i]] = IF i = n THEN NULL ELSE w[i + 1]
  BY RepFacts DEF Described
<1>4. u[1] \in Nodes BY <1>1, <1>2
<1>5. n > 0 BY <1>2, <1>3, <1>4
<1> DEFINE T == {i \in 1..m : ~(i \in 1..n /\ u[i] = w[i])}
<1>6. T = {}
  <2> SUFFICES ASSUME T # {} PROVE FALSE OBVIOUS
  <2>1. T \in SUBSET Nat BY <1>2
  <2>2. PICK x \in T : \A y \in T : x <= y BY <2>1, LeastElement
  <2>3. x # 1 BY <2>2, <1>2, <1>3, <1>5
  <2>4. x \in 1..m /\ x - 1 \in 1..(m - 1) /\ x - 1 \in 1..m /\ x - 1 + 1 = x
    BY <2>2, <2>3, <1>2
  <2>5. x - 1 \notin T
    <3>1. ~(x <= x - 1) BY <2>4
    <3> QED BY <2>2, <3>1
  <2>6. x - 1 \in 1..n /\ u[x - 1] = w[x - 1] BY <2>4, <2>5
  <2>7. u[x] = next[w[x - 1]] /\ u[x] \in Nodes BY <2>4, <2>6, <1>1, <1>2
  <2>8. x - 1 # n /\ u[x] = w[x] BY <2>4, <2>6, <2>7, <1>3
  <2>9. x \in 1..n BY <2>4, <2>6, <2>8, <1>3
  <2> QED BY <2>2, <2>8, <2>9
<1>7. m \in 1..n /\ \A i \in 1..m : u[i] = w[i] BY <1>2, <1>6
<1> QED BY <1>2, <1>7

LEMMA EraseInnerRep ==
  ASSUME TypeOK, NEW w, Rep(w), NEW v, erase_inner(v)
  PROVE  \E k \in 1..m_nQueueLen :
           /\ value[w[k]] = v
           /\ \A i \in 1..(k - 1) : value[w[i]] # v
           /\ m_nQueueLen' = m_nQueueLen - 1
           /\ TypeOK' /\ Rep(Cut(w, k))'
<1>1. PICK u \in WalksTo(v) :
        LET i == Len(u) IN
        /\ i > 1
        /\ m_pTailNode' = IF next[u[i]] = NULL THEN u[i - 1] ELSE m_pTailNode
        /\ Release([next EXCEPT ![u[i - 1]] = next[u[i]]], u[i])
        /\ m_nQueueLen' = m_nQueueLen - 1
        /\ UNCHANGED <<m_pHeadNode, value, popped>>
  BY DEF erase_inner
<1>2. PICK k : k = Len(u) OBVIOUS
<1>3. /\ k \in 1..m_nQueueLen
      /\ \A i \in 1..k : u[i] = w[i]
      /\ \A i \in 1..(k - 1) : value[w[i]] # v
      /\ value[w[k]] = v
  BY <1>2, EraseWalk
<1>4. k > 1 /\ k \in Int /\ m_nQueueLen \in Nat BY <1>1, <1>2, <1>3 DEF TypeOK
<1>5. k \in 1..k /\ k - 1 \in 1..k /\ k # 1 BY <1>4
<1>6. u[k] = w[k] /\ u[k - 1] = w[k - 1] BY <1>3, <1>5
<1>7. /\ m_pHeadNode' = m_pHeadNode /\ value' = value /\ popped' = popped
      /\ m_pTailNode' = IF next[w[k]] = NULL THEN w[k - 1] ELSE m_pTailNode
      /\ next' = [[next EXCEPT ![w[k - 1]] = next[w[k]]] EXCEPT ![w[k]] = NULL]
      /\ used' = used \ {w[k]}
      /\ m_nQueueLen' = m_nQueueLen - 1
  BY <1>1, <1>2, <1>6 DEF Release
<1>8. popped' \in Vals \cup {NoVal} BY <1>7 DEF TypeOK
<1>9. TypeOK' /\ Rep(Cut(w, k))' BY <1>3, <1>5, <1>7, <1>8, CutRep
<1> QED BY <1>3, <1>7, <1>9

----------------------------------------------------------------------------
LEMMA InitIInv == Init => IInv
<1> SUFFICES ASSUME Init PROVE IInv OBVIOUS
<1>1. TypeOK BY DEF Init, TypeOK
<1>2. PICK w : w = [i \in 1..m_nQueueLen |-> CHOOSE n \in Nodes : TRUE] OBVIOUS
<1>3. 1..m_nQueueLen = {} BY DEF Init
<1>4. w \in [1..m_nQueueLen -> Nodes] /\ w = << >> BY <1>2, <1>3
<1>5. IsWalk(w) BY <1>4 DEF Init, IsWalk
<1>6. Owns(w) BY <1>4 DEF Init, Owns
<1>7. Rep(w) BY <1>4, <1>5, <1>6 DEF Rep
<1> QED BY <1>1, <1>7, RepIsChain DEF IInv, TypeOK

(* A step keeps the type and leaves a walk that owns its nodes. *)
LEMMA NextIInv == IInv /\ [Next]_vars => IInv'
<1> SUFFICES ASSUME IInv, [Next]_vars PROVE IInv' OBVIOUS
<1>1. PICK w : w = Chain OBVIOUS
<1>2. TypeOK /\ Rep(w) BY <1>1, ChainIsRep DEF IInv
<1>3. SUFFICES TypeOK' /\ \E s : Rep(s)'
  <2>1. PICK s : Rep(s)' BY <1>3
  <2>2. m_nQueueLen' \in Nat BY <1>3 DEF TypeOK
  <2>3. Linked' /\ NodesOwned' BY <2>1, <2>2, RepIsChainNext
  <2> QED BY <1>3, <2>3 DEF IInv
<1>4. ASSUME NEW n \in Nodes, NEW v \in Vals, push_front(n, v)
      PROVE  TypeOK' /\ \E s : Rep(s)'
  BY <1>2, <1>4, PushFrontRep
<1>5. ASSUME NEW n \in Nodes, NEW v \in Vals, push_back(n, v)
      PROVE  TypeOK' /\ \E s : Rep(s)'
  BY <1>2, <1>5, PushBackRep
<1>6. ASSUME UnlinkHead, popped' \in Vals \cup {NoVal}
      PROVE  TypeOK' /\ \E s : Rep(s)'
  BY <1>2, <1>6, UnlinkHeadRep
<1>7. CASE pop_front
  <2>1. UnlinkHead BY <1>7 DEF pop_front
  <2>2. m_pHeadNode \in Nodes BY <1>2, <2>1 DEF UnlinkHead, TypeOK
  <2>3. popped' \in Vals \cup {NoVal} BY <1>2, <1>7, <2>2 DEF pop_front, TypeOK
  <2> QED BY <1>6, <2>1, <2>3
<1>8. CASE pop_front_empty
  <2>1. TypeOK' BY <1>2, <1>8 DEF pop_front_empty, TypeOK
  <2>2. Rep(w)' BY <1>2, <1>8 DEF pop_front_empty, Rep, IsWalk, Owns
  <2> QED BY <2>1, <2>2
<1>9. ASSUME NEW v \in Vals, erase_head(v)
      PROVE  TypeOK' /\ \E s : Rep(s)'
  <2>1. UnlinkHead /\ popped' = popped BY <1>9 DEF erase_head
  <2>2. popped' \in Vals \cup {NoVal} BY <1>2, <2>1 DEF TypeOK
  <2> QED BY <1>6, <2>1, <2>2
<1>10. ASSUME NEW v \in Vals, erase_inner(v)
       PROVE  TypeOK' /\ \E s : Rep(s)'
  BY <1>2, <1>10, EraseInnerRep
<1>11. CASE UNCHANGED vars
  <2>1. TypeOK' BY <1>2, <1>11 DEF vars, TypeOK
  <2>2. Rep(w)' BY <1>2, <1>11 DEF vars, Rep, IsWalk, Owns
  <2> QED BY <2>1, <2>2
<1> QED BY <1>4, <1>5, <1>7, <1>8, <1>9, <1>10, <1>11 DEF Next

(* The inductive invariant holds in every state. *)
THEOREM InvariantHolds == Spec => []IInv
<1> QED BY InitIInv, NextIInv, PTL DEF Spec

(* The pointers and links always name nodes, and the length is a number. *)
THEOREM TypeCorrect == Spec => []TypeOK
<1>1. IInv => TypeOK BY DEF IInv
<1> QED BY <1>1, InvariantHolds, PTL

(* CWQueue's head, tail, length and links always describe one list. *)
THEOREM AlwaysLinked == Spec => []Linked
<1>1. IInv => Linked BY DEF IInv
<1> QED BY <1>1, InvariantHolds, PTL

(* CWQueue neither leaks a node nor links one it gave back. *)
THEOREM AlwaysNodesOwned == Spec => []NodesOwned
<1>1. IInv => NodesOwned BY DEF IInv
<1> QED BY <1>1, InvariantHolds, PTL

----------------------------------------------------------------------------
(* What the queue holds, read along a walk. *)
LEMMA ContentsOf ==
  ASSUME TypeOK, NEW w, Rep(w)
  PROVE  /\ Contents = [i \in 1..m_nQueueLen |-> value[w[i]]]
         /\ Contents \in Seq(Vals) /\ Len(Contents) = m_nQueueLen
<1>1. m_nQueueLen \in Nat /\ Chain = w BY RepIsChain DEF TypeOK
<1>2. \A i \in 1..m_nQueueLen : value[w[i]] \in Vals BY RepFacts DEF Described
<1> QED BY <1>1, <1>2 DEF Contents

LEMMA ContentsOfNext ==
  ASSUME TypeOK', NEW w, Rep(w)'
  PROVE  Contents' = [i \in 1..m_nQueueLen' |-> value'[w[i]]]
<1>1. m_nQueueLen' \in Nat /\ Chain' = w BY RepIsChainNext DEF TypeOK
<1> QED BY <1>1 DEF Contents

(* Cutting the walk cuts the contents. *)
LEMMA CutContents ==
  ASSUME TypeOK, NEW w, Rep(w), NEW k \in 1..m_nQueueLen,
         TypeOK', Rep(Cut(w, k))', m_nQueueLen' = m_nQueueLen - 1, value' = value
  PROVE  Contents' = Abstract!Without(Contents, k)
<1>1. /\ m_nQueueLen \in Nat /\ Len(w) = m_nQueueLen
      /\ w \in [1..m_nQueueLen -> Nodes]
  BY RepFacts DEF Described
<1>2. /\ Contents = [i \in 1..m_nQueueLen |-> value[w[i]]]
      /\ Len(Contents) = m_nQueueLen
  BY ContentsOf
<1>3. Contents' = [i \in 1..(m_nQueueLen - 1) |-> value[Cut(w, k)[i]]]
  BY ContentsOfNext
<1>4. ASSUME NEW i \in 1..(m_nQueueLen - 1)
      PROVE  value[Cut(w, k)[i]] = IF i < k THEN Contents[i] ELSE Contents[i + 1]
  <2>1. Cut(w, k)[i] = IF i < k THEN w[i] ELSE w[i + 1] BY <1>1 DEF Cut
  <2>2. i \in 1..m_nQueueLen /\ i + 1 \in 1..m_nQueueLen BY <1>1
  <2>3. Contents[i] = value[w[i]] /\ Contents[i + 1] = value[w[i + 1]] BY <1>2, <2>2
  <2> QED BY <2>1, <2>3
<1>5. Abstract!Without(Contents, k) =
        [i \in 1..(m_nQueueLen - 1) |-> IF i < k THEN Contents[i] ELSE Contents[i + 1]]
  BY <1>2 DEF Abstract!Without
<1> QED BY <1>3, <1>4, <1>5

LEMMA InitRefines == Init => Abstract!DequeInit
<1> SUFFICES ASSUME Init PROVE Abstract!DequeInit OBVIOUS
<1>1. TypeOK /\ Rep(Chain) BY InitIInv, ChainIsRep DEF IInv
<1>2. Len(Contents) = 0 /\ Contents \in Seq(Vals) BY <1>1, ContentsOf DEF Init
<1>3. Contents = << >> BY <1>2
<1> QED BY <1>3 DEF Init, Abstract!DequeInit

(* Every operation of the queue is the operation of the deque it is named  *)
(* after.                                                                  *)
LEMMA NextRefines ==
  IInv /\ [Next]_vars => [Abstract!DequeNext]_(Abstract!dequeVars)
<1> SUFFICES ASSUME IInv, [Next]_vars
             PROVE  [Abstract!DequeNext]_(Abstract!dequeVars)
  OBVIOUS
<1>1. PICK w : w = Chain OBVIOUS
<1>2. TypeOK /\ Rep(w) BY <1>1, ChainIsRep DEF IInv
<1> DEFINE n == m_nQueueLen
<1>3. /\ n \in Nat /\ Len(w) = n /\ w \in [1..n -> Nodes]
      /\ used = {w[i] : i \in 1..n}
      /\ n = 0 => m_pHeadNode = NULL
      /\ n > 0 => m_pHeadNode = w[1] /\ m_pHeadNode \in Nodes
  BY <1>2, RepFacts DEF Described
<1>4. /\ Contents = [i \in 1..n |-> value[w[i]]]
      /\ Contents \in Seq(Vals) /\ Len(Contents) = n
  BY <1>2, ContentsOf
<1>5. ASSUME NEW x \in Nodes, NEW v \in Vals, push_front(x, v)
      PROVE  Abstract!PushFront(v)
  <2>1. TypeOK' /\ Rep(Pushed(x, w))' /\ m_nQueueLen' = n + 1
    BY <1>2, <1>5, PushFrontRep
  <2>2. /\ x \notin used /\ value' = [value EXCEPT ![x] = v] /\ popped' = popped
    BY <1>5 DEF push_front, Allocate
  <2>3. Contents' = [i \in 1..(n + 1) |-> value'[Pushed(x, w)[i]]]
    BY <2>1, ContentsOfNext
  <2>4. PICK t : t = <<v>> \o Contents OBVIOUS
  <2>5. <<v>> \in Seq(Vals) /\ Len(<<v>>) = 1 /\ <<v>>[1] = v OBVIOUS
  <2>6. /\ t \in Seq(Vals) /\ Len(t) = n + 1
        /\ \A i \in 1..(n + 1) : t[i] = IF i = 1 THEN v ELSE Contents[i - 1]
    BY <2>4, <2>5, <1>3, <1>4, ConcatProperties
  <2>7. ASSUME NEW i \in 1..(n + 1)
        PROVE  value'[Pushed(x, w)[i]] = t[i]
    <3>1. CASE i = 1
      <4>1. Pushed(x, w)[i] = x BY <3>1, <1>3 DEF Pushed
      <4> QED BY <3>1, <4>1, <2>2, <2>6, <1>2 DEF TypeOK
    <3>2. CASE i # 1
      <4>1. i - 1 \in 1..n /\ Pushed(x, w)[i] = w[i - 1] BY <3>2, <1>3 DEF Pushed
      <4>2. w[i - 1] # x /\ w[i - 1] \in Nodes BY <4>1, <1>3, <2>2
      <4>3. value'[w[i - 1]] = value[w[i - 1]] BY <4>2, <2>2, <1>2 DEF TypeOK
      <4> QED BY <3>2, <4>1, <4>3, <2>6, <1>4
    <3> QED BY <3>1, <3>2
  <2>8. Contents' = t
    <3>1. t = [i \in 1..(n + 1) |-> t[i]] BY <2>6
    <3> QED BY <2>3, <2>7, <3>1
  <2> QED BY <2>2, <2>4, <2>8 DEF Abstract!PushFront
<1>6. ASSUME NEW x \in Nodes, NEW v \in Vals, push_back(x, v)
      PROVE  Abstract!PushBack(v)
  <2>1. TypeOK' /\ Rep(Queued(x, w))' /\ m_nQueueLen' = n + 1
    BY <1>2, <1>6, PushBackRep
  <2>2. /\ x \notin used /\ value' = [value EXCEPT ![x] = v] /\ popped' = popped
    BY <1>6 DEF push_back, Allocate
  <2>3. Contents' = [i \in 1..(n + 1) |-> value'[Queued(x, w)[i]]]
    BY <2>1, ContentsOfNext
  <2>4. PICK t : t = Append(Contents, v) OBVIOUS
  <2>5. /\ t \in Seq(Vals) /\ Len(t) = n + 1
        /\ \A i \in 1..(n + 1) : t[i] = IF i = n + 1 THEN v ELSE Contents[i]
    BY <2>4, <1>3, <1>4
  <2>6. ASSUME NEW i \in 1..(n + 1)
        PROVE  value'[Queued(x, w)[i]] = t[i]
    <3>1. CASE i = n + 1
      <4>1. Queued(x, w)[i] = x BY <3>1, <1>3 DEF Queued
      <4> QED BY <3>1, <4>1, <2>2, <2>5, <1>2 DEF TypeOK
    <3>2. CASE i # n + 1
      <4>1. i \in 1..n /\ Queued(x, w)[i] = w[i] BY <3>2, <1>3 DEF Queued
      <4>2. w[i] # x /\ w[i] \in Nodes BY <4>1, <1>3, <2>2
      <4>3. value'[w[i]] = value[w[i]] BY <4>2, <2>2, <1>2 DEF TypeOK
      <4> QED BY <3>2, <4>1, <4>3, <2>5, <1>4
    <3> QED BY <3>1, <3>2
  <2>7. Contents' = t
    <3>1. t = [i \in 1..(n + 1) |-> t[i]] BY <2>5
    <3> QED BY <2>3, <2>6, <3>1
  <2> QED BY <2>2, <2>4, <2>7 DEF Abstract!PushBack
<1>7. ASSUME UnlinkHead, popped' \in Vals \cup {NoVal}
      PROVE  /\ Contents # << >> /\ 1 \in 1..Len(Contents)
             /\ Contents[1] = value[m_pHeadNode]
             /\ Contents' = Abstract!Without(Contents, 1)
  <2>1. /\ n \in Nat \ {0} /\ m_pHeadNode = w[1]
        /\ m_nQueueLen' = n - 1 /\ TypeOK' /\ Rep(Cut(w, 1))'
    BY <1>2, <1>7, UnlinkHeadRep
  <2>2. 1 \in 1..n /\ value' = value BY <2>1, <1>7 DEF UnlinkHead
  <2>3. Contents' = Abstract!Without(Contents, 1) BY <1>2, <2>1, <2>2, CutContents
  <2> QED BY <2>1, <2>2, <2>3, <1>4
<1>8. CASE pop_front
  <2>1. UnlinkHead /\ popped' = value[m_pHeadNode] BY <1>8 DEF pop_front
  <2>2. m_pHeadNode \in Nodes BY <1>2, <2>1 DEF UnlinkHead, TypeOK
  <2>3. popped' \in Vals \cup {NoVal} BY <1>2, <2>1, <2>2 DEF TypeOK
  <2>4. Abstract!PopFront BY <1>7, <2>1, <2>3 DEF Abstract!PopFront
  <2> QED BY <2>4 DEF Abstract!DequeNext
<1>9. CASE pop_front_empty
  <2>1. n = 0 BY <1>3, <1>9 DEF pop_front_empty
  <2>2. Contents = << >> BY <2>1, <1>4
  <2>3. TypeOK' /\ Rep(w)'
    BY <1>2, <1>9 DEF pop_front_empty, TypeOK, Rep, IsWalk, Owns
  <2>4. Contents' = [i \in 1..n |-> value[w[i]]]
    BY <2>3, <1>9, ContentsOfNext DEF pop_front_empty
  <2>5. Abstract!PopFront
    BY <1>4, <1>9, <2>2, <2>4 DEF pop_front_empty, Abstract!PopFront
  <2> QED BY <2>5 DEF Abstract!DequeNext
<1>10. ASSUME NEW v \in Vals, erase_head(v)
       PROVE  Abstract!EraseFirst(v)
  <2>1. UnlinkHead /\ popped' = popped /\ value[m_pHeadNode] = v
    BY <1>10 DEF erase_head
  <2>2. popped' \in Vals \cup {NoVal} BY <1>2, <2>1 DEF TypeOK
  <2>3. /\ 1 \in 1..Len(Contents) /\ Contents[1] = v
        /\ Contents' = Abstract!Without(Contents, 1)
    BY <1>7, <2>1, <2>2
  <2>4. \A j \in 1..(1 - 1) : Contents[j] # v OBVIOUS
  <2> QED BY <2>1, <2>3, <2>4 DEF Abstract!EraseFirst
<1>11. ASSUME NEW v \in Vals, erase_inner(v)
       PROVE  Abstract!EraseFirst(v)
  <2>1. PICK k \in 1..n :
          /\ value[w[k]] = v
          /\ \A i \in 1..(k - 1) : value[w[i]] # v
          /\ m_nQueueLen' = n - 1
          /\ TypeOK' /\ Rep(Cut(w, k))'
    BY <1>2, <1>11, EraseInnerRep
  <2>2. value' = value /\ popped' = popped BY <1>11 DEF erase_inner
  <2>3. Contents' = Abstract!Without(Contents, k) BY <1>2, <2>1, <2>2, CutContents
  <2>4. k \in 1..Len(Contents) /\ Contents[k] = v BY <1>3, <1>4, <2>1
  <2>5. \A j \in 1..(k - 1) : Contents[j] # v BY <1>3, <1>4, <2>1
  <2> QED BY <2>2, <2>3, <2>4, <2>5 DEF Abstract!EraseFirst
<1>12. CASE UNCHANGED vars
  <2>1. TypeOK' /\ Rep(w)' BY <1>2, <1>12 DEF vars, TypeOK, Rep, IsWalk, Owns
  <2>2. Contents' = [i \in 1..n |-> value[w[i]]]
    BY <2>1, <1>12, ContentsOfNext DEF vars
  <2> QED BY <1>4, <1>12, <2>2 DEF vars, Abstract!dequeVars
<1> QED BY <1>5, <1>6, <1>8, <1>9, <1>10, <1>11, <1>12
        DEF Next, Abstract!DequeNext

(* CWQueue implements a double-ended queue: what pop_front returns is what *)
(* the pushes, pops and erases before it put first.                        *)
THEOREM WQueueIsDeque == Spec => ImplementsDeque
<1> QED BY InvariantHolds, InitRefines, NextRefines, PTL
        DEF Spec, ImplementsDeque, Abstract!DequeSpec
=============================================================================
