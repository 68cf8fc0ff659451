-------------------------- MODULE ObjectPoolProofs --------------------------
(***************************************************************************)
(* Proofs that CPool never gives an object to two users, never deletes one *)
(* that is in use and loses one only to a list node that the heap refused, *)
(* for any number of threads, any growth step and a heap that may fail at  *)
(* any allocation; and that it implements the abstract Allocator.          *)
(***************************************************************************)
EXTENDS ObjectPool, TLAPS, SequenceTheorems, FiniteSetTheorems

USE PoolAssumption

(* A list of distinct elements, none of which is in a given set. *)
Distinct(s) == \A i, j \in 1..Len(s) : s[i] = s[j] => i = j

(* What `new` returns in a row is a list of distinct unused addresses. *)
LEMMA FreshRunFacts ==
  ASSUME NEW n \in Nat, NEW used, NEW s \in FreshRuns(n, used)
  PROVE  /\ s \in Seq(Objs)
         /\ Len(s) = n
         /\ Distinct(s)
         /\ InList(s) \subseteq Objs
         /\ InList(s) \cap used = {}
  BY DEF FreshRuns, Distinct, InList

(* Growth makes at most SIZE objects, and none that is alive. *)
LEMMA GrowthRunFacts ==
  ASSUME NEW s \in GrowthRuns
  PROVE  /\ s \in Seq(Objs) /\ Len(s) <= SIZE
         /\ Distinct(s)
         /\ InList(s) \cap alive = {}
<1>1. PICK n \in 0..SIZE : s \in FreshRuns(n, alive) BY DEF GrowthRuns
<1> QED BY <1>1, FreshRunFacts

(* The object that gets no node is new as well. *)
LEMMA UnlistedFacts ==
  ASSUME NEW s \in GrowthRuns, NEW lost \in Unlisted(s)
  PROVE  lost \in SUBSET Objs /\ lost \cap alive = {} /\ lost \cap InList(s) = {}
BY DEF Unlisted

(* The two ends of a split list share nothing and make up the list. *)
LEMMA PrefixFacts ==
  ASSUME NEW s \in Seq(Objs), NEW n \in 0..Len(s)
  PROVE  /\ SubSeq(s, 1, n) \in Seq(Objs)
         /\ Len(SubSeq(s, 1, n)) = n
         /\ \A i \in 1..n : SubSeq(s, 1, n)[i] = s[i]
<1>1. \A i \in 1..n : s[i] \in Objs OBVIOUS
<1>2. n \in Nat /\ 1 \in Int /\ n \in Int OBVIOUS
<1>3. /\ SubSeq(s, 1, n) \in Seq(Objs)
      /\ Len(SubSeq(s, 1, n)) = IF 1 <= n THEN n - 1 + 1 ELSE 0
      /\ \A i \in 1..(n - 1 + 1) : SubSeq(s, 1, n)[i] = s[1 + i - 1]
  BY <1>1, <1>2, SubSeqProperties
<1> QED BY <1>2, <1>3

LEMMA RestFacts ==
  ASSUME NEW s \in Seq(Objs), s # << >>
  PROVE  /\ SubSeq(s, 2, Len(s)) \in Seq(Objs)
         /\ Len(SubSeq(s, 2, Len(s))) = Len(s) - 1
         /\ Len(s) \in Nat \ {0}
         /\ \A i \in 1..(Len(s) - 1) : SubSeq(s, 2, Len(s))[i] = s[i + 1]
<1>1. \A i \in 2..Len(s) : s[i] \in Objs OBVIOUS
<1>2. Len(s) \in Nat \ {0} OBVIOUS
<1>3. /\ SubSeq(s, 2, Len(s)) \in Seq(Objs)
      /\ Len(SubSeq(s, 2, Len(s))) = IF 2 <= Len(s) THEN Len(s) - 2 + 1 ELSE 0
      /\ \A i \in 1..(Len(s) - 2 + 1) : SubSeq(s, 2, Len(s))[i] = s[2 + i - 1]
  BY <1>1, <1>2, SubSeqProperties
<1> QED BY <1>2, <1>3

(* Without its first element, a list of distinct ones holds the others.    *)
LEMMA RestPlaces ==
  ASSUME NEW s \in Seq(Objs), s # << >>, Distinct(s)
  PROVE  /\ Distinct(SubSeq(s, 2, Len(s)))
         /\ InList(SubSeq(s, 2, Len(s))) = InList(s) \ {s[1]}
         /\ s[1] \in Objs /\ s[1] \in InList(s)
<1> DEFINE rest == SubSeq(s, 2, Len(s))
<1>1. /\ Len(rest) = Len(s) - 1 /\ Len(s) \in Nat \ {0}
      /\ \A i \in 1..(Len(s) - 1) : rest[i] = s[i + 1]
  BY RestFacts
<1> HIDE DEF rest
<1>2. s[1] \in Objs /\ s[1] \in InList(s) BY <1>1 DEF InList
<1>3. Distinct(rest)
  <2> SUFFICES ASSUME NEW i \in 1..Len(rest), NEW j \in 1..Len(rest), rest[i] = rest[j]
               PROVE  i = j
    BY DEF Distinct
  <2>1. /\ i + 1 \in 1..Len(s) /\ j + 1 \in 1..Len(s)
        /\ s[i + 1] = s[j + 1]
    BY <1>1
  <2>2. i + 1 = j + 1 BY <2>1 DEF Distinct
  <2> QED BY <2>2
<1>4. ASSUME NEW i \in 1..Len(rest) PROVE rest[i] \in InList(s) \ {s[1]}
  <2>1. rest[i] = s[i + 1] /\ i + 1 \in 1..Len(s) /\ 1 \in 1..Len(s) /\ i + 1 # 1
    BY <1>1
  <2> QED BY <2>1 DEF Distinct, InList
<1>5. ASSUME NEW i \in 1..Len(s), s[i] # s[1] PROVE s[i] \in InList(rest)
  <2>1. i - 1 \in 1..Len(rest) /\ rest[i - 1] = s[i] BY <1>1, <1>5
  <2> QED BY <2>1 DEF InList
<1>6. InList(rest) = InList(s) \ {s[1]} BY <1>4, <1>5 DEF InList
<1> QED BY <1>2, <1>3, <1>6 DEF rest

(* Trimming keeps a prefix. *)
LEMMA TrimmedFacts ==
  ASSUME NEW s \in Seq(Objs)
  PROVE  /\ Trimmed(s) \in Seq(Objs)
         /\ Len(Trimmed(s)) <= Len(s)
         /\ \A i \in 1..Len(Trimmed(s)) : Trimmed(s)[i] = s[i]
<1>1. CASE Len(s) >= 2 * SIZE
  <2>1. SIZE - 1 \in 0..Len(s) BY <1>1
  <2> QED BY <1>1, <2>1, PrefixFacts DEF Trimmed
<1>2. CASE ~(Len(s) >= 2 * SIZE) BY <1>2 DEF Trimmed
<1> QED BY <1>1, <1>2

(* size_t arithmetic stays a size_t. *)
LEMMA Wraps == \A n \in Nat : n % SIZE_T \in 0..(SIZE_T - 1)
  OBVIOUS

----------------------------------------------------------------------------
(* Taking from a list that holds only idle objects takes the first, and    *)
(* takes nothing exactly when the list is empty.                           *)
LEMMA TakeFacts ==
  ASSUME NEW list \in Seq(Objs), NEW flags \in [Objs -> BOOLEAN],
         TakeFrom(list, flags),
         \A i \in 1..Len(list) : ~flags[list[i]]
  PROVE  \/ /\ list # << >>
            /\ m_listFreeObject' = SubSeq(list, 2, Len(list))
            /\ m_bInUse' = [flags EXCEPT ![list[1]] = TRUE]
            /\ out' = out \cup {list[1]}
         \/ /\ list = << >>
            /\ m_listFreeObject' = << >>
            /\ m_bInUse' = flags
            /\ UNCHANGED out
<1>1. CASE \A i \in 1..Len(list) : flags[list[i]]
  <2>1. Len(list) = 0 BY <1>1
  <2>2. list = << >> BY <2>1
  <2> QED BY <1>1, <2>1, <2>2 DEF TakeFrom
<1>2. ASSUME NEW i \in 1..Len(list),
             \A j \in 1..(i - 1) : flags[list[j]],
             m_listFreeObject' = SubSeq(list, i + 1, Len(list)),
             m_bInUse' = [flags EXCEPT ![list[i]] = TRUE],
             out' = out \cup {list[i]}
      PROVE  /\ list # << >>
             /\ m_listFreeObject' = SubSeq(list, 2, Len(list))
             /\ m_bInUse' = [flags EXCEPT ![list[1]] = TRUE]
             /\ out' = out \cup {list[1]}
  <2>1. i = 1
    <3>1. SUFFICES ASSUME i # 1 PROVE FALSE OBVIOUS
    <3>2. 1 \in 1..(i - 1) /\ 1 \in 1..Len(list) BY <3>1
    <3> QED BY <1>2, <3>2
  <2>2. list # << >> BY <2>1
  <2> QED BY <1>2, <2>1, <2>2
<1> QED BY <1>1, <1>2 DEF TakeFrom

(* Whatever list ApplyObj takes from, the object moves from the list to    *)
(* the program.                                                            *)
LEMMA TakeKeepsPlaces ==
  ASSUME NEW list \in Seq(Objs), NEW flags \in [Objs -> BOOLEAN],
         TakeFrom(list, flags), Distinct(list),
         out \in SUBSET Objs,
         reclaiming \in [Threads -> Objs \cup {NoObj}],
         \A i \in 1..Len(list) : ~flags[list[i]],
         InList(list) \cap out = {}, InList(list) \cap Reclaimed = {},
         out \cap Reclaimed = {},
         \A o \in out \cup Reclaimed : flags[o],
         \A t, u \in Threads :
            reclaiming[t] = reclaiming[u] /\ reclaiming[t] # NoObj => t = u,
         alive' = InList(list) \cup out \cup Reclaimed \cup leaked',
         leaked' \cap (InList(list) \cup out \cup Reclaimed) = {},
         m_nTotalCount' \in 0..(SIZE_T - 1),
         alive' \in SUBSET Objs, leaked' \in SUBSET Objs,
         m_Lock \in SUBSET Threads,
         UNCHANGED <<m_Lock, reclaiming>>
  PROVE  IInv'
<1>1. Reclaimed' = Reclaimed BY DEF Reclaimed
<1>2. CASE list = << >>
  <2>1. m_listFreeObject' = << >> /\ m_bInUse' = flags /\ UNCHANGED out
    BY <1>2, TakeFacts
  <2>2. InList(list) = {} /\ Free' = {} BY <1>2, <2>1 DEF InList, Free
  <2>3. TypeOK' BY <2>1 DEF TypeOK
  <2>4. OnePlace' BY <1>1, <2>1, <2>2 DEF OnePlace
  <2>5. FlagMeansOut' BY <1>1, <2>1, <2>2 DEF FlagMeansOut
  <2>6. NothingLostNothingDangling'
    BY <1>1, <2>1, <2>2 DEF NothingLostNothingDangling
  <2> QED BY <2>3, <2>4, <2>5, <2>6 DEF IInv
<1>3. CASE list # << >>
  <2> DEFINE o == list[1]
             rest == SubSeq(list, 2, Len(list))
  <2>1. /\ m_listFreeObject' = rest
        /\ m_bInUse' = [flags EXCEPT ![o] = TRUE]
        /\ out' = out \cup {o}
    BY <1>3, TakeFacts
  <2>2. /\ rest \in Seq(Objs)
        /\ Len(rest) = Len(list) - 1
        /\ Len(list) \in Nat \ {0}
        /\ \A i \in 1..(Len(list) - 1) : rest[i] = list[i + 1]
    BY <1>3, RestFacts
  <2>3. o \in Objs /\ o \in InList(list) BY <2>2 DEF InList
  <2> HIDE DEF rest, o
  <2>4. Free' = InList(list) \ {o} /\ Distinct(rest)
    BY <1>3, <2>1, RestPlaces DEF Free, o, rest
  <2>5. TypeOK' BY <2>1, <2>2, <2>3 DEF TypeOK
  <2>6. OnePlace' BY <1>1, <2>1, <2>3, <2>4 DEF OnePlace, Distinct
  <2>7. FlagMeansOut'
    <3>1. \A x \in Free' : ~m_bInUse'[x]
      <4> SUFFICES ASSUME NEW x \in Free' PROVE ~m_bInUse'[x]
        OBVIOUS
      <4>1. x \in InList(list) /\ x # o BY <2>4
      <4>2. x \in Objs /\ ~flags[x] BY <4>1 DEF InList
      <4> QED BY <2>1, <4>1, <4>2
    <3>2. \A x \in out' \cup Reclaimed' : m_bInUse'[x]
      <4>1. Reclaimed \subseteq Objs BY DEF Reclaimed
      <4> QED BY <1>1, <2>1, <2>3, <4>1
    <3> QED BY <3>1, <3>2 DEF FlagMeansOut
  <2>8. NothingLostNothingDangling'
    BY <1>1, <2>1, <2>3, <2>4 DEF NothingLostNothingDangling
  <2> QED BY <2>5, <2>6, <2>7, <2>8 DEF IInv
<1> QED BY <1>2, <1>3

----------------------------------------------------------------------------
LEMMA InitIInv == Init => IInv
<1> SUFFICES ASSUME Init PROVE IInv OBVIOUS
<1>1. /\ m_listFreeObject \in Seq(Objs)
      /\ Distinct(m_listFreeObject)
      /\ InList(m_listFreeObject) \subseteq Objs
  BY FreshRunFacts DEF Init
<1>2. out = {} /\ Reclaimed = {} /\ leaked = {} /\ Free = alive BY DEF Init, Reclaimed, Free
<1>3. SIZE \in 0..(SIZE_T - 1) OBVIOUS
<1>4. TypeOK BY <1>1, <1>2, <1>3 DEF Init, TypeOK, Free
<1>5. OnePlace BY <1>1, <1>2 DEF Init, OnePlace, Distinct
<1>6. FlagMeansOut BY <1>1, <1>2 DEF Init, FlagMeansOut, Free
<1>7. NothingLostNothingDangling BY <1>2 DEF NothingLostNothingDangling
<1> QED BY <1>4, <1>5, <1>6, <1>7 DEF IInv

(* ApplyObj from a list that is not empty. *)
LEMMA ApplyFromListKeeps ==
  ASSUME NEW t \in Threads, IInv, ApplyFromList(t)
  PROVE  IInv'
<1> DEFINE list == m_listFreeObject
<1>1. /\ list \in Seq(Objs) /\ Distinct(list)
      /\ m_bInUse \in [Objs -> BOOLEAN] /\ out \in SUBSET Objs
      /\ reclaiming \in [Threads -> Objs \cup {NoObj}]
      /\ m_nTotalCount \in 0..(SIZE_T - 1) /\ alive \in SUBSET Objs
      /\ leaked \in SUBSET Objs /\ m_Lock \in SUBSET Threads
  BY DEF IInv, TypeOK, OnePlace, Distinct
<1>2. \A i \in 1..Len(list) : ~m_bInUse[list[i]]
  BY DEF IInv, FlagMeansOut, Free, InList
<1>3. /\ InList(list) \cap out = {} /\ InList(list) \cap Reclaimed = {}
      /\ out \cap Reclaimed = {}
      /\ \A v, u \in Threads :
            reclaiming[v] = reclaiming[u] /\ reclaiming[v] # NoObj => v = u
  BY DEF IInv, OnePlace, Free
<1>4. \A o \in out \cup Reclaimed : m_bInUse[o] BY DEF IInv, FlagMeansOut
<1>5. /\ alive' = InList(list) \cup out \cup Reclaimed \cup leaked'
      /\ leaked' \cap (InList(list) \cup out \cup Reclaimed) = {}
      /\ alive' = alive /\ leaked' = leaked
      /\ TakeFrom(list, m_bInUse)
      /\ m_nTotalCount' = m_nTotalCount
      /\ UNCHANGED <<m_Lock, reclaiming>>
  BY DEF IInv, NothingLostNothingDangling, ApplyFromList, Free
<1> HIDE DEF list
<1> QED BY <1>1, <1>2, <1>3, <1>4, <1>5, TakeKeepsPlaces

(* ApplyObj when the list is empty: the growth may have been cut short. *)
LEMMA ApplyGrowingKeeps ==
  ASSUME NEW t \in Threads, IInv, ApplyGrowing(t)
  PROVE  IInv'
<1>0. PICK made \in GrowthRuns : \E lost \in Unlisted(made) :
        Construct(made, lost) /\ TakeFrom(made, FlagsWith(InList(made) \cup lost))
  BY DEF ApplyGrowing
<1>1. PICK lost \in Unlisted(made) :
        Construct(made, lost) /\ TakeFrom(made, FlagsWith(InList(made) \cup lost))
  BY <1>0
<1> DEFINE flags == FlagsWith(InList(made) \cup lost)
<1>2. /\ made \in Seq(Objs) /\ Distinct(made) /\ InList(made) \cap alive = {}
      /\ lost \in SUBSET Objs /\ lost \cap alive = {} /\ lost \cap InList(made) = {}
  BY GrowthRunFacts, UnlistedFacts
<1>3. /\ m_bInUse \in [Objs -> BOOLEAN] /\ out \in SUBSET Objs
      /\ reclaiming \in [Threads -> Objs \cup {NoObj}]
      /\ m_nTotalCount \in 0..(SIZE_T - 1) /\ alive \in SUBSET Objs
      /\ leaked \in SUBSET Objs /\ m_Lock \in SUBSET Threads
  BY DEF IInv, TypeOK
<1>4. Free = {} BY DEF ApplyGrowing, Free, InList
<1>5. /\ alive = out \cup Reclaimed \cup leaked
      /\ leaked \cap (out \cup Reclaimed) = {}
  BY <1>4 DEF IInv, NothingLostNothingDangling
<1>6. /\ flags \in [Objs -> BOOLEAN]
      /\ \A i \in 1..Len(made) : ~flags[made[i]]
  <2>1. flags \in [Objs -> BOOLEAN] BY <1>3 DEF FlagsWith
  <2>2. ASSUME NEW i \in 1..Len(made) PROVE ~flags[made[i]]
    <3>1. made[i] \in Objs /\ made[i] \in InList(made) BY <1>2 DEF InList
    <3> QED BY <3>1 DEF FlagsWith
  <2> QED BY <2>1, <2>2
<1>7. /\ out \cap Reclaimed = {}
      /\ \A v, u \in Threads :
            reclaiming[v] = reclaiming[u] /\ reclaiming[v] # NoObj => v = u
  BY DEF IInv, OnePlace
<1>8. \A o \in out \cup Reclaimed : flags[o]
  <2>1. \A o \in out \cup Reclaimed : m_bInUse[o] /\ o \in Objs
    BY <1>3, <1>5 DEF IInv, FlagMeansOut
  <2>2. \A o \in out \cup Reclaimed : o \notin InList(made) \cup lost BY <1>2, <1>5
  <2> QED BY <2>1, <2>2 DEF FlagsWith
<1>9. m_nTotalCount' \in 0..(SIZE_T - 1)
  <2>1. m_nTotalCount + (IF Len(made) = SIZE THEN SIZE ELSE 0) \in Nat BY <1>3
  <2> QED BY <1>1, <2>1, Wraps DEF Construct
<1>10. /\ alive' = InList(made) \cup out \cup Reclaimed \cup leaked'
       /\ leaked' \cap (InList(made) \cup out \cup Reclaimed) = {}
       /\ leaked' \in SUBSET Objs
  BY <1>1, <1>2, <1>3, <1>5 DEF Construct
<1>11. alive' \in SUBSET Objs BY <1>2, <1>3, <1>1 DEF Construct, InList
<1>12. UNCHANGED <<m_Lock, reclaiming>> BY DEF ApplyGrowing
<1>13. InList(made) \cap out = {} /\ InList(made) \cap Reclaimed = {}
  BY <1>2, <1>5
<1> HIDE DEF flags
<1>14. TakeFrom(made, flags) BY <1>1 DEF flags
<1> QED BY <1>2, <1>3, <1>6, <1>7, <1>8, <1>9, <1>10, <1>11, <1>12,
           <1>13, <1>14, TakeKeepsPlaces

(* ReclaimObj's test: the object leaves the program's hands. *)
LEMMA ReclaimTestKeeps ==
  ASSUME NEW t \in Threads, NEW o \in Objs, IInv, ReclaimTest(t, o)
  PROVE  IInv'
<1>1. /\ TypeOK /\ OnePlace /\ FlagMeansOut /\ NothingLostNothingDangling
  BY DEF IInv
<1>2. /\ reclaiming[t] = NoObj /\ o \in out /\ out' = out \ {o}
      /\ UNCHANGED <<m_listFreeObject, m_bInUse, m_nTotalCount, alive, m_Lock, leaked>>
  BY DEF ReclaimTest
<1>3. m_bInUse[o] BY <1>1, <1>2 DEF FlagMeansOut
<1>4. reclaiming' = [reclaiming EXCEPT ![t] = o] BY <1>3 DEF ReclaimTest
<1>5. o # NoObj OBVIOUS
<1>6. reclaiming'[t] = o /\ \A u \in Threads \ {t} : reclaiming'[u] = reclaiming[u]
  BY <1>1, <1>4 DEF TypeOK
<1>7. Reclaimed' = Reclaimed \cup {o} BY <1>2, <1>5, <1>6 DEF Reclaimed
<1>8. Free' = Free BY <1>2 DEF Free, InList
<1>9. o \notin Free /\ o \notin Reclaimed BY <1>1, <1>2 DEF OnePlace
<1>10. TypeOK' BY <1>1, <1>2, <1>4 DEF TypeOK
<1>11. OnePlace'
  <2>1. ASSUME NEW u \in Threads, NEW v \in Threads,
               reclaiming'[u] = reclaiming'[v], reclaiming'[u] # NoObj
        PROVE  u = v
    <3>1. CASE u # t /\ v # t BY <2>1, <3>1, <1>1, <1>6 DEF OnePlace
    <3>2. CASE u = t /\ v # t BY <2>1, <3>2, <1>5, <1>6, <1>9 DEF Reclaimed
    <3>3. CASE u # t /\ v = t BY <2>1, <3>3, <1>5, <1>6, <1>9 DEF Reclaimed
    <3> QED BY <3>1, <3>2, <3>3
  <2>2. /\ Free' \cap out' = {} /\ Free' \cap Reclaimed' = {}
        /\ out' \cap Reclaimed' = {}
    BY <1>1, <1>2, <1>7, <1>8, <1>9 DEF OnePlace
  <2>3. \A i, j \in 1..Len(m_listFreeObject') :
          m_listFreeObject'[i] = m_listFreeObject'[j] => i = j
    BY <1>1, <1>2 DEF OnePlace
  <2> QED BY <2>1, <2>2, <2>3 DEF OnePlace
<1>12. FlagMeansOut' BY <1>1, <1>2, <1>3, <1>7, <1>8 DEF FlagMeansOut
<1>13. NothingLostNothingDangling'
  BY <1>1, <1>2, <1>7, <1>8 DEF NothingLostNothingDangling
<1> QED BY <1>10, <1>11, <1>12, <1>13 DEF IInv

(* ReclaimObj's critical section: the object joins the end of the list, of *)
(* which trimming keeps a beginning.                                       *)
LEMMA ReclaimLockedMoves ==
  ASSUME NEW t \in Threads, IInv, ReclaimLocked(t)
  PROVE  LET r == reclaiming[t]
             list == Append(m_listFreeObject, r)
             kept == Trimmed(list)
         IN  /\ r \in Objs /\ r \in Reclaimed /\ r \notin Free
             /\ list \in Seq(Objs) /\ Distinct(list) /\ InList(list) = Free \cup {r}
             /\ kept \in Seq(Objs) /\ Len(kept) <= Len(list)
             /\ \A i \in 1..Len(kept) : kept[i] = list[i]
             /\ Free' = InList(kept) /\ InList(kept) \subseteq InList(list)
             /\ Reclaimed' = Reclaimed \ {r}
<1> DEFINE r == reclaiming[t]
           list == Append(m_listFreeObject, r)
           kept == Trimmed(list)
<1>1. TypeOK /\ OnePlace /\ FlagMeansOut /\ NothingLostNothingDangling
  BY DEF IInv
<1>2. /\ r # NoObj
      /\ m_bInUse' = [m_bInUse EXCEPT ![r] = FALSE]
      /\ m_listFreeObject' = kept
      /\ alive' = alive \ (InList(list) \ InList(kept))
      /\ m_nTotalCount' = (m_nTotalCount + SIZE_T - (Len(list) - Len(kept))) % SIZE_T
      /\ reclaiming' = [reclaiming EXCEPT ![t] = NoObj]
      /\ UNCHANGED <<m_Lock, leaked, out>>
  BY DEF ReclaimLocked
<1>3. r \in Objs /\ r \in Reclaimed BY <1>1, <1>2 DEF TypeOK, Reclaimed
<1>4. /\ list \in Seq(Objs)
      /\ Len(m_listFreeObject) \in Nat
      /\ Len(list) = Len(m_listFreeObject) + 1
      /\ \A i \in 1..Len(m_listFreeObject) : list[i] = m_listFreeObject[i]
      /\ list[Len(m_listFreeObject) + 1] = r
  BY <1>1, <1>3 DEF TypeOK
<1> HIDE DEF list
<1>5. /\ kept \in Seq(Objs)
      /\ Len(kept) \in Nat /\ Len(kept) <= Len(list)
      /\ \A i \in 1..Len(kept) : kept[i] = list[i]
  BY <1>4, TrimmedFacts
<1> HIDE DEF kept
<1>6. r \notin Free BY <1>1, <1>3 DEF OnePlace
<1>7. InList(list) = Free \cup {r}
  <2>1. ASSUME NEW i \in 1..Len(list) PROVE list[i] \in Free \cup {r}
    <3>1. CASE i = Len(m_listFreeObject) + 1 BY <3>1, <1>4
    <3>2. CASE i \in 1..Len(m_listFreeObject) BY <3>2, <1>4 DEF Free, InList
    <3> QED BY <3>1, <3>2, <1>4
  <2>2. r \in InList(list)
    <3>1. Len(m_listFreeObject) + 1 \in 1..Len(list) BY <1>4
    <3> QED BY <3>1, <1>4 DEF InList
  <2>3. ASSUME NEW i \in 1..Len(m_listFreeObject)
        PROVE  m_listFreeObject[i] \in InList(list)
    <3>1. i \in 1..Len(list) /\ list[i] = m_listFreeObject[i] BY <1>4
    <3> QED BY <3>1 DEF InList
  <2> QED BY <2>1, <2>2, <2>3 DEF Free, InList
<1>8. Distinct(list)
  <2> SUFFICES ASSUME NEW i \in 1..Len(list), NEW j \in 1..Len(list),
                      list[i] = list[j]
               PROVE  i = j
    BY DEF Distinct
  <2> DEFINE n == Len(m_listFreeObject)
  <2>1. CASE i \in 1..n /\ j \in 1..n BY <2>1, <1>1, <1>4 DEF OnePlace
  <2>2. CASE i = n + 1 /\ j \in 1..n BY <2>2, <1>4, <1>6 DEF Free, InList
  <2>3. CASE j = n + 1 /\ i \in 1..n BY <2>3, <1>4, <1>6 DEF Free, InList
  <2>4. CASE i = n + 1 /\ j = n + 1 BY <2>4
  <2> QED BY <2>1, <2>2, <2>3, <2>4, <1>4
<1>9. InList(kept) \subseteq InList(list)
  <2> SUFFICES ASSUME NEW i \in 1..Len(kept) PROVE kept[i] \in InList(list)
    BY DEF InList
  <2>1. i \in 1..Len(list) /\ kept[i] = list[i] BY <1>4, <1>5
  <2> QED BY <2>1 DEF InList
<1>10. Free' = InList(kept) BY <1>2 DEF Free
<1>11. reclaiming'[t] = NoObj /\ \A u \in Threads \ {t} : reclaiming'[u] = reclaiming[u]
  BY <1>1, <1>2 DEF TypeOK
<1>12. Reclaimed' = Reclaimed \ {r}
  <2>1. \A u \in Threads \ {t} : reclaiming[u] # r BY <1>1, <1>2 DEF OnePlace
  <2> QED BY <1>2, <1>11, <2>1 DEF Reclaimed
<1> QED BY <1>3, <1>4, <1>5, <1>6, <1>7, <1>8, <1>9, <1>10, <1>12 DEF list, kept

(* Trimming deletes objects of the list and no other. *)
LEMMA ReclaimLockedKeeps ==
  ASSUME NEW t \in Threads, IInv, ReclaimLocked(t)
  PROVE  IInv'
<1> DEFINE r == reclaiming[t]
           list == Append(m_listFreeObject, r)
           kept == Trimmed(list)
<1>1. TypeOK /\ OnePlace /\ FlagMeansOut /\ NothingLostNothingDangling
  BY DEF IInv
<1>2. /\ r # NoObj
      /\ m_bInUse' = [m_bInUse EXCEPT ![r] = FALSE]
      /\ m_listFreeObject' = kept
      /\ alive' = alive \ (InList(list) \ InList(kept))
      /\ m_nTotalCount' = (m_nTotalCount + SIZE_T - (Len(list) - Len(kept))) % SIZE_T
      /\ reclaiming' = [reclaiming EXCEPT ![t] = NoObj]
      /\ UNCHANGED <<m_Lock, leaked, out>>
  BY DEF ReclaimLocked
<1>3. /\ r \in Objs /\ r \in Reclaimed /\ r \notin Free
      /\ list \in Seq(Objs) /\ Distinct(list) /\ InList(list) = Free \cup {r}
      /\ kept \in Seq(Objs) /\ Len(kept) <= Len(list)
      /\ \A i \in 1..Len(kept) : kept[i] = list[i]
      /\ Free' = InList(kept) /\ InList(kept) \subseteq InList(list)
      /\ Reclaimed' = Reclaimed \ {r}
  BY ReclaimLockedMoves
<1> HIDE DEF list, kept
<1>4. Len(list) \in Nat /\ Len(kept) \in Nat BY <1>3
<1>5. reclaiming'[t] = NoObj /\ \A u \in Threads \ {t} : reclaiming'[u] = reclaiming[u]
  BY <1>1, <1>2 DEF TypeOK
<1> HIDE DEF r
<1>6. TypeOK'
  <2>1. m_nTotalCount' \in 0..(SIZE_T - 1)
    <3>1. CASE Len(list) - Len(kept) <= SIZE_T
      <4>1. m_nTotalCount + SIZE_T - (Len(list) - Len(kept)) \in Nat
        BY <1>1, <1>3, <1>4, <3>1 DEF TypeOK
      <4> QED BY <1>2, <4>1, Wraps
    <3>2. CASE ~(Len(list) - Len(kept) <= SIZE_T)
      <4>1. m_nTotalCount + SIZE_T - (Len(list) - Len(kept)) \in Int
        BY <1>1, <1>3, <1>4 DEF TypeOK
      <4> QED BY <1>2, <4>1
    <3> QED BY <3>1, <3>2
  <2>2. /\ m_listFreeObject' \in Seq(Objs)
        /\ m_bInUse' \in [Objs -> BOOLEAN]
        /\ alive' \in SUBSET Objs
        /\ out' \in SUBSET Objs
        /\ m_Lock' \in SUBSET Threads /\ leaked' \in SUBSET Objs
        /\ reclaiming' \in [Threads -> Objs \cup {NoObj}]
    BY <1>1, <1>2, <1>3 DEF TypeOK
  <2> QED BY <2>1, <2>2 DEF TypeOK
<1>7. OnePlace'
  <2>1. \A i, j \in 1..Len(kept) : kept[i] = kept[j] => i = j
    BY <1>3, <1>4 DEF Distinct
  <2>2. /\ Free' \cap out' = {} /\ Free' \cap Reclaimed' = {}
        /\ out' \cap Reclaimed' = {}
    BY <1>1, <1>2, <1>3 DEF OnePlace
  <2>3. \A u, v \in Threads :
          reclaiming'[u] = reclaiming'[v] /\ reclaiming'[u] # NoObj => u = v
    BY <1>1, <1>5 DEF OnePlace
  <2> QED BY <2>1, <2>2, <2>3, <1>2 DEF OnePlace
<1>8. FlagMeansOut'
  <2>1. ASSUME NEW o \in Free' PROVE ~m_bInUse'[o]
    <3>1. o \in Free \cup {r} BY <1>3
    <3>2. CASE o = r BY <3>2, <1>1, <1>2, <1>3 DEF TypeOK
    <3>3. CASE o # r
      <4>1. o \in Free /\ o \in Objs BY <3>1, <3>3, <1>1 DEF Free, InList, TypeOK
      <4>2. ~m_bInUse[o] BY <4>1, <1>1 DEF FlagMeansOut
      <4> QED BY <4>1, <4>2, <3>3, <1>1, <1>2 DEF TypeOK
    <3> QED BY <3>2, <3>3
  <2>2. ASSUME NEW o \in out' \cup Reclaimed' PROVE m_bInUse'[o]
    <3>1. o \in out \cup Reclaimed /\ o # r BY <1>1, <1>2, <1>3 DEF OnePlace
    <3>2. o \in Objs /\ m_bInUse[o]
      BY <3>1, <1>1 DEF FlagMeansOut, TypeOK, Reclaimed
    <3> QED BY <3>1, <3>2, <1>1, <1>2 DEF TypeOK
  <2> QED BY <2>1, <2>2 DEF FlagMeansOut
<1>9. NothingLostNothingDangling'
  BY <1>1, <1>2, <1>3
     DEF NothingLostNothingDangling, OnePlace
<1> QED BY <1>6, <1>7, <1>8, <1>9 DEF IInv

(* The exception moves the object from the thread to the lost ones. *)
LEMMA ReclaimThrowsKeeps ==
  ASSUME NEW t \in Threads, IInv, ReclaimThrows(t)
  PROVE  IInv'
<1> DEFINE r == reclaiming[t]
<1>1. TypeOK /\ OnePlace /\ FlagMeansOut /\ NothingLostNothingDangling
  BY DEF IInv
<1>2. /\ r # NoObj
      /\ m_bInUse' = [m_bInUse EXCEPT ![r] = FALSE]
      /\ leaked' = leaked \cup {r} /\ m_Lock' = {t}
      /\ reclaiming' = [reclaiming EXCEPT ![t] = NoObj]
      /\ UNCHANGED <<m_listFreeObject, m_nTotalCount, alive, out>>
  BY DEF ReclaimThrows
<1>3. r \in Objs /\ r \in Reclaimed BY <1>1, <1>2 DEF TypeOK, Reclaimed
<1>4. reclaiming'[t] = NoObj /\ \A u \in Threads \ {t} : reclaiming'[u] = reclaiming[u]
  BY <1>1, <1>2 DEF TypeOK
<1>5. Reclaimed' = Reclaimed \ {r}
  <2>1. \A u \in Threads \ {t} : reclaiming[u] # r BY <1>1, <1>2 DEF OnePlace
  <2> QED BY <1>2, <1>4, <2>1 DEF Reclaimed
<1>6. Free' = Free BY <1>2 DEF Free, InList
<1>7. r \notin Free /\ r \notin out BY <1>1, <1>3 DEF OnePlace
<1> HIDE DEF r
<1>8. TypeOK' BY <1>1, <1>2, <1>3 DEF TypeOK
<1>9. OnePlace'
  <2>1. \A u, v \in Threads :
          reclaiming'[u] = reclaiming'[v] /\ reclaiming'[u] # NoObj => u = v
    BY <1>1, <1>4 DEF OnePlace
  <2>2. /\ Free' \cap out' = {} /\ Free' \cap Reclaimed' = {}
        /\ out' \cap Reclaimed' = {}
    BY <1>1, <1>2, <1>5, <1>6 DEF OnePlace
  <2> QED BY <1>1, <1>2, <2>1, <2>2 DEF OnePlace
<1>10. FlagMeansOut'
  <2>1. ASSUME NEW o \in Free' PROVE ~m_bInUse'[o]
    <3>1. o \in Free /\ o \in Objs /\ o # r
      BY <1>1, <1>6, <1>7 DEF Free, InList, TypeOK
    <3> QED BY <3>1, <1>1, <1>2 DEF TypeOK, FlagMeansOut
  <2>2. ASSUME NEW o \in out' \cup Reclaimed' PROVE m_bInUse'[o]
    <3>1. o \in out \cup Reclaimed /\ o # r BY <1>2, <1>5, <1>7
    <3>2. o \in Objs /\ m_bInUse[o]
      BY <3>1, <1>1 DEF FlagMeansOut, TypeOK, Reclaimed
    <3> QED BY <3>1, <3>2, <1>1, <1>2 DEF TypeOK
  <2> QED BY <2>1, <2>2 DEF FlagMeansOut
<1>11. NothingLostNothingDangling'
  BY <1>1, <1>2, <1>3, <1>5, <1>6, <1>7 DEF NothingLostNothingDangling
<1> QED BY <1>8, <1>9, <1>10, <1>11 DEF IInv

LEMMA NextIInv == IInv /\ [Next]_vars => IInv'
<1> SUFFICES ASSUME IInv, [Next]_vars PROVE IInv' OBVIOUS
<1>1. ASSUME NEW t \in Threads, ApplyFromList(t) PROVE IInv'
  BY <1>1, ApplyFromListKeeps
<1>2. ASSUME NEW t \in Threads, ApplyGrowing(t) PROVE IInv'
  BY <1>2, ApplyGrowingKeeps
<1>3. ASSUME NEW t \in Threads, NEW o \in Objs, ReclaimTest(t, o) PROVE IInv'
  BY <1>3, ReclaimTestKeeps
<1>4. ASSUME NEW t \in Threads, ReclaimLocked(t) PROVE IInv'
  BY <1>4, ReclaimLockedKeeps
<1>5. ASSUME NEW t \in Threads, ReclaimThrows(t) PROVE IInv'
  BY <1>5, ReclaimThrowsKeeps
<1>6. CASE UNCHANGED vars
  BY <1>6 DEF vars, IInv, TypeOK, OnePlace, FlagMeansOut,
              NothingLostNothingDangling, Free, Reclaimed, InList
<1> QED BY <1>1, <1>2, <1>3, <1>4, <1>5, <1>6 DEF Next, ApplyObj

(* The inductive invariant holds in every state. *)
THEOREM InvariantHolds == Spec => []IInv
<1> QED BY InitIInv, NextIInv, PTL DEF Spec

(* CPool keeps its types: the count never leaves size_t, and the list holds *)
(* objects only.                                                            *)
THEOREM TypeCorrect == Spec => []TypeOK
<1>1. IInv => TypeOK BY DEF IInv
<1> QED BY <1>1, InvariantHolds, PTL

(* ApplyObj never hands out an object that another user still has, nor     *)
(* names one twice in the free list.                                       *)
THEOREM OneUserPerObject == Spec => []OnePlace
<1>1. IInv => OnePlace BY DEF IInv
<1> QED BY <1>1, InvariantHolds, PTL

(* The unlocked InUse test of ReclaimObj refuses no object in use, and the *)
(* one of ApplyObj drops none.                                             *)
THEOREM FlagIsRight == Spec => []FlagMeansOut
<1>1. IInv => FlagMeansOut BY DEF IInv
<1> QED BY <1>1, InvariantHolds, PTL

(* Trimming deletes only free objects, and an object is lost only with the *)
(* list node that the heap refused it: the live objects are at every moment *)
(* the free ones, those in use and those lost ones.                        *)
THEOREM OnlyAFailedNodeLoses == Spec => []NothingLostNothingDangling
<1>1. IInv => NothingLostNothingDangling BY DEF IInv
<1> QED BY <1>1, InvariantHolds, PTL

----------------------------------------------------------------------------
(* Taking an object never lengthens the list. *)
LEMMA TakeShortens ==
  ASSUME NEW list \in Seq(Objs), NEW flags, TakeFrom(list, flags)
  PROVE  Len(m_listFreeObject') <= Len(list)
<1>1. CASE m_listFreeObject' = << >> BY <1>1
<1>2. ASSUME NEW i \in 1..Len(list),
             m_listFreeObject' = SubSeq(list, i + 1, Len(list))
      PROVE  Len(m_listFreeObject') <= Len(list)
  <2>1. \A j \in (i + 1)..Len(list) : list[j] \in Objs OBVIOUS
  <2>2. i + 1 \in Int /\ Len(list) \in Nat OBVIOUS
  <2>3. Len(SubSeq(list, i + 1, Len(list)))
          = IF i + 1 <= Len(list) THEN Len(list) - (i + 1) + 1 ELSE 0
    BY <2>1, <2>2, SubSeqProperties
  <2> QED BY <1>2, <2>2, <2>3
<1> QED BY <1>1, <1>2 DEF TakeFrom

(* Trimming cuts every list that a reclaim can make back below the bound. *)
LEMMA TrimmedBounded ==
  ASSUME NEW s \in Seq(Objs)
  PROVE  Len(Trimmed(s)) < 2 * SIZE
<1>1. CASE Len(s) >= 2 * SIZE
  <2>1. SIZE - 1 \in 0..Len(s) BY <1>1
  <2>2. Len(SubSeq(s, 1, SIZE - 1)) = SIZE - 1 BY <2>1, PrefixFacts
  <2> QED BY <1>1, <2>2 DEF Trimmed
<1>2. CASE ~(Len(s) >= 2 * SIZE) BY <1>2 DEF Trimmed
<1> QED BY <1>1, <1>2

LEMMA NextBounded == IInv /\ FreeBounded /\ [Next]_vars => FreeBounded'
<1> SUFFICES ASSUME IInv, FreeBounded, [Next]_vars PROVE FreeBounded' OBVIOUS
<1>1. m_listFreeObject \in Seq(Objs) /\ reclaiming \in [Threads -> Objs \cup {NoObj}]
  BY DEF IInv, TypeOK
<1>2. Len(m_listFreeObject) \in Nat /\ SIZE \in Nat \ {0} BY <1>1
<1>3. ASSUME NEW t \in Threads, ApplyFromList(t) PROVE FreeBounded'
  <2>1. Len(m_listFreeObject') <= Len(m_listFreeObject)
    BY <1>1, <1>3, TakeShortens DEF ApplyFromList
  <2>2. m_listFreeObject' \in Seq(Objs) BY <1>3, ApplyFromListKeeps DEF IInv, TypeOK
  <2> QED BY <1>2, <2>1, <2>2 DEF FreeBounded
<1>4. ASSUME NEW t \in Threads, ApplyGrowing(t) PROVE FreeBounded'
  <2>1. PICK made \in GrowthRuns : \E flags : TakeFrom(made, flags)
    BY <1>4 DEF ApplyGrowing
  <2>2. made \in Seq(Objs) /\ Len(made) <= SIZE BY GrowthRunFacts
  <2>3. Len(m_listFreeObject') <= Len(made) BY <2>1, <2>2, TakeShortens
  <2>4. m_listFreeObject' \in Seq(Objs) BY <1>4, ApplyGrowingKeeps DEF IInv, TypeOK
  <2>5. Len(m_listFreeObject') \in Nat /\ Len(made) \in Nat BY <2>2, <2>4
  <2> QED BY <1>2, <2>2, <2>3, <2>5 DEF FreeBounded
<1>5. ASSUME NEW t \in Threads, ReclaimLocked(t) PROVE FreeBounded'
  <2>1. reclaiming[t] \in Objs BY <1>1, <1>5 DEF ReclaimLocked
  <2>2. Append(m_listFreeObject, reclaiming[t]) \in Seq(Objs) BY <1>1, <2>1
  <2>3. m_listFreeObject' = Trimmed(Append(m_listFreeObject, reclaiming[t]))
    BY <1>5 DEF ReclaimLocked
  <2> QED BY <2>2, <2>3, TrimmedBounded DEF FreeBounded
<1>6. ASSUME NEW t \in Threads, NEW o \in Objs, ReclaimTest(t, o) PROVE FreeBounded'
  BY <1>6 DEF ReclaimTest, FreeBounded
<1>7. ASSUME NEW t \in Threads, ReclaimThrows(t) PROVE FreeBounded'
  BY <1>7 DEF ReclaimThrows, FreeBounded
<1>8. CASE UNCHANGED vars BY <1>8 DEF vars, FreeBounded
<1> QED BY <1>3, <1>4, <1>5, <1>6, <1>7, <1>8 DEF Next, ApplyObj

(* The idle stock stays below twice the growth step, however the program   *)
(* and a failing heap behave.                                              *)
THEOREM IdleStockBounded == Spec => []FreeBounded
<1>1. Init => FreeBounded
  <2> SUFFICES ASSUME Init PROVE FreeBounded OBVIOUS
  <2>1. Len(m_listFreeObject) = SIZE BY FreshRunFacts DEF Init
  <2> QED BY <2>1 DEF FreeBounded
<1>2. IInv /\ FreeBounded /\ [Next]_vars => FreeBounded' BY NextBounded
<1> QED BY <1>1, <1>2, InvariantHolds, PTL DEF Spec

----------------------------------------------------------------------------
(* The refinement: the stock is what the free list holds. *)

(* A list of distinct objects has as many as it is long. *)
LEMMA DistinctCount ==
  ASSUME NEW s \in Seq(Objs), Distinct(s)
  PROVE  IsFiniteSet(InList(s)) /\ Cardinality(InList(s)) = Len(s)
<1>1. Len(s) \in Nat OBVIOUS
<1> DEFINE f == [i \in 1..Len(s) |-> s[i]]
<1>2. f \in Bijection(1..Len(s), InList(s))
  BY <1>1 DEF Bijection, Injection, Surjection, IsInjective, InList, Distinct
<1>3. ExistsBijection(1..Len(s), InList(s)) BY <1>2 DEF ExistsBijection
<1>4. IsFiniteSet(InList(s)) BY <1>1, <1>3, FS_NatBijection
<1> QED BY <1>1, <1>3, <1>4, FS_CountingElements

(* The abstract module's Cardinality is this one's. *)
LEMMA SameCount == ASSUME NEW S PROVE Alloc!Cardinality(S) = Cardinality(S)
BY DEF Alloc!Cardinality, Cardinality

LEMMA AllocInitially == Init => Alloc!AllocInit
<1> SUFFICES ASSUME Init PROVE Alloc!AllocInit OBVIOUS
<1>1. /\ m_listFreeObject \in Seq(Objs) /\ Len(m_listFreeObject) = SIZE
      /\ Distinct(m_listFreeObject) /\ Free \subseteq Objs
  BY FreshRunFacts DEF Init, Free
<1>2. Cardinality(Free) = SIZE BY <1>1, DistinctCount DEF Free
<1>3. out = {} /\ Reclaimed = {} /\ leaked = {} BY DEF Init, Reclaimed
<1> QED BY <1>1, <1>2, <1>3, SameCount DEF Alloc!AllocInit

(* What a list holds after its first idle object was taken. *)
LEMMA TakePlaces ==
  ASSUME NEW list \in Seq(Objs), NEW flags \in [Objs -> BOOLEAN],
         TakeFrom(list, flags), Distinct(list),
         \A i \in 1..Len(list) : ~flags[list[i]]
  PROVE  \/ list = << >> /\ Free' = {} /\ out' = out
         \/ \E o \in InList(list) :
              o \in Objs /\ Free' = InList(list) \ {o} /\ out' = out \cup {o}
<1>1. CASE list = << >>
  <2>1. m_listFreeObject' = << >> /\ out' = out BY <1>1, TakeFacts
  <2>2. Free' = {} BY <2>1 DEF Free, InList
  <2> QED BY <1>1, <2>1, <2>2
<1>2. CASE list # << >>
  <2>1. m_listFreeObject' = SubSeq(list, 2, Len(list)) /\ out' = out \cup {list[1]}
    BY <1>2, TakeFacts
  <2> QED BY <1>2, <2>1, RestPlaces DEF Free
<1> QED BY <1>1, <1>2

LEMMA AllocFromList ==
  ASSUME NEW t \in Threads, IInv, ApplyFromList(t)
  PROVE  Alloc!AllocNext
<1>1. /\ m_listFreeObject \in Seq(Objs) /\ m_bInUse \in [Objs -> BOOLEAN]
      /\ Distinct(m_listFreeObject)
      /\ \A i \in 1..Len(m_listFreeObject) : ~m_bInUse[m_listFreeObject[i]]
  BY DEF IInv, TypeOK, OnePlace, Distinct, FlagMeansOut, Free, InList
<1>2. /\ m_listFreeObject # << >> /\ Reclaimed' = Reclaimed /\ leaked' = leaked
      /\ TakeFrom(m_listFreeObject, m_bInUse)
  BY DEF ApplyFromList, Reclaimed
<1>3. PICK o \in Free : o \in Objs /\ Free' = Free \ {o} /\ out' = out \cup {o}
  BY <1>1, <1>2, TakePlaces DEF Free
<1>4. Alloc!Lend(o) BY <1>2, <1>3 DEF Alloc!Lend
<1> QED BY <1>3, <1>4 DEF Alloc!AllocNext

(* A growth that lists no object lends none. *)
LEMMA AllocGrowing ==
  ASSUME NEW t \in Threads, IInv, ApplyGrowing(t)
  PROVE  Alloc!AllocNext
<1>0. PICK made \in GrowthRuns : \E lost \in Unlisted(made) :
        Construct(made, lost) /\ TakeFrom(made, FlagsWith(InList(made) \cup lost))
  BY DEF ApplyGrowing
<1>1. PICK lost \in Unlisted(made) :
        Construct(made, lost) /\ TakeFrom(made, FlagsWith(InList(made) \cup lost))
  BY <1>0
<1> DEFINE flags == FlagsWith(InList(made) \cup lost)
<1>2. /\ made \in Seq(Objs) /\ Distinct(made) /\ InList(made) \cap alive = {}
      /\ Len(made) <= SIZE
      /\ lost \in SUBSET Objs /\ lost \cap alive = {} /\ lost \cap InList(made) = {}
  BY GrowthRunFacts, UnlistedFacts
<1>3. /\ flags \in [Objs -> BOOLEAN]
      /\ \A i \in 1..Len(made) : ~flags[made[i]]
  <2>1. flags \in [Objs -> BOOLEAN] BY DEF FlagsWith, IInv, TypeOK
  <2>2. ASSUME NEW i \in 1..Len(made) PROVE ~flags[made[i]]
    <3>1. made[i] \in Objs /\ made[i] \in InList(made) BY <1>2 DEF InList
    <3> QED BY <3>1 DEF FlagsWith
  <2> QED BY <2>1, <2>2
<1>4. Free = {} /\ Reclaimed' = Reclaimed /\ leaked' = leaked \cup lost
  BY <1>1 DEF ApplyGrowing, Construct, Free, InList, Reclaimed
<1>5. (InList(made) \cup lost) \cap (out \cup Reclaimed \cup leaked) = {}
  BY <1>2 DEF IInv, NothingLostNothingDangling
<1>6. /\ Cardinality(InList(made)) <= SIZE /\ InList(made) \in SUBSET Objs
      /\ lost \in {{}} \cup {{o} : o \in Objs}
  <2>1. Cardinality(InList(made)) = Len(made) BY <1>2, DistinctCount
  <2>2. InList(made) \in SUBSET Objs BY <1>2 DEF InList
  <2>3. lost \in {{}} \cup {{o} : o \in Objs} BY DEF Unlisted
  <2> QED BY <1>2, <2>1, <2>2, <2>3
<1> SUFFICES ASSUME \/ made = << >> /\ Free' = {} /\ out' = out
                    \/ \E o \in InList(made) :
                         Free' = InList(made) \ {o} /\ out' = out \cup {o}
             PROVE  Alloc!Grow(InList(made), lost)
  <2> HIDE DEF flags
  <2>1. TakeFrom(made, flags) BY <1>1 DEF flags
  <2> QED BY <1>2, <1>3, <1>6, <2>1, TakePlaces DEF Alloc!AllocNext
<1>7. made = << >> => InList(made) = {} BY DEF InList
<1> QED BY <1>2, <1>4, <1>5, <1>6, <1>7, SameCount DEF Alloc!Grow

LEMMA AllocReclaimTest ==
  ASSUME NEW t \in Threads, NEW o \in Objs, IInv, ReclaimTest(t, o)
  PROVE  Alloc!AllocNext
<1>1. o \in out /\ out' = out \ {o} /\ Free' = Free /\ leaked' = leaked
  BY DEF ReclaimTest, Free, InList
<1>2. reclaiming[t] = NoObj /\ reclaiming' = [reclaiming EXCEPT ![t] = o]
  BY <1>1 DEF ReclaimTest, IInv, FlagMeansOut
<1>3. reclaiming'[t] = o /\ \A u \in Threads \ {t} : reclaiming'[u] = reclaiming[u]
  BY <1>2 DEF IInv, TypeOK
<1>4. o # NoObj OBVIOUS
<1>5. Reclaimed' = Reclaimed \cup {o} BY <1>2, <1>3, <1>4 DEF Reclaimed
<1>6. Alloc!GiveBack(o) BY <1>1, <1>5 DEF Alloc!GiveBack
<1> QED BY <1>6 DEF Alloc!AllocNext

(* The cut leaves SIZE - 1 objects, when the list held 2 * SIZE. *)
LEMMA AllocReclaimLocked ==
  ASSUME NEW t \in Threads, IInv, ReclaimLocked(t)
  PROVE  Alloc!AllocNext
<1> DEFINE r == reclaiming[t]
           list == Append(m_listFreeObject, r)
           kept == Trimmed(list)
<1>1. /\ r \in Objs /\ r \in Reclaimed
      /\ list \in Seq(Objs) /\ Distinct(list) /\ InList(list) = Free \cup {r}
      /\ kept \in Seq(Objs) /\ Len(kept) <= Len(list)
      /\ \A i \in 1..Len(kept) : kept[i] = list[i]
      /\ Free' = InList(kept) /\ InList(kept) \subseteq InList(list)
      /\ Reclaimed' = Reclaimed \ {r}
  BY ReclaimLockedMoves
<1>2. out' = out /\ leaked' = leaked BY DEF ReclaimLocked
<1> HIDE DEF r, list
<1>3. Cardinality(Free \cup {r}) = Len(list) /\ Len(list) \in Nat
  <2>1. Cardinality(InList(list)) = Len(list) BY <1>1, DistinctCount
  <2>2. Len(list) \in Nat BY <1>1
  <2> QED BY <1>1, <2>1, <2>2
<1>4. CASE Len(list) < 2 * SIZE
  <2>1. kept = list BY <1>3, <1>4 DEF Trimmed
  <2>2. Alloc!Restock(r)
    BY <1>1, <1>2, <1>3, <1>4, <2>1, SameCount DEF Alloc!Restock
  <2> QED BY <1>1, <2>2 DEF Alloc!AllocNext
<1>5. CASE ~(Len(list) < 2 * SIZE)
  <2>1. SIZE - 1 \in 0..Len(list) /\ kept = SubSeq(list, 1, SIZE - 1)
    BY <1>3, <1>5 DEF Trimmed
  <2>2. Len(kept) = SIZE - 1 BY <1>1, <2>1, PrefixFacts
  <2> HIDE DEF kept
  <2>3. Distinct(kept)
    <3> SUFFICES ASSUME NEW i \in 1..Len(kept), NEW j \in 1..Len(kept), kept[i] = kept[j]
                 PROVE  i = j
      BY DEF Distinct
    <3>1. i \in 1..Len(list) /\ j \in 1..Len(list) BY <1>1, <1>3, <2>2
    <3>2. list[i] = list[j] BY <1>1
    <3> QED BY <1>1, <3>1, <3>2 DEF Distinct
  <2>4. Cardinality(Free') = SIZE - 1 BY <1>1, <2>2, <2>3, DistinctCount
  <2>5. Alloc!Restock(r) BY <1>1, <1>2, <1>3, <1>5, <2>4, SameCount DEF Alloc!Restock
  <2> QED BY <1>1, <2>5 DEF Alloc!AllocNext
<1> QED BY <1>4, <1>5

LEMMA AllocReclaimThrows ==
  ASSUME NEW t \in Threads, IInv, ReclaimThrows(t)
  PROVE  Alloc!AllocNext
<1> DEFINE r == reclaiming[t]
<1>1. /\ r # NoObj /\ leaked' = leaked \cup {r} /\ out' = out
      /\ reclaiming' = [reclaiming EXCEPT ![t] = NoObj]
      /\ Free' = Free
  BY DEF ReclaimThrows, Free, InList
<1>2. r \in Objs /\ r \in Reclaimed BY <1>1 DEF IInv, TypeOK, Reclaimed
<1>3. reclaiming'[t] = NoObj /\ \A u \in Threads \ {t} : reclaiming'[u] = reclaiming[u]
  BY <1>1 DEF IInv, TypeOK
<1>4. Reclaimed' = Reclaimed \ {r}
  <2>1. \A u \in Threads \ {t} : reclaiming[u] # r BY <1>1 DEF IInv, OnePlace
  <2> QED BY <1>1, <1>3, <2>1 DEF Reclaimed
<1>5. Alloc!Lose(r) BY <1>1, <1>2, <1>4 DEF Alloc!Lose
<1> QED BY <1>2, <1>5 DEF Alloc!AllocNext

(* The free list, the flags, growth and trimming together implement the    *)
(* allocator, for any threads and any heap: an object goes round from the  *)
(* stock to one user and back, and only idle ones are made or deleted; one *)
(* that a failing heap took is never lent again.                           *)
THEOREM PoolIsAllocator == Spec => ImplementsAllocator
<1>1. IInv /\ [Next]_vars => [Alloc!AllocNext]_(Alloc!allocVars)
  <2> SUFFICES ASSUME IInv, [Next]_vars
               PROVE  Alloc!AllocNext \/ UNCHANGED Alloc!allocVars
    OBVIOUS
  <2>1. CASE UNCHANGED vars
    BY <2>1 DEF vars, Free, InList, Reclaimed, Alloc!allocVars
  <2> QED BY <2>1, AllocFromList, AllocGrowing, AllocReclaimTest, AllocReclaimLocked,
             AllocReclaimThrows
          DEF Next, ApplyObj
<1> QED BY <1>1, AllocInitially, InvariantHolds, PTL
        DEF Spec, ImplementsAllocator, Alloc!AllocSpec
=============================================================================
