----------------------------- MODULE ObjectPool -----------------------------
(***************************************************************************)
(* CPool (Service/Pool.h): the free list every message, connection, buffer *)
(* block, queue node and request of the library comes from.                *)
(*                                                                         *)
(* An object is an address.  ApplyObj takes one from the free list, growing *)
(* it by SIZE when it is empty; ReclaimObj puts one back and, when 2*SIZE  *)
(* are free, deletes down to SIZE - 1.  ReclaimObj tests InUse before it   *)
(* takes the lock, so it is two actions.  An object may be applied by one  *)
(* thread and reclaimed by another; the program reclaims each one once.    *)
(*                                                                         *)
(* The heap may fail at any allocation: of an object, which ends a growth, *)
(* and of a node of the std::list, which loses the object that was to be   *)
(* pushed.  In ApplyObj the exception is caught; in ReclaimObj it leaves   *)
(* with m_Lock held, so m_Lock is a variable.                              *)
(***************************************************************************)
EXTENDS Naturals, Sequences, FiniteSets

CONSTANTS
  Threads,   (* threads that use the pool                              *)
  Objs,      (* the addresses `new` can return                         *)
  NoObj,     (* NULL                                                   *)
  SIZE,      (* growth step, the template parameter SIZE               *)
  SIZE_T,    (* size_t counts modulo this                              *)
  MaxOut     (* bound: objects applied and not yet reclaimed           *)

ASSUME PoolAssumption ==
  /\ NoObj \notin Objs
  /\ SIZE \in Nat \ {0}
  /\ SIZE_T \in Nat /\ SIZE_T > 2 * SIZE
  /\ MaxOut \in Nat
  /\ IsFiniteSet(Objs)

VARIABLES
  m_listFreeObject,   (* the free list                                      *)
  m_bInUse,           (* the flag in each object                            *)
  m_nTotalCount,      (* the pool's own count of its objects                *)
  alive,              (* the objects constructed and not deleted            *)
  m_Lock,             (* {t} once thread t left ReclaimObj by an exception, *)
                      (* {} otherwise: the critical sections are one step   *)
  leaked,             (* ghost: the objects that got no node                *)
  out,                (* objects the program holds                          *)
  reclaiming          (* per thread, the object between ReclaimObj's test   *)
                      (* and its critical section                           *)

vars == <<m_listFreeObject, m_bInUse, m_nTotalCount, alive, m_Lock, leaked, out,
          reclaiming>>

InList(s) == {s[i] : i \in 1..Len(s)}

(* Sequences of n distinct addresses that no live object has. *)
FreshRuns(n, used) ==
  {s \in [1..n -> Objs \ used] : \A i, j \in 1..n : s[i] = s[j] => i = j}

Init ==
  /\ alive \in {InList(s) : s \in FreshRuns(SIZE, {})}
  /\ m_listFreeObject \in FreshRuns(SIZE, {})
  /\ InList(m_listFreeObject) = alive
  /\ m_bInUse = [o \in Objs |-> FALSE]
  /\ m_nTotalCount = SIZE
  /\ m_Lock = {} /\ leaked = {} /\ out = {}
  /\ reclaiming = [t \in Threads |-> NoObj]

----------------------------------------------------------------------------
(* A thread gets in when no other thread holds the lock: it is recursive.  *)
MayLock(t) == m_Lock \subseteq {t}

(* What ConstructObject may get: SIZE objects in the list, or fewer when   *)
(* the heap fails on the way, and one more that got no node when it fails  *)
(* inside push_back.                                                       *)
GrowthRuns == UNION {FreshRuns(n, alive) : n \in 0..SIZE}

Unlisted(made) ==
  {{}} \cup IF Len(made) = SIZE THEN {}
            ELSE {{o} : o \in Objs \ (alive \cup InList(made))}

(* ConstructObject: when it is cut short, the objects made so far stay in  *)
(* the list and the count is not raised.                                   *)
Construct(made, lost) ==
  /\ alive' = alive \cup InList(made) \cup lost
  /\ leaked' = leaked \cup lost
  /\ m_nTotalCount' =
       (m_nTotalCount + (IF Len(made) = SIZE THEN SIZE ELSE 0)) % SIZE_T

(* Construct clears the flag of each object it makes. *)
FlagsWith(new) == [o \in Objs |-> m_bInUse[o] /\ o \notin new]

TakeFrom_LeavesItListed(list, flags) ==
  /\ m_listFreeObject' = list
  /\ \E i \in 1..Len(list) :
       /\ ~flags[list[i]]
       /\ m_bInUse' = [flags EXCEPT ![list[i]] = TRUE]
       /\ out' = out \cup {list[i]}

(* Take the first object of the list whose flag is clear; the ones passed  *)
(* over are dropped.  NULL when there is none.                             *)
TakeFrom(list, flags) ==
  \/ \E i \in 1..Len(list) :
       /\ ~flags[list[i]]
       /\ \A j \in 1..(i - 1) : flags[list[j]]
       /\ m_listFreeObject' = SubSeq(list, i + 1, Len(list))
       /\ m_bInUse' = [flags EXCEPT ![list[i]] = TRUE]
       /\ out' = out \cup {list[i]}
  \/ /\ \A i \in 1..Len(list) : flags[list[i]]
     /\ m_listFreeObject' = << >>
     /\ m_bInUse' = flags
     /\ UNCHANGED out

OutCount == Cardinality(out) + Cardinality({t \in Threads : reclaiming[t] # NoObj})

ApplyFromList(t) ==
  /\ reclaiming[t] = NoObj /\ MayLock(t)
  /\ m_listFreeObject # << >>
  /\ OutCount < MaxOut
  /\ TakeFrom(m_listFreeObject, m_bInUse)
  /\ UNCHANGED <<m_nTotalCount, alive, m_Lock, leaked, reclaiming>>

ApplyGrowing(t) ==
  /\ reclaiming[t] = NoObj /\ MayLock(t)
  /\ m_listFreeObject = << >>
  /\ OutCount < MaxOut
  /\ \E made \in GrowthRuns : \E lost \in Unlisted(made) :
       /\ Construct(made, lost)
       /\ TakeFrom(made, FlagsWith(InList(made) \cup lost))
  /\ UNCHANGED <<m_Lock, reclaiming>>

ApplyObj(t) == ApplyFromList(t) \/ ApplyGrowing(t)

----------------------------------------------------------------------------
ReclaimTest_RefusesWhenInUse(t, o) ==
  /\ reclaiming[t] = NoObj
  /\ o \in out
  /\ out' = out \ {o}
  /\ reclaiming' = [reclaiming EXCEPT ![t] = IF m_bInUse[o] THEN NoObj ELSE o]
  /\ UNCHANGED <<m_listFreeObject, m_bInUse, m_nTotalCount, alive, m_Lock, leaked>>

(* ReclaimObj up to the lock: an object that is not in use is left alone. *)
ReclaimTest(t, o) ==
  /\ reclaiming[t] = NoObj
  /\ o \in out
  /\ out' = out \ {o}
  /\ reclaiming' = [reclaiming EXCEPT ![t] = IF m_bInUse[o] THEN o ELSE NoObj]
  /\ UNCHANGED <<m_listFreeObject, m_bInUse, m_nTotalCount, alive, m_Lock, leaked>>

Trimmed_OnlyBeyondTwice(list) ==
  IF Len(list) > 2 * SIZE THEN SubSeq(list, 1, SIZE - 1) ELSE list

(* What trimming keeps of a list: the objects are deleted from its back. *)
Trimmed(list) ==
  IF Len(list) >= 2 * SIZE THEN SubSeq(list, 1, SIZE - 1) ELSE list

ReclaimLocked_FlagKept(t) ==
  LET list == Append(m_listFreeObject, reclaiming[t])
      kept == Trimmed(list)
  IN  /\ reclaiming[t] # NoObj /\ MayLock(t)
      /\ m_listFreeObject' = kept
      /\ alive' = alive \ (InList(list) \ InList(kept))
      /\ m_nTotalCount' = (m_nTotalCount + SIZE_T - (Len(list) - Len(kept))) % SIZE_T
      /\ reclaiming' = [reclaiming EXCEPT ![t] = NoObj]
      /\ UNCHANGED <<m_bInUse, m_Lock, leaked, out>>

ReclaimLocked_CountsReclaims(t) ==
  LET list == Append(m_listFreeObject, reclaiming[t])
      kept == Trimmed(list)
  IN  /\ reclaiming[t] # NoObj /\ MayLock(t)
      /\ m_bInUse' = [m_bInUse EXCEPT ![reclaiming[t]] = FALSE]
      /\ m_listFreeObject' = kept
      /\ alive' = alive \ (InList(list) \ InList(kept))
      /\ m_nTotalCount' = m_nTotalCount - 1
      /\ reclaiming' = [reclaiming EXCEPT ![t] = NoObj]
      /\ UNCHANGED <<m_Lock, leaked, out>>

(* The critical section: clear the flag, append, trim. *)
ReclaimLocked(t) ==
  LET list == Append(m_listFreeObject, reclaiming[t])
      kept == Trimmed(list)
  IN  /\ reclaiming[t] # NoObj /\ MayLock(t)
      /\ m_bInUse' = [m_bInUse EXCEPT ![reclaiming[t]] = FALSE]
      /\ m_listFreeObject' = kept
      /\ alive' = alive \ (InList(list) \ InList(kept))
      /\ m_nTotalCount' = (m_nTotalCount + SIZE_T - (Len(list) - Len(kept))) % SIZE_T
      /\ reclaiming' = [reclaiming EXCEPT ![t] = NoObj]
      /\ UNCHANGED <<m_Lock, leaked, out>>

(* The critical section when push_back gets no node: the flag is clear, no *)
(* list has the object, and the exception leaves with the lock held.       *)
ReclaimThrows(t) ==
  /\ reclaiming[t] # NoObj /\ MayLock(t)
  /\ m_bInUse' = [m_bInUse EXCEPT ![reclaiming[t]] = FALSE]
  /\ leaked' = leaked \cup {reclaiming[t]}
  /\ m_Lock' = {t}
  /\ reclaiming' = [reclaiming EXCEPT ![t] = NoObj]
  /\ UNCHANGED <<m_listFreeObject, m_nTotalCount, alive, out>>

Next == \E t \in Threads :
  \/ ApplyObj(t)
  \/ \E o \in Objs : ReclaimTest(t, o)
  \/ ReclaimLocked(t)
  \/ ReclaimThrows(t)

Spec == Init /\ [][Next]_vars

----------------------------------------------------------------------------
TypeOK ==
  /\ m_listFreeObject \in Seq(Objs)
  /\ m_bInUse \in [Objs -> BOOLEAN]
  /\ m_nTotalCount \in 0..(SIZE_T - 1)
  /\ alive \in SUBSET Objs
  /\ m_Lock \in SUBSET Threads
  /\ leaked \in SUBSET Objs
  /\ out \in SUBSET Objs
  /\ reclaiming \in [Threads -> Objs \cup {NoObj}]

Free == InList(m_listFreeObject)
Reclaimed == {reclaiming[t] : t \in Threads} \ {NoObj}

(* An object is in one place only: free, held by the program, or on its    *)
(* way back in one thread.  So no two users ever share one, and the free   *)
(* list never names an object twice.                                       *)
OnePlace ==
  /\ Free \cap out = {} /\ Free \cap Reclaimed = {} /\ out \cap Reclaimed = {}
  /\ \A i, j \in 1..Len(m_listFreeObject) :
       m_listFreeObject[i] = m_listFreeObject[j] => i = j
  /\ \A t, u \in Threads :
       reclaiming[t] = reclaiming[u] /\ reclaiming[t] # NoObj => t = u

(* The flag says exactly which objects are out of the list, so ReclaimObj's *)
(* test refuses no legitimate reclaim and ApplyObj skips no free object.    *)
FlagMeansOut ==
  /\ \A o \in Free : ~m_bInUse[o]
  /\ \A o \in out \cup Reclaimed : m_bInUse[o]

(* An object is lost only to a list node that the heap refused, and none   *)
(* is deleted while somebody still has it: the live objects are the free   *)
(* ones, the ones in use and those lost ones, which nobody has.            *)
NothingLostNothingDangling ==
  /\ alive = Free \cup out \cup Reclaimed \cup leaked
  /\ leaked \cap (Free \cup out \cup Reclaimed) = {}

(* The four together are inductive. *)
IInv == TypeOK /\ OnePlace /\ FlagMeansOut /\ NothingLostNothingDangling

(* List, flags and growth together lend each object to one user at a time, *)
(* make new ones only when none is idle, and delete none but idle ones.    *)
Alloc == INSTANCE Allocator WITH
  Step <- SIZE, idle <- Free, lent <- out, returning <- Reclaimed, gone <- leaked

ImplementsAllocator == Alloc!AllocSpec

(* Trimming keeps the idle stock below twice the growth step. *)
FreeBounded == Len(m_listFreeObject) < 2 * SIZE

(* GetTotalCount is the number of objects the pool has allocated           *)
(* (Pool.h:235), at least as long as no list node has failed.              *)
TotalIsAlive == leaked = {} => m_nTotalCount = Cardinality(alive)
=============================================================================
