---------------------------- MODULE MysqlProofs ----------------------------
(***************************************************************************)
(* Proofs about MysqlSystem, for any number of connections, requests and   *)
(* retries.  The invariant is built in layers, each proved from the ones   *)
(* before it: types and who has a request (Base), tokens, the lock, the    *)
(* event of the responses, where a request is, and how often it was        *)
(* refused.  The last part maps every step to one of RequestService.       *)
(***************************************************************************)
EXTENDS MysqlSystem, FiniteSetTheorems, SequenceTheorems, WellFoundedInduction, TLAPS

Busy == {"lock", "exec", "answer", "retry"}   (* where a worker has a request *)
InSync == pcMain \in {"syncLock", "syncExec"}

(* The asynchronous requests that were routed to client c. *)
Mine(c) == {r \in 1..made : client[r] = c /\ async[r]}

(* What the types rest on: a worker has a request exactly where it needs   *)
(* one, it is of its own client, and it is retried only when it may be.    *)
MainLocal ==
  /\ back \in {"loop", "receive", "respDrain"}
  /\ pcMain \in {"post", "syncLock", "syncExec"} => made \in Reqs
  /\ InSync => ~async[made]

WorkerLocal(c) ==
  /\ cur[c] # 0 <=> pc[c] \in Busy
  /\ pc[c] = "retry" => m_nTry[cur[c]] < m_nRetryCount
  /\ cur[c] # 0 => cur[c] \in Mine(c)
  /\ \A i \in 1..Len(m_ReqQueue[c]) : m_ReqQueue[c][i] \in Mine(c)

Base == TypeOK /\ MainLocal /\ \A c \in Clients : WorkerLocal(c)

----------------------------------------------------------------------------
(* The hash of a request leads to a client. *)
LEMMA ModClients ==
  /\ 0 \in Clients /\ Clients \subseteq Nat
  /\ \A n \in Nat : n % NClients \in Clients
BY MysqlAssumption DEF Clients

LEMMA LeastOf == ASSUME NEW S \in SUBSET Nat, S # {} PROVE \E m \in S : \A j \in S : m <= j
<1> DEFINE less == {ss \in Nat \X Nat : ss[1] < ss[2]}
<1>1. IsWellFoundedOn(less, Nat)
  BY NatLessThanWellFounded, Zenon DEF OpToRel
<1> HIDE DEF less
<1>2. PICK m \in S : \A j \in S : ~(<<j, m>> \in less)
  BY <1>1, WFMin, Zenon
<1>3. \A j \in S : m <= j
  <2> SUFFICES ASSUME NEW j \in S, j < m PROVE FALSE
    OBVIOUS
  <2>1. <<j, m>> \in less
    BY DEF less
  <2> QED BY <2>1, <1>2
<1> QED BY <1>3

LEMMA RouteType == ASSUME NEW hash \in Clients PROVE Route(hash) \in Clients
<1> DEFINE start == hash % NClients
           at(i) == (start + i) % NClients
           up == {i \in Clients : connected[at(i)]}
<1>1. start \in Clients /\ \A i \in Clients : at(i) \in Clients
  <2>1. hash \in Nat /\ start \in Clients
    BY ModClients
  <2> HIDE DEF start
  <2>2. \A i \in Clients : start + i \in Nat
    BY <2>1, ModClients
  <2> QED BY <2>1, <2>2, ModClients
<1>2. CASE up = {}
  BY <1>1, <1>2 DEF Route
<1>3. CASE up # {}
  <2>1. \E m \in up : \A j \in up : m <= j
    BY <1>3, LeastOf, ModClients
  <2>2. (CHOOSE i \in up : \A j \in up : i <= j) \in up
    BY <2>1
  <2> QED BY <2>2, <1>1, <1>3 DEF Route
<1> QED BY <1>2, <1>3
----------------------------------------------------------------------------
(* What the operations on the queues of requests give.                     *)
LEMMA ReqSeqs ==
  ASSUME NEW s \in Seq(Reqs)
  PROVE  /\ \A r \in Reqs : Append(s, r) \in Seq(Reqs) /\ <<r>> \o s \in Seq(Reqs)
         /\ s # << >> => Head(s) \in Reqs /\ Tail(s) \in Seq(Reqs)
OBVIOUS

(* A worker that an action leaves alone.                                   *)
LEMMA WorkerAside ==
  ASSUME NEW c \in Clients, WorkerLocal(c),
         pc'[c] = pc[c], cur'[c] = cur[c], m_ReqQueue'[c] = m_ReqQueue[c],
         cur[c] # 0 => m_nTry'[cur[c]] = m_nTry[cur[c]],
         Mine(c) \subseteq Mine(c)'
  PROVE  WorkerLocal(c)'
BY DEF WorkerLocal, Busy

(* An action of the main thread that makes no request leaves all of them.  *)
LEMMA MainStep_Local ==
  ASSUME Base, UNCHANGED <<pc, cur, m_ReqQueue, reqVars, m_nTry>>
  PROVE  \A c \in Clients : WorkerLocal(c)'
<1>1. \A c \in Clients : Mine(c) \subseteq Mine(c)'
  BY DEF Mine, reqVars
<1> QED BY <1>1, WorkerAside DEF Base

(* An action of a worker leaves the main thread and the other workers.     *)
LEMMA WorkerStep_Local ==
  ASSUME Base, NEW c \in Clients, UNCHANGED <<mainVars, reqVars>>, TypeOK',
                                              WorkerLocal(c)',
         \A d \in Clients \ {c} :
           pc'[d] = pc[d] /\ cur'[d] = cur[d] /\ m_ReqQueue'[d] = m_ReqQueue[d],
         \A r \in Reqs \ {cur[c]} : m_nTry'[r] = m_nTry[r]
  PROVE  Base'
<1>1. MainLocal'
  BY DEF Base, MainLocal, InSync, mainVars, reqVars
<1>2. ASSUME NEW d \in Clients \ {c} PROVE WorkerLocal(d)'
  <2>1. Mine(d) \subseteq Mine(d)'
    BY DEF Mine, reqVars
  <2>2. cur[d] # 0 => cur[d] \in Reqs \ {cur[c]}
    BY DEF Base, TypeOK, WorkerLocal, Mine
  <2>3. WorkerLocal(d)
    BY DEF Base
  <2> QED BY <2>1, <2>2, <2>3, WorkerAside
<1> QED BY <1>1, <1>2 DEF Base

----------------------------------------------------------------------------
LEMMA BasePostRequest ==
  ASSUME Base, PostRequest
  PROVE  Base'
<1>1. /\ made \in Reqs /\ client[made] \in Clients
      /\ back \in {"loop", "receive", "respDrain"}
  BY DEF PostRequest, Base, TypeOK, MainLocal, InSync
<1>2. m_hSemaphore' \in [Clients -> Nat]
  BY <1>1 DEF PostRequest, Base, TypeOK, MainReturns, MainAt
<1>3. pcMain' \in MainAt
  BY <1>1 DEF PostRequest, Base, TypeOK, MainReturns, MainAt
<1>4. back' \in MainAt
  BY <1>1 DEF PostRequest, Base, TypeOK, MainReturns, MainAt
<1>5. UNCHANGED <<connected, m_bNeedReset, m_ReqQueue, m_RequestLock, pc, cur,
  scan, made, client, async, m_nTry, failures, result, m_qResponse, events,
  handled, resets>>
  BY DEF PostRequest, connVars, reqVars, mainVars, respVars, MainReturns, MainAt
<1>6. TypeOK'
  BY <1>2, <1>3, <1>4, <1>5 DEF Base, TypeOK
<1>7. MainLocal'
  BY <1>1, <1>5 DEF PostRequest, Base, MainLocal, InSync, MainReturns, MainAt
<1>8. \A c \in Clients : WorkerLocal(c)'
  BY <1>5, MainStep_Local DEF reqVars
<1> QED BY <1>6, <1>7, <1>8 DEF Base

LEMMA BaseSyncLock ==
  ASSUME Base, SyncLock
  PROVE  Base'
<1>1. /\ made \in Reqs /\ client[made] \in Clients
      /\ back \in {"loop", "receive", "respDrain"}
  BY DEF SyncLock, Base, TypeOK, MainLocal, InSync
<1>2. m_RequestLock' \in [Clients -> {"free", "worker", "main"}]
  <2>1. \/ m_RequestLock' = [m_RequestLock EXCEPT ![client[made]] = "main"]
        \/ UNCHANGED m_RequestLock
    BY DEF SyncLock, TakeRequestLock
  <2> QED BY <1>1, <2>1 DEF Base, TypeOK
<1>3. pcMain' \in MainAt
  BY <1>1 DEF SyncLock, Base, TypeOK, TakeRequestLock, MainAt
<1>4. UNCHANGED <<connected, m_bNeedReset, m_ReqQueue, m_hSemaphore, pc, cur,
  back, scan, made, client, async, m_nTry, failures, result, m_qResponse,
  events, handled, resets>>
  BY DEF SyncLock, connVars, reqVars, mainVars, respVars, TakeRequestLock, MainAt
<1>5. TypeOK'
  BY <1>2, <1>3, <1>4 DEF Base, TypeOK
<1>6. MainLocal'
  BY <1>1, <1>4 DEF SyncLock, Base, MainLocal, InSync, TakeRequestLock, MainAt
<1>7. \A c \in Clients : WorkerLocal(c)'
  BY <1>4, MainStep_Local DEF reqVars
<1> QED BY <1>5, <1>6, <1>7 DEF Base

LEMMA BaseSyncOk ==
  ASSUME Base, SyncOk
  PROVE  Base'
<1>1. /\ made \in Reqs /\ client[made] \in Clients
      /\ back \in {"loop", "receive", "respDrain"}
  BY DEF SyncOk, Base, TypeOK, MainLocal, InSync
<1>2. m_RequestLock' \in [Clients -> {"free", "worker", "main"}]
  BY <1>1 DEF SyncOk, Base, TypeOK, ReleaseRequestLock, MainReturns, MainAt
<1>3. result' \in [Reqs -> {"none", "ok", "error"}]
  BY <1>1 DEF SyncOk, Base, TypeOK, ReleaseRequestLock, MainReturns, MainAt
<1>4. handled' \in Seq(Reqs)
  BY <1>1 DEF SyncOk, Base, TypeOK, ReleaseRequestLock, MainReturns, MainAt
<1>5. pcMain' \in MainAt
  BY <1>1 DEF SyncOk, Base, TypeOK, ReleaseRequestLock, MainReturns, MainAt
<1>6. back' \in MainAt
  BY <1>1 DEF SyncOk, Base, TypeOK, ReleaseRequestLock, MainReturns, MainAt
<1>7. UNCHANGED <<connected, m_bNeedReset, m_ReqQueue, m_hSemaphore, pc, cur,
  scan, made, client, async, m_nTry, failures, m_qResponse, events, resets>>
  BY DEF SyncOk, connVars, reqVars, mainVars, respVars, ReleaseRequestLock,
     MainReturns, MainAt
<1>8. TypeOK'
  BY <1>2, <1>3, <1>4, <1>5, <1>6, <1>7 DEF Base, TypeOK
<1>9. MainLocal'
  BY <1>1, <1>7 DEF SyncOk, Base, MainLocal, InSync, ReleaseRequestLock,
     MainReturns, MainAt
<1>10. \A c \in Clients : WorkerLocal(c)'
  BY <1>7, MainStep_Local DEF reqVars
<1> QED BY <1>8, <1>9, <1>10 DEF Base

LEMMA BaseSyncFail ==
  ASSUME Base, SyncFail
  PROVE  Base'
<1>1. /\ made \in Reqs /\ client[made] \in Clients
      /\ back \in {"loop", "receive", "respDrain"}
  BY DEF SyncFail, Base, TypeOK, MainLocal, InSync
<1>2. m_RequestLock' \in [Clients -> {"free", "worker", "main"}]
  BY <1>1 DEF SyncFail, Base, TypeOK, ReleaseRequestLock, MainReturns, MainAt
<1>3. failures' \in [Reqs -> Nat]
  BY <1>1 DEF SyncFail, Base, TypeOK, ReleaseRequestLock, MainReturns, MainAt
<1>4. result' \in [Reqs -> {"none", "ok", "error"}]
  BY <1>1 DEF SyncFail, Base, TypeOK, ReleaseRequestLock, MainReturns, MainAt
<1>5. handled' \in Seq(Reqs)
  <2>1. handled' = handled \/ handled' = Append(handled, made)
    BY DEF SyncFail
  <2> QED BY <1>1, <2>1, ReqSeqs DEF Base, TypeOK
<1>6. pcMain' \in MainAt
  BY <1>1 DEF SyncFail, Base, TypeOK, ReleaseRequestLock, MainReturns, MainAt
<1>7. back' \in MainAt
  BY <1>1 DEF SyncFail, Base, TypeOK, ReleaseRequestLock, MainReturns, MainAt
<1>8. UNCHANGED <<connected, m_bNeedReset, m_ReqQueue, m_hSemaphore, pc, cur,
  scan, made, client, async, m_nTry, m_qResponse, events, resets>>
  BY DEF SyncFail, connVars, reqVars, mainVars, respVars, ReleaseRequestLock,
     MainReturns, MainAt
<1>9. TypeOK'
  BY <1>2, <1>3, <1>4, <1>5, <1>6, <1>7, <1>8 DEF Base, TypeOK
<1>10. MainLocal'
  BY <1>1, <1>8 DEF SyncFail, Base, MainLocal, InSync, ReleaseRequestLock,
     MainReturns, MainAt
<1>11. \A c \in Clients : WorkerLocal(c)'
  BY <1>8, MainStep_Local DEF reqVars
<1> QED BY <1>9, <1>10, <1>11 DEF Base

LEMMA BaseDispatch ==
  ASSUME Base, Dispatch
  PROVE  Base'
<1>1. events' \in Nat
  BY DEF Dispatch, Base, TypeOK, MainAt
<1>2. pcMain' \in MainAt
  BY DEF Dispatch, Base, TypeOK, MainAt
<1>3. UNCHANGED <<connected, m_bNeedReset, m_ReqQueue, m_hSemaphore,
  m_RequestLock, pc, cur, back, scan, made, client, async, m_nTry, failures,
  result, m_qResponse, handled, resets>>
  BY DEF Dispatch, connVars, reqVars, mainVars, respVars, MainAt
<1>4. TypeOK'
  BY <1>1, <1>2, <1>3 DEF Base, TypeOK
<1>5. MainLocal'
  BY <1>3 DEF Dispatch, Base, MainLocal, InSync, MainAt
<1>6. \A c \in Clients : WorkerLocal(c)'
  BY <1>3, MainStep_Local DEF reqVars
<1> QED BY <1>4, <1>5, <1>6 DEF Base

LEMMA BaseOnDataReceive ==
  ASSUME Base, OnDataReceive
  PROVE  Base'
<1>1. m_qResponse' \in Seq(Reqs)
  <2>1. m_qResponse' = m_qResponse \/ (m_qResponse # << >> /\ m_qResponse' = Tail(m_qResponse))
    BY DEF OnDataReceive
  <2> QED BY <2>1, ReqSeqs DEF Base, TypeOK
<1>2. handled' \in Seq(Reqs)
  <2>1. handled' = handled \/ (m_qResponse # << >> /\ handled' = Append(handled, Head(m_qResponse)))
    BY DEF OnDataReceive
  <2> QED BY <2>1, ReqSeqs DEF Base, TypeOK
<1>3. pcMain' \in MainAt
  BY DEF OnDataReceive, Base, TypeOK, MainAt
<1>4. UNCHANGED <<connected, m_bNeedReset, m_ReqQueue, m_hSemaphore,
  m_RequestLock, pc, cur, back, scan, made, client, async, m_nTry, failures,
  result, events, resets>>
  BY DEF OnDataReceive, connVars, reqVars, mainVars, respVars, MainAt
<1>5. TypeOK'
  BY <1>1, <1>2, <1>3, <1>4 DEF Base, TypeOK
<1>6. MainLocal'
  BY <1>4 DEF OnDataReceive, Base, MainLocal, InSync, MainAt
<1>7. \A c \in Clients : WorkerLocal(c)'
  BY <1>4, MainStep_Local DEF reqVars
<1> QED BY <1>5, <1>6, <1>7 DEF Base

LEMMA BaseWaitForAllDBReqIdle ==
  ASSUME Base, WaitForAllDBReqIdle
  PROVE  Base'
<1>1. scan' \in Clients
  <2>1. scan \in Nat /\ scan + 1 \in Nat
    BY ModClients DEF Base, TypeOK
  <2> HIDE DEF Clients
  <2> QED BY <2>1, ModClients DEF WaitForAllDBReqIdle, Base, TypeOK
<1>2. pcMain' \in MainAt
  BY DEF WaitForAllDBReqIdle, Base, TypeOK, MainAt
<1>3. UNCHANGED <<connected, m_bNeedReset, m_ReqQueue, m_hSemaphore,
  m_RequestLock, pc, cur, back, made, client, async, m_nTry, failures, result,
  m_qResponse, events, handled, resets>>
  BY DEF WaitForAllDBReqIdle, connVars, reqVars, mainVars, respVars, MainAt
<1>4. TypeOK'
  BY <1>1, <1>2, <1>3 DEF Base, TypeOK
<1>5. MainLocal'
  BY <1>3 DEF WaitForAllDBReqIdle, Base, MainLocal, InSync, MainAt
<1>6. \A c \in Clients : WorkerLocal(c)'
  BY <1>3, MainStep_Local DEF reqVars
<1> QED BY <1>4, <1>5, <1>6 DEF Base

LEMMA BaseWaitForAllDBRespIdle ==
  ASSUME Base, WaitForAllDBRespIdle
  PROVE  Base'
<1>1. pcMain' \in MainAt
  BY DEF WaitForAllDBRespIdle, Base, TypeOK, MainAt
<1>2. UNCHANGED <<connected, m_bNeedReset, m_ReqQueue, m_hSemaphore,
  m_RequestLock, pc, cur, back, scan, made, client, async, m_nTry, failures,
  result, m_qResponse, events, handled, resets>>
  BY DEF WaitForAllDBRespIdle, connVars, reqVars, mainVars, respVars, MainAt
<1>3. TypeOK'
  BY <1>1, <1>2 DEF Base, TypeOK
<1>4. MainLocal'
  BY <1>2 DEF WaitForAllDBRespIdle, Base, MainLocal, InSync, MainAt
<1>5. \A c \in Clients : WorkerLocal(c)'
  BY <1>2, MainStep_Local DEF reqVars
<1> QED BY <1>3, <1>4, <1>5 DEF Base

----------------------------------------------------------------------------
LEMMA BaseReset ==
  ASSUME Base, NEW c \in Clients, Reset(c)
  PROVE  Base'
<1>1. m_bNeedReset' \in [Clients -> BOOLEAN]
  BY DEF Reset, Base, TypeOK, WorkerLocal
<1>2. resets' \in 0..MaxResets
  BY MysqlAssumption DEF Reset, Base, TypeOK
<1>3. UNCHANGED <<connected, m_ReqQueue, m_hSemaphore, m_RequestLock, pc, cur,
  pcMain, back, scan, made, client, async, m_nTry, failures, result,
  m_qResponse, events, handled>>
  BY DEF Reset, connVars, reqVars, mainVars, respVars
<1>4. TypeOK'
  BY <1>1, <1>2, <1>3 DEF Base, TypeOK
<1>5. WorkerLocal(c)'
  <2>1. Mine(c)' = Mine(c)
    BY <1>3 DEF Mine
  <2> QED BY <2>1, <1>3 DEF Reset, Base, TypeOK, WorkerLocal, Busy
<1>6. /\ \A d \in Clients \ {c} :
           pc'[d] = pc[d] /\ cur'[d] = cur[d] /\ m_ReqQueue'[d] = m_ReqQueue[d]
      /\ \A r \in Reqs \ {cur[c]} : m_nTry'[r] = m_nTry[r]
  BY <1>3 DEF Reset, Base, TypeOK
<1> QED BY <1>3, <1>4, <1>5, <1>6, WorkerStep_Local DEF mainVars, reqVars

LEMMA BaseStartConnect ==
  ASSUME Base, NEW c \in Clients, StartConnect(c)
  PROVE  Base'
<1>1. connected' \in [Clients -> BOOLEAN]
  BY DEF StartConnect, Base, TypeOK, WorkerLocal, WorkerGoto, WorkerAt
<1>2. pc' \in [Clients -> WorkerAt]
  BY DEF StartConnect, Base, TypeOK, WorkerLocal, WorkerGoto, WorkerAt
<1>3. UNCHANGED <<m_bNeedReset, m_ReqQueue, m_hSemaphore, m_RequestLock, cur,
  pcMain, back, scan, made, client, async, m_nTry, failures, result,
  m_qResponse, events, handled, resets>>
  BY DEF StartConnect, connVars, reqVars, mainVars, respVars, WorkerGoto, WorkerAt
<1>4. TypeOK'
  BY <1>1, <1>2, <1>3 DEF Base, TypeOK
<1>5. WorkerLocal(c)'
  <2>1. Mine(c)' = Mine(c)
    BY <1>3 DEF Mine
  <2> QED BY <2>1, <1>3 DEF StartConnect, Base, TypeOK, WorkerLocal, Busy, WorkerGoto
<1>6. /\ \A d \in Clients \ {c} :
           pc'[d] = pc[d] /\ cur'[d] = cur[d] /\ m_ReqQueue'[d] = m_ReqQueue[d]
      /\ \A r \in Reqs \ {cur[c]} : m_nTry'[r] = m_nTry[r]
  BY <1>3 DEF StartConnect, Base, TypeOK, WorkerGoto, WorkerAt
<1> QED BY <1>3, <1>4, <1>5, <1>6, WorkerStep_Local DEF mainVars, reqVars

LEMMA BaseWaitToken ==
  ASSUME Base, NEW c \in Clients, WaitToken(c)
  PROVE  Base'
<1>1. m_hSemaphore' \in [Clients -> Nat]
  BY DEF WaitToken, Base, TypeOK, WorkerLocal, WorkerGoto, WorkerAt
<1>2. pc' \in [Clients -> WorkerAt]
  BY DEF WaitToken, Base, TypeOK, WorkerLocal, WorkerGoto, WorkerAt
<1>3. UNCHANGED <<connected, m_bNeedReset, m_ReqQueue, m_RequestLock, cur,
  pcMain, back, scan, made, client, async, m_nTry, failures, result,
  m_qResponse, events, handled, resets>>
  BY DEF WaitToken, connVars, reqVars, mainVars, respVars, WorkerGoto, WorkerAt
<1>4. TypeOK'
  BY <1>1, <1>2, <1>3 DEF Base, TypeOK
<1>5. WorkerLocal(c)'
  <2>1. Mine(c)' = Mine(c)
    BY <1>3 DEF Mine
  <2> QED BY <2>1, <1>3 DEF WaitToken, Base, TypeOK, WorkerLocal, Busy, WorkerGoto
<1>6. /\ \A d \in Clients \ {c} :
           pc'[d] = pc[d] /\ cur'[d] = cur[d] /\ m_ReqQueue'[d] = m_ReqQueue[d]
      /\ \A r \in Reqs \ {cur[c]} : m_nTry'[r] = m_nTry[r]
  BY <1>3 DEF WaitToken, Base, TypeOK, WorkerGoto, WorkerAt
<1> QED BY <1>3, <1>4, <1>5, <1>6, WorkerStep_Local DEF mainVars, reqVars

LEMMA BasePopRequest ==
  ASSUME Base, NEW c \in Clients, PopRequest(c)
  PROVE  Base'
<1>1. CASE m_ReqQueue[c] = << >>
  <2>1. UNCHANGED <<connected, m_bNeedReset, m_ReqQueue, m_hSemaphore,
                    m_RequestLock, cur, pcMain, back, scan, made, client, async,
                    m_nTry, failures, result, m_qResponse, events, handled, resets>>
    BY <1>1 DEF PopRequest, connVars, reqVars, mainVars, respVars
  <2>2. pc' = [pc EXCEPT ![c] = "wait"] /\ pc[c] = "pop"
    BY <1>1 DEF PopRequest, WorkerGoto
  <2>3. TypeOK'
    BY <2>1, <2>2 DEF Base, TypeOK, WorkerAt
  <2>4. WorkerLocal(c)'
    <3>1. Mine(c)' = Mine(c)
      BY <2>1 DEF Mine
    <3> QED BY <3>1, <2>1, <2>2 DEF Base, TypeOK, WorkerLocal, Busy
  <2>5. \A d \in Clients \ {c} : pc'[d] = pc[d]
    BY <2>2 DEF Base, TypeOK
  <2> QED BY <2>1, <2>3, <2>4, <2>5, WorkerStep_Local DEF mainVars, reqVars
<1>2. CASE m_ReqQueue[c] # << >>
  <2> DEFINE q == m_ReqQueue[c]
  <2>1. UNCHANGED <<connected, m_bNeedReset, m_hSemaphore, m_RequestLock, pcMain,
                    back, scan, made, client, async, m_nTry, failures, result,
                    m_qResponse, events, handled, resets>>
    BY <1>2 DEF PopRequest, connVars, reqVars, mainVars, respVars
  <2>2. /\ pc' = [pc EXCEPT ![c] = "lock"] /\ pc[c] = "pop"
        /\ cur' = [cur EXCEPT ![c] = Head(q)]
        /\ m_ReqQueue' = [m_ReqQueue EXCEPT ![c] = Tail(q)]
    BY <1>2 DEF PopRequest, WorkerGoto
  <2>3. q \in Seq(Reqs) /\ Head(q) \in Reqs /\ Tail(q) \in Seq(Reqs)
    BY <1>2, ReqSeqs DEF Base, TypeOK
  <2>4. TypeOK'
    BY <2>1, <2>2, <2>3 DEF Base, TypeOK, WorkerAt
  <2>5. Mine(c)' = Mine(c)
    BY <2>1 DEF Mine
  <2>6. Head(q) \in Mine(c) /\ \A i \in 1..Len(Tail(q)) : Tail(q)[i] \in Mine(c)
    <3>1. \A i \in 1..Len(q) : q[i] \in Mine(c)
      BY DEF Base, WorkerLocal
    <3>2. Head(q) = q[1] /\ 1 \in 1..Len(q)
      BY <1>2, <2>3
    <3>3. \A i \in 1..Len(Tail(q)) : Tail(q)[i] = q[i + 1] /\ i + 1 \in 1..Len(q)
      BY <1>2, <2>3
    <3> QED BY <3>1, <3>2, <3>3
  <2>7. WorkerLocal(c)'
    <3>1. Head(q) # 0
      BY <2>3 DEF Reqs
    <3>2. pc'[c] = "lock" /\ cur'[c] = Head(q) /\ m_ReqQueue'[c] = Tail(q)
      BY <2>2 DEF Base, TypeOK
    <3> QED BY <3>1, <3>2, <2>5, <2>6 DEF WorkerLocal, Busy
  <2>8. \A d \in Clients \ {c} :
          pc'[d] = pc[d] /\ cur'[d] = cur[d] /\ m_ReqQueue'[d] = m_ReqQueue[d]
    BY <2>2 DEF Base, TypeOK
  <2> QED BY <2>1, <2>4, <2>7, <2>8, WorkerStep_Local DEF mainVars, reqVars
<1> QED BY <1>1, <1>2

LEMMA BaseLockRequest ==
  ASSUME Base, NEW c \in Clients, LockRequest(c)
  PROVE  Base'
<1>1. m_RequestLock' \in [Clients -> {"free", "worker", "main"}]
  <2>1. \/ m_RequestLock' = [m_RequestLock EXCEPT ![c] = "worker"]
        \/ UNCHANGED m_RequestLock
    BY DEF LockRequest, TakeRequestLock
  <2> QED BY <2>1 DEF Base, TypeOK
<1>2. pc' \in [Clients -> WorkerAt]
  BY DEF LockRequest, Base, TypeOK, WorkerLocal, WorkerGoto, WorkerAt, TakeRequestLock
<1>3. UNCHANGED <<connected, m_bNeedReset, m_ReqQueue, m_hSemaphore, cur,
  pcMain, back, scan, made, client, async, m_nTry, failures, result,
  m_qResponse, events, handled, resets>>
  BY DEF LockRequest, connVars, reqVars, mainVars, respVars, WorkerGoto, WorkerAt,
     TakeRequestLock
<1>4. TypeOK'
  BY <1>1, <1>2, <1>3 DEF Base, TypeOK
<1>5. WorkerLocal(c)'
  <2>1. Mine(c)' = Mine(c)
    BY <1>3 DEF Mine
  <2> QED BY <2>1, <1>3 DEF LockRequest, Base, TypeOK, WorkerLocal, Busy, WorkerGoto
<1>6. /\ \A d \in Clients \ {c} :
           pc'[d] = pc[d] /\ cur'[d] = cur[d] /\ m_ReqQueue'[d] = m_ReqQueue[d]
      /\ \A r \in Reqs \ {cur[c]} : m_nTry'[r] = m_nTry[r]
  BY <1>3 DEF LockRequest, Base, TypeOK, WorkerGoto, WorkerAt, TakeRequestLock
<1> QED BY <1>3, <1>4, <1>5, <1>6, WorkerStep_Local DEF mainVars, reqVars

LEMMA BaseExecuteOk ==
  ASSUME Base, NEW c \in Clients, ExecuteOk(c)
  PROVE  Base'
<1>1. m_RequestLock' \in [Clients -> {"free", "worker", "main"}]
  BY DEF ExecuteOk, Base, TypeOK, WorkerLocal, WorkerGoto, WorkerAt,
     ReleaseRequestLock
<1>2. pc' \in [Clients -> WorkerAt]
  BY DEF ExecuteOk, Base, TypeOK, WorkerLocal, WorkerGoto, WorkerAt,
     ReleaseRequestLock
<1>3. result' \in [Reqs -> {"none", "ok", "error"}]
  BY DEF ExecuteOk, Base, TypeOK, WorkerLocal, WorkerGoto, WorkerAt,
     ReleaseRequestLock
<1>4. UNCHANGED <<connected, m_bNeedReset, m_ReqQueue, m_hSemaphore, cur,
  pcMain, back, scan, made, client, async, m_nTry, failures, m_qResponse,
  events, handled, resets>>
  BY DEF ExecuteOk, connVars, reqVars, mainVars, respVars, WorkerGoto, WorkerAt,
     ReleaseRequestLock
<1>5. TypeOK'
  BY <1>1, <1>2, <1>3, <1>4 DEF Base, TypeOK
<1>6. WorkerLocal(c)'
  <2>1. Mine(c)' = Mine(c)
    BY <1>4 DEF Mine
  <2> QED BY <2>1, <1>4 DEF ExecuteOk, Base, TypeOK, WorkerLocal, Busy, WorkerGoto
<1>7. /\ \A d \in Clients \ {c} :
           pc'[d] = pc[d] /\ cur'[d] = cur[d] /\ m_ReqQueue'[d] = m_ReqQueue[d]
      /\ \A r \in Reqs \ {cur[c]} : m_nTry'[r] = m_nTry[r]
  BY <1>4 DEF ExecuteOk, Base, TypeOK, WorkerGoto, WorkerAt, ReleaseRequestLock
<1> QED BY <1>4, <1>5, <1>6, <1>7, WorkerStep_Local DEF mainVars, reqVars

LEMMA BaseExecuteFail ==
  ASSUME Base, NEW c \in Clients, ExecuteFail(c)
  PROVE  Base'
<1>1. cur[c] \in Reqs
  BY DEF ExecuteFail, Base, TypeOK, WorkerLocal, Busy
<1>2. m_RequestLock' \in [Clients -> {"free", "worker", "main"}]
  BY DEF ExecuteFail, Base, TypeOK, ReleaseRequestLock
<1>3. failures' \in [Reqs -> Nat]
  BY <1>1 DEF ExecuteFail, Base, TypeOK
<1>4. pc' \in [Clients -> WorkerAt]
  <2>1. \E l \in {"answer", "retry"} : pc' = [pc EXCEPT ![c] = l]
    BY DEF ExecuteFail, WorkerGoto
  <2> QED BY <2>1 DEF Base, TypeOK, WorkerAt
<1>5. result' \in [Reqs -> {"none", "ok", "error"}]
  BY <1>1 DEF ExecuteFail, Base, TypeOK
<1>6. UNCHANGED <<connected, m_bNeedReset, m_ReqQueue, m_hSemaphore, cur,
  pcMain, back, scan, made, client, async, m_nTry, m_qResponse, events,
  handled, resets>>
  BY DEF ExecuteFail, connVars, reqVars, mainVars, respVars, WorkerGoto, WorkerAt,
     ReleaseRequestLock
<1>7. TypeOK'
  BY <1>2, <1>3, <1>4, <1>5, <1>6 DEF Base, TypeOK
<1>8. WorkerLocal(c)'
  <2>1. Mine(c)' = Mine(c)
    BY <1>6 DEF Mine
  <2> QED BY <2>1, <1>6 DEF ExecuteFail, Base, TypeOK, WorkerLocal, Busy, WorkerGoto
<1>9. /\ \A d \in Clients \ {c} :
           pc'[d] = pc[d] /\ cur'[d] = cur[d] /\ m_ReqQueue'[d] = m_ReqQueue[d]
      /\ \A r \in Reqs \ {cur[c]} : m_nTry'[r] = m_nTry[r]
  BY <1>6 DEF ExecuteFail, Base, TypeOK, WorkerGoto, WorkerAt, ReleaseRequestLock
<1> QED BY <1>6, <1>7, <1>8, <1>9, WorkerStep_Local DEF mainVars, reqVars

LEMMA BaseParseResponse ==
  ASSUME Base, NEW c \in Clients, ParseResponse(c)
  PROVE  Base'
<1>1. cur[c] \in Reqs
  BY DEF ParseResponse, Base, TypeOK, WorkerLocal, Busy
<1>2. m_qResponse' \in Seq(Reqs)
  BY <1>1, ReqSeqs DEF ParseResponse, Base, TypeOK
<1>3. pc' \in [Clients -> WorkerAt]
  BY <1>1 DEF ParseResponse, Base, TypeOK, WorkerLocal, WorkerGoto, WorkerAt
<1>4. cur' \in [Clients -> Reqs \cup {0}]
  BY <1>1 DEF ParseResponse, Base, TypeOK, WorkerLocal, WorkerGoto, WorkerAt
<1>5. UNCHANGED <<connected, m_bNeedReset, m_ReqQueue, m_hSemaphore,
  m_RequestLock, pcMain, back, scan, made, client, async, m_nTry, failures,
  result, events, handled, resets>>
  BY DEF ParseResponse, connVars, reqVars, mainVars, respVars, WorkerGoto, WorkerAt
<1>6. TypeOK'
  BY <1>2, <1>3, <1>4, <1>5 DEF Base, TypeOK
<1>7. WorkerLocal(c)'
  <2>1. Mine(c)' = Mine(c)
    BY <1>5 DEF Mine
  <2> QED BY <2>1, <1>5 DEF ParseResponse, Base, TypeOK, WorkerLocal, Busy, WorkerGoto
<1>8. /\ \A d \in Clients \ {c} :
           pc'[d] = pc[d] /\ cur'[d] = cur[d] /\ m_ReqQueue'[d] = m_ReqQueue[d]
      /\ \A r \in Reqs \ {cur[c]} : m_nTry'[r] = m_nTry[r]
  BY <1>5 DEF ParseResponse, Base, TypeOK, WorkerGoto, WorkerAt
<1> QED BY <1>5, <1>6, <1>7, <1>8, WorkerStep_Local DEF mainVars, reqVars

LEMMA BaseSignalResponse ==
  ASSUME Base, NEW c \in Clients, SignalResponse(c)
  PROVE  Base'
<1>1. pc' \in [Clients -> WorkerAt]
  BY DEF SignalResponse, Base, TypeOK, WorkerLocal, WorkerGoto, WorkerAt
<1>2. events' \in Nat
  BY DEF SignalResponse, Base, TypeOK, WorkerLocal, WorkerGoto, WorkerAt
<1>3. UNCHANGED <<connected, m_bNeedReset, m_ReqQueue, m_hSemaphore,
  m_RequestLock, cur, pcMain, back, scan, made, client, async, m_nTry,
  failures, result, m_qResponse, handled, resets>>
  BY DEF SignalResponse, connVars, reqVars, mainVars, respVars, WorkerGoto, WorkerAt
<1>4. TypeOK'
  BY <1>1, <1>2, <1>3 DEF Base, TypeOK
<1>5. WorkerLocal(c)'
  <2>1. Mine(c)' = Mine(c)
    BY <1>3 DEF Mine
  <2> QED BY <2>1, <1>3 DEF SignalResponse, Base, TypeOK, WorkerLocal, Busy, WorkerGoto
<1>6. /\ \A d \in Clients \ {c} :
           pc'[d] = pc[d] /\ cur'[d] = cur[d] /\ m_ReqQueue'[d] = m_ReqQueue[d]
      /\ \A r \in Reqs \ {cur[c]} : m_nTry'[r] = m_nTry[r]
  BY <1>3 DEF SignalResponse, Base, TypeOK, WorkerGoto, WorkerAt
<1> QED BY <1>3, <1>4, <1>5, <1>6, WorkerStep_Local DEF mainVars, reqVars

LEMMA BaseRetry ==
  ASSUME Base, NEW c \in Clients, Retry(c)
  PROVE  Base'
<1>1. cur[c] \in Reqs
  BY DEF Retry, Base, TypeOK, WorkerLocal, Busy
<1>2. m_nTry' \in [Reqs -> 0..m_nRetryCount]
  <2>1. m_nTry[cur[c]] \in Nat /\ m_nTry[cur[c]] < m_nRetryCount
    BY <1>1 DEF Retry, Base, TypeOK, WorkerLocal
  <2> QED BY <1>1, <2>1, MysqlAssumption DEF Retry, Base, TypeOK
<1>3. m_ReqQueue' \in [Clients -> Seq(Reqs)]
  BY <1>1, ReqSeqs DEF Retry, Base, TypeOK
<1>4. pc' \in [Clients -> WorkerAt]
  BY <1>1 DEF Retry, Base, TypeOK, WorkerLocal, WorkerGoto, WorkerAt
<1>5. cur' \in [Clients -> Reqs \cup {0}]
  BY <1>1 DEF Retry, Base, TypeOK, WorkerLocal, WorkerGoto, WorkerAt
<1>6. UNCHANGED <<connected, m_bNeedReset, m_hSemaphore, m_RequestLock,
  pcMain, back, scan, made, client, async, failures, result, m_qResponse,
  events, handled, resets>>
  BY DEF Retry, connVars, reqVars, mainVars, respVars, WorkerGoto, WorkerAt
<1>7. TypeOK'
  BY <1>2, <1>3, <1>4, <1>5, <1>6 DEF Base, TypeOK
<1>8. WorkerLocal(c)'
  <2>1. Mine(c)' = Mine(c)
    BY <1>6 DEF Mine
  <2>2. PICK q \in Seq(Reqs) : q = m_ReqQueue[c]
    BY DEF Base, TypeOK
  <2>3. /\ m_ReqQueue'[c] = <<cur[c]>> \o q /\ cur'[c] = 0 /\ pc'[c] = "repost"
        /\ cur[c] \in Mine(c) /\ \A i \in 1..Len(q) : q[i] \in Mine(c)
    BY <2>2 DEF Retry, Base, TypeOK, WorkerLocal, Busy, WorkerGoto
  <2>4. \A i \in 1..Len(<<cur[c]>> \o q) : (<<cur[c]>> \o q)[i] \in Mine(c)
    BY <1>1, <2>3
  <2> QED BY <2>1, <2>3, <2>4 DEF WorkerLocal, Busy
<1>9. /\ \A d \in Clients \ {c} :
           pc'[d] = pc[d] /\ cur'[d] = cur[d] /\ m_ReqQueue'[d] = m_ReqQueue[d]
      /\ \A r \in Reqs \ {cur[c]} : m_nTry'[r] = m_nTry[r]
  BY <1>6 DEF Retry, Base, TypeOK, WorkerGoto, WorkerAt
<1> QED BY <1>6, <1>7, <1>8, <1>9, WorkerStep_Local DEF mainVars, reqVars

LEMMA BaseRepost ==
  ASSUME Base, NEW c \in Clients, Repost(c)
  PROVE  Base'
<1>1. m_hSemaphore' \in [Clients -> Nat]
  BY DEF Repost, Base, TypeOK, WorkerLocal, WorkerGoto, WorkerAt
<1>2. pc' \in [Clients -> WorkerAt]
  BY DEF Repost, Base, TypeOK, WorkerLocal, WorkerGoto, WorkerAt
<1>3. UNCHANGED <<connected, m_bNeedReset, m_ReqQueue, m_RequestLock, cur,
  pcMain, back, scan, made, client, async, m_nTry, failures, result,
  m_qResponse, events, handled, resets>>
  BY DEF Repost, connVars, reqVars, mainVars, respVars, WorkerGoto, WorkerAt
<1>4. TypeOK'
  BY <1>1, <1>2, <1>3 DEF Base, TypeOK
<1>5. WorkerLocal(c)'
  <2>1. Mine(c)' = Mine(c)
    BY <1>3 DEF Mine
  <2> QED BY <2>1, <1>3 DEF Repost, Base, TypeOK, WorkerLocal, Busy, WorkerGoto
<1>6. /\ \A d \in Clients \ {c} :
           pc'[d] = pc[d] /\ cur'[d] = cur[d] /\ m_ReqQueue'[d] = m_ReqQueue[d]
      /\ \A r \in Reqs \ {cur[c]} : m_nTry'[r] = m_nTry[r]
  BY <1>3 DEF Repost, Base, TypeOK, WorkerGoto, WorkerAt
<1> QED BY <1>3, <1>4, <1>5, <1>6, WorkerStep_Local DEF mainVars, reqVars

LEMMA BaseConnectEnds ==
  ASSUME Base, NEW c \in Clients, NEW ok \in BOOLEAN, ConnectEnds(c, ok)
  PROVE  Base'
<1>1. UNCHANGED <<m_ReqQueue, m_hSemaphore, m_RequestLock, cur, pcMain, back, scan,
                  made,
                  client, async, m_nTry, failures, result, m_qResponse, events,
                  handled,
                  resets>>
  BY DEF ConnectEnds, mainVars, reqVars, respVars
<1>2. /\ connected' = [connected EXCEPT ![c] = ok]
      /\ m_bNeedReset' = [m_bNeedReset EXCEPT ![c] = @ /\ pc[c] = "connecting"]
      /\ pc' = [pc EXCEPT ![c] = "wait"] /\ pc[c] \in {"connecting", "reconnecting"}
  BY DEF ConnectEnds, WorkerGoto
<1>3. TypeOK'
  <2>1. m_bNeedReset' \in [Clients -> BOOLEAN]
    <3>1. m_bNeedReset \in [Clients -> BOOLEAN] BY DEF Base, TypeOK
    <3> QED BY <1>2, <3>1, Zenon
  <2> QED BY <1>1, <1>2, <2>1 DEF Base, TypeOK, WorkerAt
<1>4. WorkerLocal(c)'
  <2>1. Mine(c)' = Mine(c)
    BY <1>1 DEF Mine
  <2> QED BY <2>1, <1>1, <1>2 DEF Base, TypeOK, WorkerLocal, Busy
<1>5. \A d \in Clients \ {c} : pc'[d] = pc[d]
  BY <1>2 DEF Base, TypeOK
<1> QED BY <1>1, <1>3, <1>4, <1>5, WorkerStep_Local DEF mainVars, reqVars

----------------------------------------------------------------------------
(* A new request is the client's, and the others keep theirs.              *)
LEMMA NewRequestMine ==
  ASSUME Base, NEW c \in Clients, NEW isAsync \in BOOLEAN, NewRequest(c, isAsync)
  PROVE  /\ made + 1 \in Reqs /\ made' = made + 1 /\ back' \in {"loop", "receive", "respDrain"}
         /\ client' \in [Reqs -> Clients] /\ async' \in [Reqs -> BOOLEAN]
         /\ client'[made'] = c /\ async'[made'] = isAsync
         /\ isAsync => made + 1 \in Mine(c)'
         /\ \A d \in Clients : Mine(d) \subseteq Mine(d)'
         /\ \A r \in 1..made : client'[r] = client[r] /\ async'[r] = async[r]
<1>1. /\ made \in Nat /\ made + 1 \in Reqs /\ made' = made + 1
      /\ 1..made \subseteq Reqs
  BY MysqlAssumption DEF NewRequest, Base, TypeOK, Reqs
<1>2. /\ client' = [client EXCEPT ![made + 1] = c]
      /\ async' = [async EXCEPT ![made + 1] = isAsync]
      /\ back' \in {"loop", "receive", "respDrain"}
  BY DEF NewRequest
<1>3. /\ client' \in [Reqs -> Clients] /\ async' \in [Reqs -> BOOLEAN]
      /\ client'[made + 1] = c /\ async'[made + 1] = isAsync
  BY <1>1, <1>2 DEF Base, TypeOK
<1>4. \A r \in 1..made : client'[r] = client[r] /\ async'[r] = async[r] /\ r \in 1..(made + 1)
  BY <1>1, <1>2 DEF Base, TypeOK
<1>5. isAsync => made + 1 \in Mine(c)'
  <2>1. Mine(c)' = {r \in 1..(made + 1) : client'[r] = c /\ async'[r]}
    BY <1>1 DEF Mine
  <2>2. made + 1 \in 1..(made + 1)
    BY <1>1
  <2>3. client'[made + 1] = c /\ (isAsync => async'[made + 1])
    BY <1>3, Zenon
  <2> QED BY <2>1, <2>2, <2>3, Zenon
<1>6. \A d \in Clients : Mine(d) \subseteq Mine(d)'
  BY <1>1, <1>4 DEF Mine
<1> QED BY <1>1, <1>2, <1>3, <1>4, <1>5, <1>6

LEMMA BaseAddSQLRequest ==
  ASSUME Base, NEW hash \in Clients, AddSQLRequest(hash)
  PROVE  Base'
<1>0. PICK c \in Clients : c = Route(hash)
  BY RouteType
<1>1. NewRequest(c, TRUE)
  BY <1>0 DEF AddSQLRequest
<1>2. /\ UNCHANGED <<connected, m_bNeedReset, m_hSemaphore, m_RequestLock, pc, cur,
                     scan, m_nTry, failures, result, m_qResponse, events, handled,
                     resets>>
      /\ pcMain' = "post"
      /\ m_ReqQueue' = [m_ReqQueue EXCEPT ![c] = Append(@, made + 1)]
  BY <1>0 DEF AddSQLRequest, RecvSQLRequest, connVars, respVars
<1>3. /\ made + 1 \in Reqs /\ made' = made + 1
      /\ back' \in {"loop", "receive", "respDrain"}
      /\ client' \in [Reqs -> Clients] /\ async' \in [Reqs -> BOOLEAN]
      /\ made + 1 \in Mine(c)' /\ \A d \in Clients : Mine(d) \subseteq Mine(d)'
  <2>1. TRUE \in BOOLEAN
    OBVIOUS
  <2> QED BY <1>1, <2>1, NewRequestMine
<1>4. /\ m_ReqQueue \in [Clients -> Seq(Reqs)]
      /\ Append(m_ReqQueue[c], made + 1) \in Seq(Reqs)
  BY <1>3, ReqSeqs DEF Base, TypeOK
<1>5. TypeOK'
  <2>1. m_ReqQueue' \in [Clients -> Seq(Reqs)]
    BY <1>2, <1>4
  <2>2. made' \in 0..MaxReqs /\ pcMain' \in MainAt /\ back' \in MainAt
    BY <1>2, <1>3 DEF Reqs, MainAt
  <2> QED BY <1>2, <1>3, <2>1, <2>2 DEF Base, TypeOK
<1>6. MainLocal'
  BY <1>2, <1>3 DEF MainLocal, InSync
<1>7. WorkerLocal(c)'
  <2>1. \A i \in 1..Len(m_ReqQueue'[c]) : m_ReqQueue'[c][i] \in Mine(c)'
    <3>1. PICK q \in Seq(Reqs) : q = m_ReqQueue[c]
      BY <1>4
    <3>2. m_ReqQueue'[c] = Append(q, made + 1)
      BY <1>2, <1>4, <3>1
    <3>3. \A i \in 1..Len(q) : q[i] \in Mine(c)'
      BY <1>3, <3>1 DEF Base, WorkerLocal
    <3>4. PICK M : M = Mine(c)'
      OBVIOUS
    <3>5. \A i \in 1..Len(Append(q, made + 1)) : Append(q, made + 1)[i] \in M
      BY <3>3, <3>4, <1>3
    <3> QED BY <3>2, <3>4, <3>5
  <2>2. WorkerLocal(c) /\ Mine(c) \subseteq Mine(c)'
    BY <1>3 DEF Base
  <2> QED BY <2>1, <2>2, <1>2 DEF WorkerLocal
<1>8. ASSUME NEW d \in Clients \ {c} PROVE WorkerLocal(d)'
  <2>1. m_ReqQueue'[d] = m_ReqQueue[d] /\ WorkerLocal(d)
    BY <1>2, <1>4 DEF Base
  <2>2. /\ pc'[d] = pc[d] /\ cur'[d] = cur[d]
        /\ cur[d] # 0 => m_nTry'[cur[d]] = m_nTry[cur[d]]
    BY <1>2
  <2> QED BY <2>1, <2>2, <1>3, WorkerAside
<1> QED BY <1>5, <1>6, <1>7, <1>8 DEF Base

LEMMA BaseAddSyncSQLRequest ==
  ASSUME Base, NEW hash \in Clients, AddSyncSQLRequest(hash)
  PROVE  Base'
<1>0. PICK c \in Clients : c = Route(hash)
  BY RouteType
<1>1. NewRequest(c, FALSE)
  BY <1>0 DEF AddSyncSQLRequest
<1>2. /\ UNCHANGED <<connected, m_bNeedReset, m_ReqQueue, m_hSemaphore, m_RequestLock,
                     pc, cur, scan, m_nTry, failures, result, m_qResponse, events,
                     handled, resets>>
      /\ pcMain' = "syncLock"
  BY DEF AddSyncSQLRequest, connVars, respVars
<1>3. /\ made' \in Reqs /\ back' \in {"loop", "receive", "respDrain"}
      /\ client' \in [Reqs -> Clients] /\ async' \in [Reqs -> BOOLEAN] /\ ~async'[made']
      /\ \A d \in Clients : Mine(d) \subseteq Mine(d)'
  <2>1. FALSE \in BOOLEAN
    OBVIOUS
  <2> QED BY <1>1, <2>1, NewRequestMine
<1>4. TypeOK'
  <2>1. made' \in 0..MaxReqs /\ pcMain' \in MainAt /\ back' \in MainAt
    BY <1>2, <1>3, MysqlAssumption DEF Reqs, MainAt
  <2> QED BY <1>2, <1>3, <2>1 DEF Base, TypeOK
<1>5. MainLocal'
  BY <1>2, <1>3 DEF MainLocal, InSync
<1>6. ASSUME NEW d \in Clients PROVE WorkerLocal(d)'
  BY <1>2, <1>3, WorkerAside DEF Base
<1> QED BY <1>4, <1>5, <1>6 DEF Base

LEMMA BaseInit == Init => Base
<1> SUFFICES ASSUME Init PROVE Base
  OBVIOUS
<1>1. TypeOK
  BY MysqlAssumption, ModClients DEF Init, TypeOK, WorkerAt, MainAt
<1>2. MainLocal
  BY DEF Init, MainLocal, InSync
<1>3. \A c \in Clients : WorkerLocal(c)
  BY DEF Init, WorkerLocal, Busy
<1> QED BY <1>1, <1>2, <1>3 DEF Base

LEMMA BaseNext == Base /\ [Next]_vars => Base'
<1> SUFFICES ASSUME Base, [Next]_vars PROVE Base'
  OBVIOUS
<1>1. CASE Request
  BY <1>1, BaseAddSQLRequest, BaseAddSyncSQLRequest DEF Request
<1>2. CASE MainStep
  BY <1>2, BasePostRequest, BaseSyncLock, BaseSyncOk, BaseSyncFail, BaseDispatch,
     BaseOnDataReceive DEF MainStep
<1>3. CASE WaitForAllDBReqIdle \/ WaitForAllDBRespIdle
  BY <1>3, BaseWaitForAllDBReqIdle, BaseWaitForAllDBRespIdle
<1>4. CASE \E c \in Clients : Reset(c) \/ WaitToken(c) \/ \E ok \in BOOLEAN : ConnectEnds(c, ok)
  BY <1>4, BaseReset, BaseWaitToken, BaseConnectEnds
<1>5. CASE \E c \in Clients : WorkerStep(c)
  BY <1>5, BaseStartConnect, BasePopRequest, BaseLockRequest, BaseExecuteOk,
     BaseExecuteFail,
     BaseParseResponse, BaseSignalResponse, BaseRetry, BaseRepost DEF WorkerStep,
     Execution
<1>6. CASE UNCHANGED vars
  <2>1. UNCHANGED <<connected, m_bNeedReset, m_ReqQueue, m_hSemaphore,
                    m_RequestLock, pc, cur,
                    pcMain, back, scan, made, client, async, m_nTry, failures, result,
                    m_qResponse, events, handled, resets>>
    BY <1>6 DEF vars, connVars, mainVars, reqVars, respVars
  <2>2. TypeOK' /\ MainLocal'
    BY <2>1 DEF Base, TypeOK, MainLocal, InSync
  <2>3. \A c \in Clients : WorkerLocal(c)'
    BY <2>1, MainStep_Local DEF reqVars
  <2> QED BY <2>2, <2>3 DEF Base
<1> QED BY <1>1, <1>2, <1>3, <1>4, <1>5, <1>6 DEF Next

LEMMA BaseHolds == Spec => []Base
BY BaseInit, BaseNext, PTL DEF Spec

(* The types of MysqlSystem; no request is retried more than m_nRetryCount *)
(* times and no more requests are made than there are numbers for.         *)
THEOREM TypeCorrect == Spec => []TypeOK
<1>1. Base => TypeOK
  BY DEF Base
<1> QED BY <1>1, BaseHolds, PTL
----------------------------------------------------------------------------
(* The lock of the requests: who runs a query holds it.                    *)
LockHeld ==
  m_bThreadSafe =>
    /\ \A c \in Clients : pc[c] = "exec" => m_RequestLock[c] = "worker"
    /\ pcMain = "syncExec" => m_RequestLock[client[made]] = "main"

LEMMA LockNext == Base /\ LockHeld /\ [Next]_vars => LockHeld'
<1> SUFFICES ASSUME Base, LockHeld, [Next]_vars, m_bThreadSafe
             PROVE  /\ \A c \in Clients : pc'[c] = "exec" => m_RequestLock'[c] = "worker"
                    /\ pcMain' = "syncExec" => m_RequestLock'[client'[made']] = "main"
  BY DEF LockHeld
<1>1. /\ \A c \in Clients : pc[c] = "exec" => m_RequestLock[c] = "worker"
      /\ pcMain = "syncExec" => m_RequestLock[client[made]] = "main"
  BY DEF LockHeld
<1>2. /\ pc \in [Clients -> WorkerAt] /\ back \in {"loop", "receive", "respDrain"}
      /\ m_RequestLock \in [Clients -> {"free", "worker", "main"}]
      /\ pcMain \in {"post", "syncLock", "syncExec"} => client[made] \in Clients
  BY DEF Base, TypeOK, MainLocal
<1>3. CASE Request
  BY <1>1, <1>3 DEF Request, AddSQLRequest, AddSyncSQLRequest
<1>4. CASE SyncLock
  BY <1>1, <1>2, <1>4 DEF SyncLock, TakeRequestLock, reqVars
<1>5. CASE SyncOk \/ SyncFail
  <2>1. /\ pcMain = "syncExec" /\ pcMain' # "syncExec" /\ pc' = pc
        /\ m_RequestLock' = [m_RequestLock EXCEPT ![client[made]] = "free"]
    BY <1>2, <1>5 DEF SyncOk, SyncFail, MainReturns, ReleaseRequestLock
  <2> QED BY <1>1, <1>2, <2>1
<1>6. CASE PostRequest \/ Dispatch \/ OnDataReceive \/ WaitForAllDBReqIdle
           \/ WaitForAllDBRespIdle
  <2>1. pcMain' # "syncExec" /\ pc' = pc /\ m_RequestLock' = m_RequestLock
    BY <1>2, <1>6 DEF PostRequest, Dispatch, OnDataReceive, WaitForAllDBReqIdle,
       WaitForAllDBRespIdle, MainReturns
  <2> QED BY <1>1, <2>1
<1>7. ASSUME NEW c \in Clients, LockRequest(c) PROVE LockHeld'
  <2>1. /\ m_RequestLock[c] = "free"
        /\ m_RequestLock' = [m_RequestLock EXCEPT ![c] = "worker"]
        /\ pc' = [pc EXCEPT ![c] = "exec"]
        /\ pcMain' = pcMain /\ client' = client /\ made' = made
    BY <1>7 DEF LockRequest, TakeRequestLock, WorkerGoto, mainVars, reqVars
  <2> QED BY <1>1, <1>2, <2>1 DEF LockHeld
<1>8. ASSUME NEW c \in Clients, Execution(c) PROVE LockHeld'
  <2>1. /\ pc[c] = "exec" /\ m_RequestLock' = [m_RequestLock EXCEPT ![c] = "free"]
        /\ pc'[c] # "exec" /\ \A d \in Clients \ {c} : pc'[d] = pc[d]
        /\ pcMain' = pcMain /\ client' = client /\ made' = made
    BY <1>2, <1>8 DEF Execution, ExecuteOk, ExecuteFail, ReleaseRequestLock,
       WorkerGoto,
       mainVars, reqVars
  <2> QED BY <1>1, <1>2, <2>1 DEF LockHeld
<1>9. ASSUME NEW c \in Clients,
             \/ Reset(c) \/ WaitToken(c) \/ \E ok \in BOOLEAN : ConnectEnds(c, ok)
             \/ StartConnect(c) \/ PopRequest(c) \/ ParseResponse(c)
             \/ SignalResponse(c) \/ Retry(c) \/ Repost(c)
      PROVE LockHeld'
  <2>1. /\ m_RequestLock' = m_RequestLock
        /\ \A d \in Clients : pc'[d] = "exec" => pc[d] = "exec"
        /\ pcMain' = pcMain /\ client' = client /\ made' = made
    BY <1>2, <1>9 DEF Reset, WaitToken, ConnectEnds, StartConnect, PopRequest,
       ParseResponse, SignalResponse, Retry, Repost, WorkerGoto, mainVars, reqVars
  <2> QED BY <1>1, <2>1 DEF LockHeld
<1>10. CASE UNCHANGED vars
  BY <1>1, <1>10 DEF vars, mainVars, reqVars
<1> QED BY <1>3, <1>4, <1>5, <1>6, <1>7, <1>8, <1>9, <1>10
        DEF Next, MainStep, WorkerStep, LockHeld

(* With m_bThreadSafe a connection runs one query at a time, whoever asks: *)
(* its worker, or the main thread in AddSyncSQLRequest.                    *)
THEOREM ConnectionExclusive == Spec => []OneQueryAtATime
<1>1. Init => LockHeld
  BY DEF Init, LockHeld
<1>2. Base /\ LockHeld => OneQueryAtATime
  BY DEF LockHeld, OneQueryAtATime
<1> QED BY <1>1, <1>2, LockNext, BaseHolds, PTL DEF Spec

----------------------------------------------------------------------------
(* Tokens.  The sets of EnoughTokens have one element or none.             *)
InHand(c) == IF pc[c] \in {"pop", "repost"} THEN 1 ELSE 0
ToPost(c) == IF pcMain = "post" /\ client[made] = c THEN 1 ELSE 0
Tokens(c) == m_hSemaphore[c] + InHand(c) + ToPost(c) >= Len(m_ReqQueue[c])

LEMMA TokenCount == EnoughTokens <=> \A c \in Clients : Tokens(c)
<1>1. ASSUME NEW x, NEW P \in BOOLEAN
      PROVE  Cardinality({y \in {x} : P}) = IF P THEN 1 ELSE 0
  <2>1. CASE P
    <3>1. {y \in {x} : P} = {x}
      BY <2>1
    <3> QED BY <3>1, <2>1, FS_Singleton
  <2>2. CASE ~P
    <3>1. {y \in {x} : P} = {}
      BY <2>2
    <3> QED BY <3>1, <2>2, FS_EmptySet
  <2> QED BY <2>1, <2>2
<1>2. \A c \in Clients :
        /\ Cardinality({x \in {"worker"} : pc[c] \in {"pop", "repost"}}) = InHand(c)
        /\ Cardinality({x \in {"main"} : pcMain = "post" /\ client[made] = c}) = ToPost(c)
  BY <1>1 DEF InHand, ToPost
<1> QED BY <1>2 DEF EnoughTokens, Tokens

LEMMA TokensAside ==
  ASSUME NEW c \in Clients, Tokens(c), m_hSemaphore'[c] = m_hSemaphore[c],
         m_ReqQueue'[c] = m_ReqQueue[c], InHand(c)' = InHand(c),
         ToPost(c)' = ToPost(c)
  PROVE  Tokens(c)'
BY DEF Tokens

LEMMA TokensNext ==
  Base /\ (\A c \in Clients : Tokens(c)) /\ [Next]_vars => (\A c \in Clients : Tokens(c))'
<1> SUFFICES ASSUME Base, \A c \in Clients : Tokens(c), [Next]_vars, NEW d \in Clients
             PROVE  Tokens(d)'
  OBVIOUS
<1>1. /\ pc \in [Clients -> WorkerAt] /\ m_hSemaphore \in [Clients -> Nat]
      /\ m_ReqQueue \in [Clients -> Seq(Reqs)]
      /\ back \in {"loop", "receive", "respDrain"}
      /\ pcMain = "post" => client[made] \in Clients
  BY DEF Base, TypeOK, MainLocal
<1>2. /\ m_hSemaphore[d] \in Nat /\ Len(m_ReqQueue[d]) \in Nat
      /\ InHand(d) \in 0..1 /\ ToPost(d) \in 0..1
      /\ m_hSemaphore[d] + InHand(d) + ToPost(d) >= Len(m_ReqQueue[d])
  BY <1>1 DEF Tokens, InHand, ToPost
<1>3. ASSUME NEW hash \in Clients, AddSQLRequest(hash) PROVE Tokens(d)'
  <2>1. PICK c \in Clients : c = Route(hash)
    BY RouteType
  <2>2. /\ pcMain # "post" /\ pcMain' = "post" /\ pc' = pc /\ m_hSemaphore' = m_hSemaphore
        /\ m_ReqQueue' = [m_ReqQueue EXCEPT ![c] = Append(@, made + 1)]
        /\ NewRequest(c, TRUE)
    BY <1>3, <2>1 DEF AddSQLRequest, RecvSQLRequest, NewRequest
  <2>3. made' = made + 1 /\ client'[made'] = c
    <3>1. TRUE \in BOOLEAN
      OBVIOUS
    <3> QED BY <2>2, <3>1, NewRequestMine
  <2>4. /\ InHand(d)' = InHand(d) /\ ToPost(d) = 0 /\ m_hSemaphore'[d] = m_hSemaphore[d]
        /\ ToPost(d)' = IF c = d THEN 1 ELSE 0
    BY <2>2, <2>3 DEF InHand, ToPost
  <2>5. Len(m_ReqQueue'[d]) = IF c = d THEN Len(m_ReqQueue[d]) + 1 ELSE Len(m_ReqQueue[d])
    BY <1>1, <2>2
  <2>6. m_hSemaphore'[d] + InHand(d)' + ToPost(d)' >= Len(m_ReqQueue'[d])
    BY <1>2, <2>4, <2>5
  <2> QED BY <2>6 DEF Tokens
<1>4. ASSUME NEW hash \in Clients, AddSyncSQLRequest(hash) PROVE Tokens(d)'
  <2>1. /\ pcMain # "post" /\ pcMain' # "post" /\ pc' = pc
        /\ m_hSemaphore' = m_hSemaphore /\ m_ReqQueue' = m_ReqQueue
    BY <1>4 DEF AddSyncSQLRequest, NewRequest
  <2> QED BY <2>1, TokensAside DEF InHand, ToPost
<1>5. CASE PostRequest
  <2>1. /\ pcMain = "post" /\ pcMain' # "post" /\ pc' = pc /\ m_ReqQueue' = m_ReqQueue
        /\ m_hSemaphore'[d] = m_hSemaphore[d] + ToPost(d)
    BY <1>1, <1>2, <1>5 DEF PostRequest, MainReturns, ToPost
  <2>2. InHand(d)' = InHand(d) /\ ToPost(d)' = 0
    BY <2>1 DEF InHand, ToPost
  <2>3. m_hSemaphore'[d] + InHand(d)' + ToPost(d)' >= Len(m_ReqQueue'[d])
    BY <1>2, <2>1, <2>2
  <2> QED BY <2>3 DEF Tokens
<1>6. CASE \/ SyncLock \/ SyncOk \/ SyncFail \/ Dispatch \/ OnDataReceive
           \/ WaitForAllDBReqIdle \/ WaitForAllDBRespIdle
  <2>1. /\ pcMain # "post" /\ pcMain' # "post" /\ pc' = pc
        /\ m_hSemaphore' = m_hSemaphore /\ m_ReqQueue' = m_ReqQueue
    BY <1>1, <1>6 DEF SyncLock, SyncOk, SyncFail, Dispatch, OnDataReceive,
       WaitForAllDBReqIdle, WaitForAllDBRespIdle, MainReturns
  <2> QED BY <2>1, TokensAside DEF InHand, ToPost
<1>7. ASSUME NEW c \in Clients, WaitToken(c) PROVE Tokens(d)'
  <2>1. /\ m_hSemaphore[c] > 0 /\ m_hSemaphore' = [m_hSemaphore EXCEPT ![c] = @ - 1]
        /\ pc[c] = "wait" /\ pc' = [pc EXCEPT ![c] = "pop"]
        /\ m_ReqQueue' = m_ReqQueue /\ UNCHANGED <<pcMain, made, client>>
    BY <1>7 DEF WaitToken, WorkerGoto, mainVars, reqVars
  <2>2. /\ ToPost(d)' = ToPost(d)
        /\ IF c = d THEN InHand(d) = 0 /\ InHand(d)' = 1 ELSE InHand(d)' = InHand(d)
    BY <1>1, <2>1 DEF InHand, ToPost
  <2>3. m_hSemaphore'[d] + InHand(d)' + ToPost(d)' >= Len(m_ReqQueue'[d])
    BY <1>1, <1>2, <2>1, <2>2
  <2> QED BY <2>3 DEF Tokens
<1>8. ASSUME NEW c \in Clients, PopRequest(c) PROVE Tokens(d)'
  <2>1. /\ pc[c] = "pop" /\ pc' = [pc EXCEPT ![c] = pc'[c]] /\ pc'[c] \in {"wait", "lock"}
        /\ m_hSemaphore' = m_hSemaphore /\ UNCHANGED <<pcMain, made, client>>
        /\ m_ReqQueue' = IF m_ReqQueue[c] = << >> THEN m_ReqQueue
                         ELSE [m_ReqQueue EXCEPT ![c] = Tail(@)]
    BY <1>1, <1>8 DEF PopRequest, WorkerGoto, mainVars, reqVars
  <2>2. /\ ToPost(d)' = ToPost(d)
        /\ IF c = d THEN InHand(d) = 1 /\ InHand(d)' = 0 ELSE InHand(d)' = InHand(d)
    BY <1>1, <2>1 DEF InHand, ToPost
  <2>3. IF c = d THEN Len(m_ReqQueue'[d]) = 0 \/ Len(m_ReqQueue'[d]) = Len(m_ReqQueue[d]) - 1
                 ELSE m_ReqQueue'[d] = m_ReqQueue[d]
    BY <1>1, <2>1
  <2>4. m_hSemaphore'[d] + InHand(d)' + ToPost(d)' >= Len(m_ReqQueue'[d])
    BY <1>2, <2>1, <2>2, <2>3
  <2> QED BY <2>4 DEF Tokens
<1>9. ASSUME NEW c \in Clients, Retry(c) PROVE Tokens(d)'
  <2>1. /\ pc[c] = "retry" /\ pc' = [pc EXCEPT ![c] = "repost"]
        /\ m_hSemaphore' = m_hSemaphore /\ UNCHANGED <<pcMain, made, client>>
        /\ m_ReqQueue' = [m_ReqQueue EXCEPT ![c] = <<cur[c]>> \o @]
        /\ cur[c] \in Reqs
    BY <1>9 DEF Retry, WorkerGoto, mainVars, reqVars, Base, TypeOK, WorkerLocal, Busy
  <2>2. /\ ToPost(d)' = ToPost(d)
        /\ IF c = d THEN InHand(d) = 0 /\ InHand(d)' = 1 ELSE InHand(d)' = InHand(d)
    BY <1>1, <2>1 DEF InHand, ToPost
  <2>3. Len(m_ReqQueue'[d]) = IF c = d THEN Len(m_ReqQueue[d]) + 1 ELSE Len(m_ReqQueue[d])
    BY <1>1, <2>1
  <2>4. m_hSemaphore'[d] + InHand(d)' + ToPost(d)' >= Len(m_ReqQueue'[d])
    BY <1>2, <2>1, <2>2, <2>3
  <2> QED BY <2>4 DEF Tokens
<1>10. ASSUME NEW c \in Clients, Repost(c) PROVE Tokens(d)'
  <2>1. /\ m_hSemaphore' = [m_hSemaphore EXCEPT ![c] = @ + 1]
        /\ pc[c] = "repost" /\ pc' = [pc EXCEPT ![c] = "wait"]
        /\ m_ReqQueue' = m_ReqQueue /\ UNCHANGED <<pcMain, made, client>>
    BY <1>10 DEF Repost, WorkerGoto, mainVars, reqVars
  <2>2. /\ ToPost(d)' = ToPost(d)
        /\ IF c = d THEN InHand(d) = 1 /\ InHand(d)' = 0 ELSE InHand(d)' = InHand(d)
    BY <1>1, <2>1 DEF InHand, ToPost
  <2>3. m_hSemaphore'[d] + InHand(d)' + ToPost(d)' >= Len(m_ReqQueue'[d])
    BY <1>1, <1>2, <2>1, <2>2
  <2> QED BY <2>3 DEF Tokens
<1>11. ASSUME NEW c \in Clients,
              \/ Reset(c) \/ (\E ok \in BOOLEAN : ConnectEnds(c, ok))
              \/ StartConnect(c)
              \/ LockRequest(c) \/ Execution(c) \/ ParseResponse(c) \/ SignalResponse(c)
       PROVE  Tokens(d)'
  <2>1. /\ m_hSemaphore' = m_hSemaphore /\ UNCHANGED <<pcMain, made, client>>
        /\ m_ReqQueue' = m_ReqQueue
        /\ pc'[d] \in {"pop", "repost"} <=> pc[d] \in {"pop", "repost"}
    BY <1>1, <1>11 DEF Reset, ConnectEnds, StartConnect, LockRequest, Execution,
       ExecuteOk,
       ExecuteFail, ParseResponse, SignalResponse, WorkerGoto, mainVars, reqVars
  <2> QED BY <2>1, TokensAside DEF InHand, ToPost
<1>12. CASE UNCHANGED vars
  BY <1>12, TokensAside DEF vars, mainVars, reqVars, InHand, ToPost
<1> QED BY <1>3, <1>4, <1>5, <1>6, <1>7, <1>8, <1>9, <1>10, <1>11, <1>12
        DEF Next, Request, MainStep, WorkerStep

(* No request waits in a queue without a token of the semaphore: m_hSemaphore *)
(* is posted after the queue's lock is left, by RecvSQLRequest and by a retry, *)
(* and a token that finds no request is lost.                              *)
THEOREM RequestsHaveTokens == Spec => []EnoughTokens
<1>1. Init => \A c \in Clients : Tokens(c)
  BY DEF Init, Tokens, InHand, ToPost
<1>2. (\A c \in Clients : Tokens(c)) => EnoughTokens
  BY TokenCount
<1> QED BY <1>1, <1>2, TokensNext, BaseHolds, PTL DEF Spec

----------------------------------------------------------------------------
(* The event of the queue of responses.                                    *)
LEMMA SignalledNext == Base /\ ResponseSignalled /\ [Next]_vars => ResponseSignalled'
<1> SUFFICES ASSUME Base, ResponseSignalled, [Next]_vars, m_qResponse' # << >>
             PROVE  events' > 0 \/ Draining' \/ \E c \in Clients : pc'[c] = "signal"
  BY DEF ResponseSignalled
<1>1. /\ pc \in [Clients -> WorkerAt] /\ events \in Nat
      /\ back \in {"loop", "receive", "respDrain"} /\ m_qResponse \in Seq(Reqs)
  BY DEF Base, TypeOK, MainLocal
<1>2. m_qResponse # << >> => events > 0 \/ Draining \/ \E c \in Clients : pc[c] = "signal"
  BY DEF ResponseSignalled
<1>3. CASE Request
  <2>1. /\ m_qResponse' = m_qResponse /\ events' = events /\ pc' = pc
        /\ pcMain \in {"loop", "receive", "respDrain"} /\ back' = pcMain
        /\ pcMain' \in {"post", "syncLock"}
    BY <1>3 DEF Request, AddSQLRequest, AddSyncSQLRequest, NewRequest, respVars
  <2>2. Draining => Draining'
    BY <2>1 DEF Draining
  <2> QED BY <1>2, <2>1, <2>2
<1>4. CASE SyncLock
  <2>1. /\ m_qResponse' = m_qResponse /\ events' = events /\ pc' = pc
        /\ back' = back /\ pcMain = "syncLock" /\ pcMain' = "syncExec"
    BY <1>4 DEF SyncLock, respVars
  <2>2. Draining => Draining'
    BY <2>1 DEF Draining
  <2> QED BY <1>2, <2>1, <2>2
<1>5. CASE PostRequest \/ SyncOk \/ SyncFail
  <2>1. /\ m_qResponse' = m_qResponse /\ events' = events /\ pc' = pc
        /\ pcMain \in {"post", "syncExec"} /\ pcMain' = back
    BY <1>5 DEF PostRequest, SyncOk, SyncFail, MainReturns, respVars
  <2>2. Draining => Draining'
    BY <1>1, <2>1 DEF Draining
  <2> QED BY <1>2, <2>1, <2>2
<1>6. CASE Dispatch
  BY <1>6 DEF Dispatch, Draining
<1>7. CASE OnDataReceive
  BY <1>7 DEF OnDataReceive, Draining
<1>8. CASE WaitForAllDBReqIdle \/ WaitForAllDBRespIdle
  <2>1. /\ m_qResponse' = m_qResponse /\ events' = events /\ pc' = pc /\ ~Draining
    BY <1>8 DEF WaitForAllDBReqIdle, WaitForAllDBRespIdle, respVars, Draining
  <2> QED BY <1>2, <2>1
<1>9. ASSUME NEW c \in Clients, ParseResponse(c)
      PROVE  events' > 0 \/ Draining' \/ \E d \in Clients : pc'[d] = "signal"
  <2>1. /\ events' = events /\ pcMain' = pcMain /\ back' = back
        /\ pc[c] = "answer"
        /\ pc' = [pc EXCEPT ![c] = IF m_qResponse = << >> THEN "signal" ELSE "wait"]
    BY <1>9 DEF ParseResponse, WorkerGoto, mainVars
  <2>2. CASE m_qResponse = << >>
    <3>1. pc'[c] = "signal"
      BY <1>1, <2>1, <2>2
    <3> QED BY <3>1
  <2>3. CASE m_qResponse # << >>
    <3>1. \A d \in Clients : pc[d] = "signal" => pc'[d] = "signal"
      BY <1>1, <2>1
    <3>2. Draining' <=> Draining
      BY <2>1 DEF Draining
    <3> QED BY <1>2, <2>1, <2>3, <3>1, <3>2
  <2> QED BY <2>2, <2>3
<1>10. ASSUME NEW c \in Clients, SignalResponse(c) PROVE events' > 0
  BY <1>1, <1>10 DEF SignalResponse
<1>11. ASSUME NEW c \in Clients,
              \/ Reset(c) \/ WaitToken(c) \/ (\E ok \in BOOLEAN : ConnectEnds(c, ok))
              \/ StartConnect(c) \/ PopRequest(c) \/ LockRequest(c) \/ Execution(c)
              \/ Retry(c) \/ Repost(c)
       PROVE  events' > 0 \/ Draining' \/ \E d \in Clients : pc'[d] = "signal"
  <2>1. /\ m_qResponse' = m_qResponse /\ events' = events
        /\ pcMain' = pcMain /\ back' = back
        /\ \A d \in Clients : pc[d] = "signal" => pc'[d] = "signal"
    BY <1>1, <1>11 DEF Reset, WaitToken, ConnectEnds, StartConnect, PopRequest,
       LockRequest, Execution, ExecuteOk, ExecuteFail, Retry, Repost, WorkerGoto,
       mainVars, respVars
  <2>2. Draining' <=> Draining
    BY <2>1 DEF Draining
  <2> QED BY <1>2, <2>1, <2>2
<1>12. CASE UNCHANGED vars
  <2>1. m_qResponse' = m_qResponse /\ events' = events /\ pc' = pc /\ (Draining' <=> Draining)
    BY <1>12 DEF vars, mainVars, respVars, Draining
  <2> QED BY <1>2, <2>1
<1> QED BY <1>3, <1>4, <1>5, <1>6, <1>7, <1>8, <1>9, <1>10, <1>11, <1>12
        DEF Next, MainStep, WorkerStep

(* A response that waits for the main thread is announced: the worker that *)
(* finds m_qResponse empty raises the event after it left the queue's      *)
(* lock, and the main thread does not leave OnDataReceive before the queue *)
(* is empty.                                                               *)
THEOREM ResponsesAnnounced == Spec => []ResponseSignalled
<1>1. Init => ResponseSignalled
  BY DEF Init, ResponseSignalled
<1> QED BY <1>1, SignalledNext, BaseHolds, PTL DEF Spec

----------------------------------------------------------------------------
(* Sequences of requests: their elements and their order.                  *)
Ascending(s) == \A i, j \in 1..Len(s) : i < j => s[i] < s[j]

LEMMA SeqAppend ==
  ASSUME NEW s \in Seq(Reqs), NEW e \in Reqs
  PROVE  /\ InSeq(Append(s, e)) = InSeq(s) \cup {e}
         /\ Ascending(s) /\ (\A r \in InSeq(s) : r < e) => Ascending(Append(s, e))
         /\ ~Twice(s) /\ e \notin InSeq(s) => ~Twice(Append(s, e))
<1>1. /\ Len(Append(s, e)) = Len(s) + 1 /\ Len(s) \in Nat
      /\ Append(s, e)[Len(s) + 1] = e
      /\ \A i \in 1..Len(s) : Append(s, e)[i] = s[i]
  OBVIOUS
<1>2. 1..(Len(s) + 1) = (1..Len(s)) \cup {Len(s) + 1}
  BY <1>1
<1>3. InSeq(Append(s, e)) = InSeq(s) \cup {e}
  BY <1>1, <1>2 DEF InSeq
<1>4. ASSUME Ascending(s), \A r \in InSeq(s) : r < e PROVE Ascending(Append(s, e))
  BY <1>1, <1>2, <1>4 DEF Ascending, InSeq
<1>5. ASSUME ~Twice(s), e \notin InSeq(s) PROVE ~Twice(Append(s, e))
  BY <1>1, <1>2, <1>5 DEF Twice, InSeq
<1> QED BY <1>3, <1>4, <1>5

LEMMA SeqTail ==
  ASSUME NEW s \in Seq(Reqs), s # << >>
  PROVE  /\ Head(s) \in Reqs /\ Tail(s) \in Seq(Reqs)
         /\ InSeq(s) = {Head(s)} \cup InSeq(Tail(s))
         /\ Ascending(s) => Ascending(Tail(s)) /\ \A r \in InSeq(Tail(s)) : Head(s) < r
<1>1. /\ Len(s) \in Nat \ {0} /\ Len(Tail(s)) = Len(s) - 1 /\ Head(s) = s[1]
      /\ \A i \in 1..Len(Tail(s)) : Tail(s)[i] = s[i + 1]
      /\ Head(s) \in Reqs /\ Tail(s) \in Seq(Reqs)
  OBVIOUS
<1>2. InSeq(s) \subseteq {Head(s)} \cup InSeq(Tail(s))
  <2> SUFFICES ASSUME NEW i \in 1..Len(s) PROVE s[i] \in {Head(s)} \cup InSeq(Tail(s))
    BY DEF InSeq
  <2>1. CASE i = 1
    BY <1>1, <2>1
  <2>2. CASE i # 1
    <3>1. i - 1 \in 1..Len(Tail(s)) /\ Tail(s)[i - 1] = s[i]
      BY <1>1, <2>2
    <3> QED BY <3>1 DEF InSeq
  <2> QED BY <2>1, <2>2
<1>3. \A r \in InSeq(Tail(s)) : \E i \in 2..Len(s) : r = s[i]
  <2> SUFFICES ASSUME NEW i \in 1..Len(Tail(s)) PROVE \E j \in 2..Len(s) : Tail(s)[i] = s[j]
    BY DEF InSeq
  <2>1. i + 1 \in 2..Len(s)
    BY <1>1
  <2> QED BY <1>1, <2>1
<1>4. {Head(s)} \cup InSeq(Tail(s)) \subseteq InSeq(s)
  BY <1>1, <1>3 DEF InSeq
<1>5. ASSUME Ascending(s)
      PROVE  Ascending(Tail(s)) /\ \A r \in InSeq(Tail(s)) : Head(s) < r
  <2>1. \A r \in InSeq(Tail(s)) : Head(s) < r
    BY <1>1, <1>3, <1>5 DEF Ascending
  <2>2. ASSUME NEW i \in 1..Len(Tail(s)), NEW j \in 1..Len(Tail(s)), i < j
        PROVE  Tail(s)[i] < Tail(s)[j]
    <3>1. i + 1 \in 1..Len(s) /\ j + 1 \in 1..Len(s) /\ i + 1 < j + 1
      BY <1>1, <2>2
    <3> QED BY <1>1, <1>5, <3>1 DEF Ascending
  <2> QED BY <2>1, <2>2 DEF Ascending
<1> QED BY <1>1, <1>2, <1>4, <1>5

LEMMA SeqFront ==
  ASSUME NEW s \in Seq(Reqs), NEW e \in Reqs
  PROVE  /\ InSeq(<<e>> \o s) = {e} \cup InSeq(s)
         /\ Ascending(s) /\ (\A r \in InSeq(s) : e < r) => Ascending(<<e>> \o s)
<1> DEFINE t == <<e>> \o s
<1>1. /\ t \in Seq(Reqs) /\ t # << >> /\ Head(t) = e /\ Tail(t) = s
      /\ Len(s) \in Nat /\ Len(t) = Len(s) + 1 /\ t[1] = e
      /\ \A i \in 2..Len(t) : t[i] = s[i - 1] /\ i - 1 \in 1..Len(s)
  OBVIOUS
<1> HIDE DEF t
<1>2. InSeq(t) = {e} \cup InSeq(s)
  BY <1>1, SeqTail
<1>3. ASSUME Ascending(s), \A r \in InSeq(s) : e < r PROVE Ascending(t)
  <2> SUFFICES ASSUME NEW i \in 1..Len(t), NEW j \in 1..Len(t), i < j PROVE t[i] < t[j]
    BY DEF Ascending
  <2>1. j \in 2..Len(t) /\ t[j] \in InSeq(s)
    BY <1>1 DEF InSeq
  <2>2. CASE i = 1
    BY <1>1, <1>3, <2>1, <2>2
  <2>3. CASE i # 1
    <3>1. i \in 2..Len(t) /\ i - 1 < j - 1
      BY <1>1, <2>1, <2>3
    <3> QED BY <1>1, <1>3, <2>1, <3>1 DEF Ascending
  <2> QED BY <2>2, <2>3
<1> QED BY <1>2, <1>3 DEF t

LEMMA SeqAscending == ASSUME NEW s \in Seq(Reqs), Ascending(s) PROVE ~Twice(s)
<1>1. \A i \in 1..Len(s) : s[i] \in Nat
  BY MysqlAssumption DEF Reqs
<1> QED BY <1>1 DEF Ascending, Twice

(* A response taken from the queue, or put at its end, and a request       *)
(* handled without a response.                                             *)
LEMMA SeqAnswered ==
  ASSUME NEW h \in Seq(Reqs), NEW q \in Seq(Reqs)
  PROVE  /\ h \o q \in Seq(Reqs)
         /\ q # << >> => Append(h, Head(q)) \o Tail(q) = h \o q
         /\ \A e \in Reqs : h \o Append(q, e) = Append(h \o q, e)
<1>1. h \o q \in Seq(Reqs)
  OBVIOUS
<1>2. ASSUME q # << >> PROVE Append(h, Head(q)) \o Tail(q) = h \o q
  <2>1. /\ Append(h, Head(q)) \o Tail(q) \in Seq(Reqs)
        /\ Len(Append(h, Head(q)) \o Tail(q)) = Len(h \o q)
        /\ \A i \in 1..Len(h \o q) : (Append(h, Head(q)) \o Tail(q))[i] = (h \o q)[i]
    BY <1>2
  <2> QED BY <1>1, <2>1, SeqEqual
<1>3. ASSUME NEW e \in Reqs PROVE h \o Append(q, e) = Append(h \o q, e)
  <2>1. /\ h \o Append(q, e) \in Seq(Reqs) /\ Append(h \o q, e) \in Seq(Reqs)
        /\ Len(h \o Append(q, e)) = Len(Append(h \o q, e))
        /\ \A i \in 1..Len(Append(h \o q, e)) :
             (h \o Append(q, e))[i] = Append(h \o q, e)[i]
    OBVIOUS
  <2> QED BY <2>1, SeqEqual
<1> QED BY <1>1, <1>2, <1>3

LEMMA SeqInsert ==
  ASSUME NEW h \in Seq(Reqs), NEW q \in Seq(Reqs), NEW e \in Reqs
  PROVE  /\ InSeq(Append(h, e) \o q) = InSeq(h \o q) \cup {e}
         /\ ~Twice(h \o q) /\ e \notin InSeq(h \o q) => ~Twice(Append(h, e) \o q)
<1> DEFINE n == Len(h)
           s == h \o q
           t == Append(h, e) \o q
           at(i) == IF i <= n THEN i ELSE i + 1
           from(i) == IF i <= n THEN i ELSE i - 1
<1>1. /\ n \in Nat /\ Len(s) \in Nat /\ Len(t) = Len(s) + 1 /\ n <= Len(s)
      /\ t[n + 1] = e
  OBVIOUS
<1>2. \A i \in 1..Len(s) : at(i) \in 1..Len(t) /\ t[at(i)] = s[i]
  OBVIOUS
<1>3. \A i \in 1..Len(t) : i # n + 1 => from(i) \in 1..Len(s) /\ s[from(i)] = t[i]
  OBVIOUS
<1>4. \A i, j \in Nat : i # n + 1 /\ j # n + 1 /\ i # j => from(i) # from(j)
  BY <1>1
<1> HIDE DEF s, t, n, at, from
<1>5. InSeq(t) = InSeq(s) \cup {e}
  <2>1. InSeq(s) \subseteq InSeq(t)
    BY <1>2 DEF InSeq
  <2>2. e \in InSeq(t)
    BY <1>1 DEF InSeq
  <2>3. InSeq(t) \subseteq InSeq(s) \cup {e}
    BY <1>1, <1>3 DEF InSeq
  <2> QED BY <2>1, <2>2, <2>3
<1>6. ASSUME ~Twice(s), e \notin InSeq(s) PROVE ~Twice(t)
  <2> SUFFICES ASSUME NEW i \in 1..Len(t), NEW j \in 1..Len(t), i # j, t[i] = t[j]
               PROVE  FALSE
    BY DEF Twice
  <2>1. CASE i # n + 1 /\ j # n + 1
    <3>1. /\ from(i) \in 1..Len(s) /\ from(j) \in 1..Len(s) /\ from(i) # from(j)
          /\ s[from(i)] = s[from(j)]
      BY <1>1, <1>3, <1>4, <2>1
    <3> QED BY <1>6, <3>1 DEF Twice
  <2>2. CASE i = n + 1 /\ j # n + 1
    <3>1. from(j) \in 1..Len(s) /\ s[from(j)] = e
      BY <1>1, <1>3, <2>2
    <3> QED BY <1>6, <3>1 DEF InSeq
  <2>3. CASE i # n + 1 /\ j = n + 1
    <3>1. from(i) \in 1..Len(s) /\ s[from(i)] = e
      BY <1>1, <1>3, <2>3
    <3> QED BY <1>6, <3>1 DEF InSeq
  <2> QED BY <2>1, <2>2, <2>3
<1> QED BY <1>5, <1>6 DEF s, t

----------------------------------------------------------------------------
(* Where a request is.  A client's queue ascends, its worker has an earlier *)
(* request than any in it, and what was answered of its requests is what   *)
(* comes before both.                                                      *)
Ans == InSeq(Answered)

Placed(c) ==
  /\ Ascending(m_ReqQueue[c])
  /\ cur[c] # 0 => \A r \in Queued(c) : cur[c] < r
  /\ Mine(c) \subseteq Queued(c) \cup {cur[c]} \cup Ans
  /\ \A r \in Ans : r \notin Queued(c) /\ r # cur[c]
  /\ \A r, s \in Mine(c) : r < s /\ s \in Ans => r \in Ans

AnsweredOnce ==
  /\ ~Twice(Answered) /\ Ans \subseteq 1..made
  /\ InSync => made \notin Ans

Placement == AnsweredOnce /\ \A c \in Clients : Placed(c)

LEMMA QueuedMine ==
  ASSUME Base, NEW c \in Clients
  PROVE  /\ Queued(c) \subseteq Mine(c) /\ (cur[c] # 0 => cur[c] \in Mine(c))
         /\ Mine(c) \subseteq 1..made /\ 1..made \subseteq Reqs /\ made \in Nat
         /\ \A d \in Clients \ {c}, r \in Mine(c) : r \notin Mine(d)
<1>1. Mine(c) \subseteq 1..made /\ 1..made \subseteq Reqs /\ made \in Nat
  BY MysqlAssumption DEF Base, TypeOK, Mine, Reqs
<1>2. Queued(c) \subseteq Mine(c) /\ (cur[c] # 0 => cur[c] \in Mine(c))
  BY DEF Base, WorkerLocal, Queued, InSeq
<1>3. \A d \in Clients \ {c}, r \in Mine(c) : r \notin Mine(d)
  BY DEF Mine
<1> QED BY <1>1, <1>2, <1>3

(* A client that an action leaves alone. *)
LEMMA PlacedAside ==
  ASSUME Base, NEW c \in Clients, Placed(c),
         cur'[c] = cur[c], m_ReqQueue'[c] = m_ReqQueue[c], Mine(c)' = Mine(c),
         Ans \subseteq Ans', \A r \in Ans' \ Ans : r \notin Mine(c) /\ r # 0
  PROVE  Placed(c)'
<1>1. Queued(c)' = Queued(c)
  BY DEF Queued
<1>2. Queued(c) \subseteq Mine(c) /\ (cur[c] # 0 => cur[c] \in Mine(c))
  BY QueuedMine
<1> QED BY <1>1, <1>2 DEF Placed

LEMMA NewRequestExact ==
  ASSUME Base, NEW c \in Clients, NEW isAsync \in BOOLEAN, NewRequest(c, isAsync)
  PROVE  /\ made' = made + 1 /\ made + 1 \in Reqs
         /\ \A d \in Clients : d # c \/ ~isAsync => Mine(d)' = Mine(d)
         /\ isAsync => Mine(c)' = Mine(c) \cup {made + 1}
<1>1. /\ made + 1 \in Reqs /\ made' = made + 1 /\ made \in Nat
      /\ client'[made + 1] = c /\ async'[made + 1] = isAsync
      /\ \A r \in 1..made : client'[r] = client[r] /\ async'[r] = async[r]
  <2>1. made \in Nat /\ made + 1 \in Reqs
    BY MysqlAssumption DEF NewRequest, Base, TypeOK, Reqs
  <2>2. /\ client' = [client EXCEPT ![made + 1] = c]
        /\ async' = [async EXCEPT ![made + 1] = isAsync] /\ made' = made + 1
    BY DEF NewRequest
  <2> QED BY <2>1, <2>2, NewRequestMine DEF Base, TypeOK
<1>2. \A d \in Clients : Mine(d)' = {r \in 1..(made + 1) : client'[r] = d /\ async'[r]}
  BY <1>1 DEF Mine
<1>3. 1..(made + 1) = (1..made) \cup {made + 1}
  BY <1>1
<1>4. ASSUME NEW d \in Clients, d # c \/ ~isAsync PROVE Mine(d)' = Mine(d)
  <2>1. ~(client'[made + 1] = d /\ async'[made + 1])
    BY <1>1, <1>4, Zenon
  <2> QED BY <1>1, <1>2, <1>3, <2>1 DEF Mine
<1>5. ASSUME isAsync PROVE Mine(c)' = Mine(c) \cup {made + 1}
  <2>1. client'[made + 1] = c /\ async'[made + 1]
    BY <1>1, <1>5, Zenon
  <2> QED BY <1>1, <1>2, <1>3, <2>1 DEF Mine
<1> QED BY <1>1, <1>4, <1>5

LEMMA PlacementRequest ==
  ASSUME Base, Placement, Request
  PROVE  Placement'
<1> PICK hash \in Clients : AddSQLRequest(hash) \/ AddSyncSQLRequest(hash)
  BY DEF Request
<1>1. PICK c \in Clients : c = Route(hash)
  BY RouteType
<1>2. /\ handled' = handled /\ m_qResponse' = m_qResponse /\ cur' = cur
      /\ pcMain' \in {"post", "syncLock"}
  BY DEF AddSQLRequest, AddSyncSQLRequest, respVars
<1>3. Answered' = Answered /\ Ans' = Ans
  BY <1>2 DEF Ans, Answered
<1>4. made \in Nat /\ Ans \subseteq 1..made
  BY QueuedMine DEF Placement, AnsweredOnce
<1>5. AnsweredOnce'
  <2>1. made' = made + 1
    BY DEF AddSQLRequest, AddSyncSQLRequest, NewRequest
  <2> QED BY <1>3, <1>4, <2>1 DEF Placement, AnsweredOnce
<1>6. CASE AddSyncSQLRequest(hash)
  <2>1. NewRequest(c, FALSE) /\ m_ReqQueue' = m_ReqQueue
    BY <1>1, <1>6 DEF AddSyncSQLRequest
  <2>2. \A d \in Clients : Mine(d)' = Mine(d)
    <3>1. FALSE \in BOOLEAN
      OBVIOUS
    <3> QED BY <2>1, <3>1, NewRequestExact
  <2> QED BY <1>2, <1>3, <1>5, <2>1, <2>2, PlacedAside DEF Placement
<1>7. CASE AddSQLRequest(hash)
  <2>1. NewRequest(c, TRUE) /\ m_ReqQueue' = [m_ReqQueue EXCEPT ![c] = Append(@, made + 1)]
    BY <1>1, <1>7 DEF AddSQLRequest, RecvSQLRequest
  <2>2. /\ made + 1 \in Reqs /\ Mine(c)' = Mine(c) \cup {made + 1}
        /\ \A d \in Clients \ {c} : Mine(d)' = Mine(d)
    <3>1. TRUE \in BOOLEAN
      OBVIOUS
    <3> QED BY <2>1, <3>1, NewRequestExact
  <2>3. m_ReqQueue \in [Clients -> Seq(Reqs)]
    BY DEF Base, TypeOK
  <2>4. \A d \in Clients \ {c} : Placed(d)'
    <3>1. \A d \in Clients \ {c} : m_ReqQueue'[d] = m_ReqQueue[d]
      BY <2>1, <2>3
    <3> QED BY <1>2, <1>3, <2>2, <3>1, PlacedAside DEF Placement
  <2>5. \A r \in Mine(c) : r < made + 1
    BY QueuedMine
  <2>6. m_ReqQueue'[c] = Append(m_ReqQueue[c], made + 1)
    BY <2>1, <2>3
  <2>7. /\ Queued(c)' = Queued(c) \cup {made + 1}
        /\ Ascending(m_ReqQueue'[c])
    <3>1. \A r \in InSeq(m_ReqQueue[c]) : r < made + 1
      BY <2>5, QueuedMine DEF Queued
    <3>2. Ascending(m_ReqQueue[c])
      BY DEF Placement, Placed
    <3>3. PICK q \in Seq(Reqs) : q = m_ReqQueue[c]
      BY <2>3
    <3>4. Queued(c)' = InSeq(Append(q, made + 1))
      BY <2>6, <3>3 DEF Queued
    <3> QED BY <2>2, <2>6, <3>1, <3>2, <3>3, <3>4, SeqAppend DEF Queued
  <2>8. Placed(c)'
    <3>1. /\ Placed(c) /\ Queued(c) \subseteq Mine(c) /\ Mine(c) \subseteq 1..made
          /\ cur[c] # 0 => cur[c] \in Mine(c)
      BY QueuedMine DEF Placement
    <3>2. made + 1 \notin Ans /\ 0 # made + 1
      BY <1>4
    <3>3. cur[c] # 0 => \A r \in Queued(c)' : cur'[c] < r
      BY <1>2, <2>5, <2>7, <3>1 DEF Placed
    <3>4. Mine(c)' \subseteq Queued(c)' \cup {cur'[c]} \cup Ans'
      BY <1>2, <1>3, <2>2, <2>7, <3>1 DEF Placed
    <3>5. \A r \in Ans' : r \notin Queued(c)' /\ r # cur'[c]
      BY <1>2, <1>3, <2>7, <3>1, <3>2 DEF Placed
    <3>6. \A r, s \in Mine(c)' : r < s /\ s \in Ans' => r \in Ans'
      <4> SUFFICES ASSUME NEW r \in Mine(c)', NEW s \in Mine(c)', r < s, s \in Ans'
                   PROVE  r \in Ans'
        OBVIOUS
      <4>1. s \in Mine(c) /\ s \in 1..made
        BY <1>3, <2>2, <3>1, <3>2
      <4>2. r # made + 1
        BY <4>1, <1>4
      <4> QED BY <1>3, <2>2, <3>1, <4>1, <4>2 DEF Placed
    <3> QED BY <1>2, <2>7, <3>3, <3>4, <3>5, <3>6 DEF Placed
  <2> QED BY <1>5, <2>4, <2>8 DEF Placement
<1> QED BY <1>6, <1>7

LEMMA AnsweredSeq == Base => Answered \in Seq(Reqs)
BY DEF Base, TypeOK, Answered

(* A synchronous request is handled without a response. *)
LEMMA PlacementSync ==
  ASSUME Base, Placement, SyncOk \/ SyncFail
  PROVE  Placement'
<1>1. /\ InSync /\ made \in Reqs /\ ~async[made] /\ made \notin Ans /\ made # 0
      /\ handled \in Seq(Reqs) /\ m_qResponse \in Seq(Reqs)
  BY DEF SyncOk, SyncFail, InSync, Base, MainLocal, TypeOK, Placement,
     AnsweredOnce, Reqs
<1>2. /\ handled' \in {handled, Append(handled, made)} /\ m_qResponse' = m_qResponse
      /\ m_ReqQueue' = m_ReqQueue /\ cur' = cur /\ made' = made
      /\ client' = client /\ async' = async /\ pcMain' = back
  BY DEF SyncOk, SyncFail, MainReturns, reqVars
<1>3. ~InSync' /\ \A c \in Clients : Mine(c)' = Mine(c) /\ made \notin Mine(c)
  BY <1>1, <1>2 DEF Base, MainLocal, InSync, Mine
<1>4. ~Twice(Answered') /\ Ans \subseteq Ans' /\ Ans' \subseteq Ans \cup {made}
  <2>1. CASE handled' = handled
    BY <1>2, <2>1 DEF Ans, Answered, Placement, AnsweredOnce
  <2>2. CASE handled' = Append(handled, made)
    <3>1. Answered' = Append(handled, made) \o m_qResponse
      BY <1>2, <2>2 DEF Answered
    <3>2. ~Twice(handled \o m_qResponse) /\ made \notin InSeq(handled \o m_qResponse)
      BY <1>1 DEF Ans, Answered, Placement, AnsweredOnce
    <3>3. /\ ~Twice(Append(handled, made) \o m_qResponse)
          /\ InSeq(Append(handled, made) \o m_qResponse)
               = InSeq(handled \o m_qResponse) \cup {made}
      BY <1>1, <3>2, SeqInsert
    <3>4. Ans' = Ans \cup {made}
      BY <3>1, <3>3 DEF Ans, Answered
    <3> QED BY <3>1, <3>3, <3>4
  <2> QED BY <1>2, <2>1, <2>2
<1>5. AnsweredOnce'
  <2>1. made \in 1..made
    BY <1>1, MysqlAssumption DEF Reqs
  <2> QED BY <1>2, <1>3, <1>4, <2>1 DEF Placement, AnsweredOnce
<1>6. \A c \in Clients : Placed(c)'
  BY <1>1, <1>2, <1>3, <1>4, PlacedAside DEF Placement
<1> QED BY <1>5, <1>6 DEF Placement

(* The actions that move no request, or one from the queue of responses    *)
(* to the handled ones.                                                    *)
LEMMA PlacementStays ==
  ASSUME Base, Placement, Answered' = Answered,
         UNCHANGED <<m_ReqQueue, cur, made, client, async>>, InSync' => InSync
  PROVE  Placement'
<1>1. Ans' = Ans /\ \A c \in Clients : Mine(c)' = Mine(c)
  BY DEF Ans, Mine
<1>2. AnsweredOnce'
  BY <1>1 DEF Placement, AnsweredOnce
<1>3. \A c \in Clients : Placed(c)'
  BY <1>1, PlacedAside DEF Placement
<1> QED BY <1>2, <1>3 DEF Placement

(* What an action of one worker has to show. *)
LEMMA PlacementStep ==
  ASSUME Base, Placement, NEW c \in Clients, Placed(c)', AnsweredOnce',
         UNCHANGED <<mainVars, reqVars>>,
         \A d \in Clients \ {c} : cur'[d] = cur[d] /\ m_ReqQueue'[d] = m_ReqQueue[d],
         Ans \subseteq Ans', Ans' \ Ans \subseteq Mine(c)
  PROVE  Placement'
<1>1. \A d \in Clients : Mine(d)' = Mine(d)
  BY DEF Mine, reqVars
<1>2. ASSUME NEW d \in Clients \ {c} PROVE Placed(d)'
  <2>1. \A r \in Ans' \ Ans : r \notin Mine(d) /\ r # 0
    BY QueuedMine
  <2> QED BY <1>1, <2>1, PlacedAside DEF Placement
<1> QED BY <1>2 DEF Placement

LEMMA PlacementPop ==
  ASSUME Base, Placement, NEW c \in Clients, PopRequest(c)
  PROVE  Placement'
<1>1. /\ UNCHANGED <<mainVars,
                     reqVars>> /\ handled' = handled /\ m_qResponse' = m_qResponse
      /\ cur[c] = 0
  BY DEF PopRequest, respVars, Base, WorkerLocal, Busy
<1>2. Answered' = Answered /\ Ans' = Ans /\ Mine(c)' = Mine(c) /\ (InSync' <=> InSync)
  BY <1>1 DEF Answered, Ans, Mine, InSync, mainVars, reqVars
<1>3. CASE m_ReqQueue[c] = << >>
  <2>1. m_ReqQueue' = m_ReqQueue /\ cur' = cur
    BY <1>3 DEF PopRequest
  <2> QED BY <1>1, <1>2, <2>1, PlacementStays DEF reqVars
<1>4. CASE m_ReqQueue[c] # << >>
  <2>1. PICK q \in Seq(Reqs) : q = m_ReqQueue[c]
    BY DEF Base, TypeOK
  <2>2. cur' = [cur EXCEPT ![c] = Head(q)] /\ m_ReqQueue' = [m_ReqQueue EXCEPT ![c] = Tail(q)]
    BY <1>4, <2>1 DEF PopRequest
  <2>3. /\ cur'[c] = Head(q) /\ m_ReqQueue'[c] = Tail(q)
        /\ \A d \in Clients \ {c} : cur'[d] = cur[d] /\ m_ReqQueue'[d] = m_ReqQueue[d]
    BY <2>2 DEF Base, TypeOK
  <2>4. /\ InSeq(q) = {Head(q)} \cup InSeq(Tail(q))
        /\ Ascending(Tail(q)) /\ \A r \in InSeq(Tail(q)) : Head(q) < r
    BY <1>4, <2>1, SeqTail DEF Placement, Placed
  <2>5. Queued(c) = InSeq(q) /\ Queued(c)' = InSeq(Tail(q))
    BY <2>1, <2>3 DEF Queued
  <2>6. Placed(c)'
    <3>1. Placed(c)
      BY DEF Placement
    <3>2. Mine(c)' \subseteq Queued(c)' \cup {cur'[c]} \cup Ans'
      <4>1. 0 \notin Mine(c)
        BY QueuedMine
      <4> QED BY <1>1, <1>2, <2>3, <2>4, <2>5, <3>1, <4>1 DEF Placed
    <3>3. \A r \in Ans' : r \notin Queued(c)' /\ r # cur'[c]
      BY <1>2, <2>3, <2>4, <2>5, <3>1 DEF Placed
    <3>4. \A r, s \in Mine(c)' : r < s /\ s \in Ans' => r \in Ans'
      BY <1>2, <3>1 DEF Placed
    <3> QED BY <2>3, <2>4, <2>5, <3>2, <3>3, <3>4 DEF Placed
  <2>7. AnsweredOnce'
    BY <1>1, <1>2 DEF Placement, AnsweredOnce, reqVars
  <2> QED BY <1>1, <1>2, <2>3, <2>6, <2>7, PlacementStep
<1> QED BY <1>3, <1>4

LEMMA PlacementRetry ==
  ASSUME Base, Placement, NEW c \in Clients, Retry(c)
  PROVE  Placement'
<1>1. /\ UNCHANGED <<mainVars,
                     reqVars>> /\ handled' = handled /\ m_qResponse' = m_qResponse
      /\ cur[c] \in Reqs /\ cur[c] # 0
  BY DEF Retry, respVars, Base, TypeOK, WorkerLocal, Busy
<1>2. Answered' = Answered /\ Ans' = Ans /\ Mine(c)' = Mine(c) /\ (InSync' <=> InSync)
  BY <1>1 DEF Answered, Ans, Mine, InSync, mainVars, reqVars
<1>3. PICK q \in Seq(Reqs) : q = m_ReqQueue[c]
  BY DEF Base, TypeOK
<1>4. /\ cur'[c] = 0 /\ m_ReqQueue'[c] = <<cur[c]>> \o q
      /\ \A d \in Clients \ {c} : cur'[d] = cur[d] /\ m_ReqQueue'[d] = m_ReqQueue[d]
  BY <1>3 DEF Retry, Base, TypeOK
<1>5. Queued(c) = InSeq(q) /\ Queued(c)' = InSeq(<<cur[c]>> \o q)
  BY <1>3, <1>4 DEF Queued
<1>6. Queued(c)' = {cur[c]} \cup Queued(c) /\ Ascending(<<cur[c]>> \o q)
  BY <1>1, <1>3, <1>5, SeqFront DEF Placement, Placed
<1>7. \A r \in Ans : r # 0
  BY QueuedMine DEF Placement, AnsweredOnce
<1>8. Placed(c)'
  <2>1. Placed(c)
    BY DEF Placement
  <2> QED BY <1>2, <1>4, <1>6, <1>7, <2>1 DEF Placed
<1>9. AnsweredOnce'
  BY <1>1, <1>2 DEF Placement, AnsweredOnce, reqVars
<1> QED BY <1>1, <1>2, <1>4, <1>8, <1>9, PlacementStep

LEMMA PlacementResponse ==
  ASSUME Base, Placement, NEW c \in Clients, ParseResponse(c)
  PROVE  Placement'
<1>1. /\ UNCHANGED <<mainVars, reqVars>> /\ handled' = handled
      /\ m_qResponse' = Append(m_qResponse, cur[c]) /\ m_ReqQueue' = m_ReqQueue
      /\ cur[c] \in Reqs /\ cur[c] # 0
  BY DEF ParseResponse, Base, TypeOK, WorkerLocal, Busy
<1>2. /\ cur'[c] = 0
      /\ \A d \in Clients \ {c} : cur'[d] = cur[d] /\ m_ReqQueue'[d] = m_ReqQueue[d]
  BY <1>1 DEF ParseResponse, Base, TypeOK
<1>3. Mine(c)' = Mine(c) /\ (InSync' <=> InSync) /\ made' = made /\ Queued(c)' = Queued(c)
  BY <1>1 DEF Mine, InSync, mainVars, reqVars, Queued
<1>4. cur[c] \in Mine(c) /\ Mine(c) \subseteq 1..made /\ cur[c] \notin Ans /\ Placed(c)
  BY <1>1, QueuedMine DEF Placement, Placed
<1>5. Answered \in Seq(Reqs) /\ Answered' = Append(Answered, cur[c])
  <2>1. handled \in Seq(Reqs) /\ m_qResponse \in Seq(Reqs)
    BY DEF Base, TypeOK
  <2> QED BY <1>1, <2>1, SeqAnswered DEF Answered
<1>6. Ans' = Ans \cup {cur[c]} /\ ~Twice(Answered')
  <2>1. PICK a \in Seq(Reqs) : a = Answered
    BY <1>5
  <2>2. ~Twice(a) /\ cur[c] \notin InSeq(a)
    BY <1>4, <2>1 DEF Ans, Placement, AnsweredOnce
  <2>3. Ans = InSeq(a) /\ Ans' = InSeq(Append(a, cur[c])) /\ Answered' = Append(a, cur[c])
    BY <1>5, <2>1 DEF Ans
  <2> QED BY <1>1, <2>1, <2>2, <2>3, SeqAppend
<1>7. AnsweredOnce'
  <2>1. InSync => made \notin Mine(c)
    BY DEF Base, MainLocal, Mine
  <2> QED BY <1>3, <1>4, <1>6, <2>1 DEF Placement, AnsweredOnce
<1>8. Placed(c)'
  <2>1. \A r \in Ans' : r \notin Queued(c) /\ r # 0
    <3>1. cur[c] \notin Queued(c)
      <4>1. \A r \in Queued(c) : r \in Nat /\ cur[c] < r
        BY <1>1, <1>4, QueuedMine DEF Placed
      <4> QED BY <1>1, <4>1
    <3>2. \A r \in Ans : r \notin Queued(c) /\ r # 0
      BY <1>4 DEF Placed, Placement, AnsweredOnce
    <3> QED BY <1>1, <1>6, <3>1, <3>2
  <2>2. Mine(c) \subseteq Queued(c) \cup {0} \cup Ans'
    BY <1>4, <1>6 DEF Placed
  <2>3. \A r, s \in Mine(c) : r < s /\ s \in Ans' => r \in Ans'
    <3> SUFFICES ASSUME NEW r \in Mine(c), NEW s \in Mine(c), r < s, s \in Ans', r \notin Ans'
                 PROVE  FALSE
      OBVIOUS
    <3>1. s = cur[c]
      BY <1>4, <1>6 DEF Placed
    <3>2. r \in Queued(c)
      BY <1>4, <1>6, <3>1 DEF Placed
    <3>3. cur[c] < r /\ r \in Nat /\ cur[c] \in Nat
      BY <1>1, <1>4, <3>2 DEF Placed
    <3> QED BY <3>1, <3>3
  <2> QED BY <1>1, <1>2, <1>3, <1>4, <2>1, <2>2, <2>3 DEF Placed
<1> QED BY <1>1, <1>2, <1>4, <1>6, <1>7, <1>8, PlacementStep

LEMMA PlacementNext == Base /\ Placement /\ [Next]_vars => Placement'
<1> SUFFICES ASSUME Base, Placement, [Next]_vars PROVE Placement'
  OBVIOUS
<1>1. CASE Request
  BY <1>1, PlacementRequest
<1>2. CASE SyncOk \/ SyncFail
  BY <1>2, PlacementSync
<1>3. CASE \/ PostRequest \/ SyncLock \/ Dispatch \/ WaitForAllDBReqIdle
           \/ WaitForAllDBRespIdle
  <2>1. /\ handled' = handled /\ m_qResponse' = m_qResponse
        /\ UNCHANGED <<m_ReqQueue, cur, made, client, async>> /\ (InSync' => InSync)
    BY <1>3 DEF PostRequest, SyncLock, Dispatch, WaitForAllDBReqIdle,
       WaitForAllDBRespIdle,
       MainReturns, respVars, reqVars, InSync, Base, MainLocal
  <2> QED BY <2>1, PlacementStays DEF Answered
<1>4. CASE OnDataReceive
  <2>1. UNCHANGED <<m_ReqQueue, cur, made, client, async>> /\ (InSync' => InSync)
    BY <1>4 DEF OnDataReceive, reqVars, InSync
  <2>2. handled \in Seq(Reqs) /\ m_qResponse \in Seq(Reqs)
    BY DEF Base, TypeOK
  <2>3. Answered' = Answered
    <3>1. /\ m_qResponse # << >>
             => Append(handled, Head(m_qResponse)) \o Tail(m_qResponse) = Answered
      BY <2>2, SeqAnswered DEF Answered
    <3>2. \/ /\ m_qResponse # << >> /\ m_qResponse' = Tail(m_qResponse)
             /\ handled' = Append(handled, Head(m_qResponse))
          \/ m_qResponse' = m_qResponse /\ handled' = handled
      BY <1>4 DEF OnDataReceive
    <3> QED BY <3>1, <3>2 DEF Answered
  <2> QED BY <2>1, <2>3, PlacementStays
<1>5. ASSUME NEW c \in Clients, PopRequest(c) \/ Retry(c) \/ ParseResponse(c)
      PROVE  Placement'
  BY <1>5, PlacementPop, PlacementRetry, PlacementResponse
<1>6. ASSUME NEW c \in Clients,
             \/ Reset(c) \/ WaitToken(c) \/ (\E ok \in BOOLEAN : ConnectEnds(c, ok))
             \/ StartConnect(c) \/ LockRequest(c) \/ Execution(c) \/ SignalResponse(c)
             \/ Repost(c)
      PROVE  Placement'
  <2>1. /\ handled' = handled /\ m_qResponse' = m_qResponse
        /\ UNCHANGED <<m_ReqQueue, cur, made, client, async, pcMain>>
    BY <1>6 DEF Reset, WaitToken, ConnectEnds, StartConnect, LockRequest, Execution,
       ExecuteOk, ExecuteFail, SignalResponse, Repost, mainVars, respVars, reqVars
  <2> QED BY <2>1, PlacementStays DEF Answered, InSync
<1>7. CASE UNCHANGED vars
  <2>1. /\ handled' = handled /\ m_qResponse' = m_qResponse
        /\ UNCHANGED <<m_ReqQueue, cur, made, client, async, pcMain>>
    BY <1>7 DEF vars, mainVars, respVars, reqVars
  <2> QED BY <2>1, PlacementStays DEF Answered, InSync
<1> QED BY <1>1, <1>2, <1>3, <1>4, <1>5, <1>6, <1>7 DEF Next, MainStep, WorkerStep

LEMMA PlacementHolds == Spec => [](Base /\ Placement)
<1>1. Init => Placement
  <2> SUFFICES ASSUME Init PROVE Placement
    OBVIOUS
  <2>1. Answered = << >> /\ Ans = {} /\ ~InSync /\ made = 0
    BY DEF Init, Answered, Ans, InSeq, InSync
  <2>2. ~Twice(<< >>)
    BY DEF Twice
  <2>3. AnsweredOnce
    BY <2>1, <2>2 DEF AnsweredOnce
  <2>4. \A c \in Clients : Placed(c)
    BY <2>1 DEF Init, Placed, Ascending, Mine
  <2> QED BY <2>3, <2>4 DEF Placement
<1> QED BY <1>1, PlacementNext, BaseHolds, PTL DEF Spec

(* An asynchronous request is never lost, run twice or answered twice: it  *)
(* is in its client's queue, in its worker's hands, or answered, whatever  *)
(* is retried, reset or disconnected meanwhile.                            *)
THEOREM RequestsAccounted == Spec => []NoneLostNoneTwice
<1>1. Base /\ Placement => NoneLostNoneTwice
  <2> SUFFICES ASSUME Base, Placement PROVE NoneLostNoneTwice
    OBVIOUS
  <2>1. ASSUME NEW c \in Clients
        PROVE  ~Twice(m_ReqQueue[c]) /\ \A r \in Queued(c) : client[r] = c
    <3>1. m_ReqQueue[c] \in Seq(Reqs) /\ Ascending(m_ReqQueue[c])
      BY DEF Base, TypeOK, Placement, Placed
    <3>2. Queued(c) \subseteq Mine(c)
      BY QueuedMine
    <3> QED BY <3>1, <3>2, SeqAscending DEF Mine
  <2>2. ~Twice(Answered)
    BY DEF Placement, AnsweredOnce
  <2>3. ASSUME NEW r \in Asyncs
        PROVE  /\ r \in Queued(client[r]) \/ cur[client[r]] = r \/ r \in InSeq(Answered)
               /\ ~(r \in Queued(client[r]) /\ cur[client[r]] = r)
               /\ ~(r \in Queued(client[r]) /\ r \in InSeq(Answered))
               /\ ~(cur[client[r]] = r /\ r \in InSeq(Answered))
    <3>1. r \in Reqs /\ r \in Nat /\ r # 0
      BY MysqlAssumption DEF Asyncs, Base, TypeOK, Reqs
    <3>2. PICK c \in Clients : c = client[r]
      BY <3>1 DEF Base, TypeOK
    <3>3. r \in Mine(c) /\ Placed(c)
      BY <3>2 DEF Asyncs, Mine, Placement
    <3>4. ~(r \in Queued(c) /\ cur[c] = r)
      BY <3>1, <3>3 DEF Placed
    <3> QED BY <3>2, <3>3, <3>4 DEF Placed, Ans
  <2> QED BY <2>1, <2>2, <2>3 DEF NoneLostNoneTwice
<1> QED BY <1>1, PlacementHolds, PTL

(* The requests of one client are answered in the order in which they were *)
(* made: a request that is retried goes back to the front, where nothing   *)
(* overtakes it.                                                           *)
THEOREM AnswersInOrder == Spec => []NoneOvertaken
<1>1. Base /\ Placement => NoneOvertaken
  <2> SUFFICES ASSUME Base, Placement, NEW r \in Asyncs, NEW s \in Asyncs,
                      r < s, client[r] = client[s], s \in InSeq(Answered)
               PROVE  r \in InSeq(Answered)
    BY DEF NoneOvertaken
  <2>1. r \in Reqs
    BY MysqlAssumption DEF Asyncs, Base, TypeOK, Reqs
  <2>2. PICK c \in Clients : c = client[r]
    BY <2>1 DEF Base, TypeOK
  <2>3. r \in Mine(c) /\ s \in Mine(c) /\ Placed(c)
    BY <2>2 DEF Asyncs, Mine, Placement
  <2> QED BY <2>3 DEF Placed, Ans
<1> QED BY <1>1, PlacementHolds, PTL

----------------------------------------------------------------------------
(* How often a request was refused.  Until its end is known, a request has *)
(* been retried after every refusal.                                       *)
Fresh(r) == result[r] = "none" /\ failures[r] = m_nTry[r]

Counted(c) ==
  /\ \A r \in Queued(c) : Fresh(r)
  /\ pc[c] \in {"lock", "exec"} => Fresh(cur[c])
  /\ pc[c] = "retry" => result[cur[c]] = "none" /\ failures[cur[c]] = m_nTry[cur[c]] + 1

CountedMain ==
  /\ \A r \in Reqs : r > made => Fresh(r)
  /\ InSync => Fresh(made)

Counts == ErrorMeansExhausted /\ CountedMain /\ \A c \in Clients : Counted(c)

(* A client whose worker, queue and requests an action leaves alone. *)
LEMMA CountedAside ==
  ASSUME Base, NEW c \in Clients, Counted(c),
         pc'[c] = pc[c], cur'[c] = cur[c], m_ReqQueue'[c] = m_ReqQueue[c],
         \A r \in Mine(c) : /\ result'[r] = result[r] /\ failures'[r] = failures[r]
                            /\ m_nTry'[r] = m_nTry[r]
  PROVE  Counted(c)'
<1>1. /\ Queued(c)' = Queued(c) /\ Queued(c) \subseteq Mine(c)
      /\ cur[c] # 0 => cur[c] \in Mine(c)
  BY QueuedMine DEF Queued
<1>2. pc[c] \in {"lock", "exec", "retry"} => cur[c] # 0
  BY DEF Base, WorkerLocal, Busy
<1> QED BY <1>1, <1>2 DEF Counted, Fresh

(* What the end of a query, or a retry, has to show: only the worker's own *)
(* request changes.                                                        *)
LEMMA CountsStep ==
  ASSUME Base, Counts, NEW c \in Clients, cur[c] # 0,
         UNCHANGED <<mainVars, reqVars>>,
         \A d \in Clients \ {c} :
           pc'[d] = pc[d] /\ cur'[d] = cur[d] /\ m_ReqQueue'[d] = m_ReqQueue[d],
         \A r \in Reqs \ {cur[c]} : /\ result'[r] = result[r] /\ failures'[r] = failures[r]
                                    /\ m_nTry'[r] = m_nTry[r],
         Counted(c)',
         result'[cur[c]] = "error" => failures'[cur[c]] = m_nRetryCount + 1
  PROVE  Counts'
<1>1. /\ cur[c] \in Mine(c) /\ Mine(c) \subseteq 1..made /\ 1..made \subseteq Reqs
      /\ \A d \in Clients \ {c} : cur[c] \notin Mine(d) /\ Mine(d) \subseteq Reqs
  BY QueuedMine
<1>2. ErrorMeansExhausted'
  BY DEF Counts, ErrorMeansExhausted
<1>3. CountedMain'
  <2>1. ASSUME NEW r \in Reqs, r > made' PROVE Fresh(r)'
    <3>1. r > made
      BY <2>1 DEF reqVars
    <3>2. cur[c] <= made /\ cur[c] \in Nat /\ made \in Nat
      BY <1>1, QueuedMine
    <3>3. r # cur[c] /\ r \in Nat
      BY <3>1, <3>2, MysqlAssumption DEF Reqs
    <3> QED BY <3>1, <3>3 DEF Counts, CountedMain, Fresh
  <2>2. InSync' => InSync /\ made \in Reqs /\ made # cur[c] /\ made' = made
    BY <1>1 DEF InSync, mainVars, reqVars, Base, MainLocal, Mine
  <2>3. InSync' => Fresh(made)'
    BY <2>2 DEF Counts, CountedMain, Fresh
  <2> QED BY <2>1, <2>3 DEF CountedMain
<1>4. ASSUME NEW d \in Clients \ {c} PROVE Counted(d)'
  BY <1>1, CountedAside DEF Counts
<1> QED BY <1>2, <1>3, <1>4 DEF Counts

LEMMA CountsExecute ==
  ASSUME Base, Placement, Counts, NEW c \in Clients, Execution(c)
  PROVE  Counts'
<1>1. /\ pc[c] = "exec" /\ cur[c] \in Reqs /\ cur[c] # 0 /\ Fresh(cur[c])
      /\ UNCHANGED <<mainVars, reqVars>> /\ m_ReqQueue' = m_ReqQueue /\ cur' = cur
      /\ m_nTry' = m_nTry
  BY DEF Execution, ExecuteOk, ExecuteFail, Base, TypeOK, WorkerLocal, Busy,
     Counts, Counted
<1>2. /\ Queued(c)' = Queued(c) /\ Queued(c) \subseteq Reqs /\ cur[c] \notin Queued(c)
      /\ \A r \in Queued(c) : Fresh(r)
  <2>1. Queued(c) \subseteq Reqs
    BY QueuedMine
  <2>2. \A r \in Queued(c) : cur[c] < r
    BY <1>1 DEF Placement, Placed
  <2> QED BY <1>1, <2>1, <2>2, MysqlAssumption DEF Queued, Counts, Counted, Reqs
<1>3. CASE ExecuteOk(c)
  <2>1. /\ result' = [result EXCEPT ![cur[c]] = "ok"] /\ failures' = failures
        /\ pc' = [pc EXCEPT ![c] = "answer"]
    BY <1>3 DEF ExecuteOk, WorkerGoto
  <2>2. /\ \A d \in Clients \ {c} : pc'[d] = pc[d]
        /\ \A r \in Reqs \ {cur[c]} : result'[r] = result[r]
        /\ result'[cur[c]] # "error" /\ pc'[c] = "answer"
    BY <1>1, <2>1 DEF Base, TypeOK
  <2>3. Counted(c)'
    BY <1>1, <1>2, <2>1, <2>2 DEF Counted, Fresh
  <2> QED BY <1>1, <2>1, <2>2, <2>3, CountsStep
<1>4. CASE ExecuteFail(c)
  <2>1. /\ failures' = [failures EXCEPT ![cur[c]] = @ + 1]
        /\ \/ /\ m_nTry[cur[c]] >= m_nRetryCount /\ pc' = [pc EXCEPT ![c] = "answer"]
              /\ result' = [result EXCEPT ![cur[c]] = "error"]
           \/ result' = result /\ pc' = [pc EXCEPT ![c] = "retry"]
    BY <1>4 DEF ExecuteFail, WorkerGoto
  <2>2. /\ \A d \in Clients \ {c} : pc'[d] = pc[d]
        /\ \A r \in Reqs \ {cur[c]} : result'[r] = result[r] /\ failures'[r] = failures[r]
        /\ failures'[cur[c]] = m_nTry[cur[c]] + 1
        /\ \/ m_nTry[cur[c]] >= m_nRetryCount /\ pc'[c] = "answer"
           \/ result'[cur[c]] = "none" /\ pc'[c] = "retry"
    BY <1>1, <2>1 DEF Base, TypeOK, Fresh
  <2>3. Counted(c)'
    <3>1. ASSUME NEW r \in Queued(c)' PROVE Fresh(r)'
      <4>1. r \in Reqs \ {cur[c]} /\ Fresh(r)
        BY <1>2
      <4> QED BY <1>1, <2>2, <4>1 DEF Fresh
    <3>2. pc'[c] = "retry" => /\ result'[cur'[c]] = "none"
                              /\ failures'[cur'[c]] = m_nTry'[cur'[c]] + 1
      BY <1>1, <2>2
    <3>3. pc'[c] \notin {"lock", "exec"}
      BY <2>2
    <3> QED BY <3>1, <3>2, <3>3 DEF Counted
  <2>4. m_nTry[cur[c]] >= m_nRetryCount => failures'[cur[c]] = m_nRetryCount + 1
    <3>1. m_nTry[cur[c]] \in 0..m_nRetryCount /\ m_nRetryCount \in Nat
      BY <1>1, MysqlAssumption DEF Base, TypeOK
    <3> QED BY <2>2, <3>1
  <2>5. result'[cur[c]] = "error" => failures'[cur[c]] = m_nRetryCount + 1
    BY <2>2, <2>4
  <2> QED BY <1>1, <2>2, <2>3, <2>5, CountsStep
<1> QED BY <1>3, <1>4 DEF Execution

LEMMA CountsRetry ==
  ASSUME Base, Placement, Counts, NEW c \in Clients, Retry(c)
  PROVE  Counts'
<1>1. /\ pc[c] = "retry" /\ cur[c] \in Reqs /\ cur[c] # 0
      /\ result[cur[c]] = "none" /\ failures[cur[c]] = m_nTry[cur[c]] + 1
      /\ UNCHANGED <<mainVars, reqVars, result, failures>>
  BY DEF Retry, Base, TypeOK, WorkerLocal, Busy, Counts, Counted
<1>2. /\ \A d \in Clients \ {c} :
           pc'[d] = pc[d] /\ cur'[d] = cur[d] /\ m_ReqQueue'[d] = m_ReqQueue[d]
      /\ \A r \in Reqs \ {cur[c]} : m_nTry'[r] = m_nTry[r]
      /\ m_nTry'[cur[c]] = m_nTry[cur[c]] + 1 /\ pc'[c] = "repost"
  BY <1>1 DEF Retry, WorkerGoto, Base, TypeOK
<1>3. Queued(c)' = {cur[c]} \cup Queued(c)
  <2>1. PICK q \in Seq(Reqs) : q = m_ReqQueue[c]
    BY DEF Base, TypeOK
  <2>2. m_ReqQueue'[c] = <<cur[c]>> \o q
    BY <2>1 DEF Retry, Base, TypeOK
  <2> QED BY <1>1, <2>1, <2>2, SeqFront DEF Queued
<1>4. ASSUME NEW r \in Queued(c)' PROVE Fresh(r)'
  <2>1. CASE r = cur[c]
    BY <1>1, <1>2, <2>1 DEF Fresh
  <2>2. CASE r # cur[c]
    <3>1. Fresh(r) /\ r \in Reqs
      BY <1>3, <2>2, QueuedMine DEF Counts, Counted
    <3> QED BY <1>1, <1>2, <2>2, <3>1 DEF Fresh
  <2> QED BY <2>1, <2>2
<1>5. Counted(c)'
  BY <1>2, <1>4 DEF Counted
<1> QED BY <1>1, <1>2, <1>5, CountsStep

(* A synchronous request ends: it is no client's asynchronous one. *)
LEMMA CountsSync ==
  ASSUME Base, Counts, SyncOk \/ SyncFail
  PROVE  Counts'
<1>1. /\ InSync /\ made \in Reqs /\ Fresh(made)
      /\ \A c \in Clients : made \notin Mine(c)
  BY DEF SyncOk, SyncFail, InSync, Base, MainLocal, Mine, Counts, CountedMain
<1>2. /\ pc' = pc /\ cur' = cur /\ m_ReqQueue' = m_ReqQueue /\ m_nTry' = m_nTry
      /\ made' = made /\ ~InSync'
  BY DEF SyncOk, SyncFail, MainReturns, reqVars, InSync, Base, MainLocal
<1>3. /\ \A r \in Reqs \ {made} : result'[r] = result[r] /\ failures'[r] = failures[r]
      /\ result'[made] = "error" => failures'[made] = m_nRetryCount + 1
  <2>1. CASE SyncOk
    BY <1>1, <2>1 DEF SyncOk, Base, TypeOK
  <2>2. CASE SyncFail
    <3>1. /\ failures' = [failures EXCEPT ![made] = @ + 1]
          /\ \/ /\ m_nTry[made] >= m_nRetryCount
                /\ result' = [result EXCEPT ![made] = "error"]
             \/ result' = result
      BY <2>2 DEF SyncFail
    <3>2. m_nTry[made] \in 0..m_nRetryCount /\ m_nRetryCount \in Nat
          /\ failures[made] = m_nTry[made] /\ result[made] = "none"
      BY <1>1, MysqlAssumption DEF Base, TypeOK, Fresh
    <3> QED BY <1>1, <3>1, <3>2 DEF Base, TypeOK
  <2> QED BY <2>1, <2>2
<1>4. ErrorMeansExhausted'
  BY <1>3 DEF Counts, ErrorMeansExhausted
<1>5. CountedMain'
  <2>1. \A r \in Reqs : r > made => r # made
    BY MysqlAssumption DEF Reqs
  <2> QED BY <1>2, <1>3, <2>1 DEF Counts, CountedMain, Fresh
<1>6. ASSUME NEW c \in Clients PROVE Counted(c)'
  <2>1. Mine(c) \subseteq Reqs
    BY QueuedMine
  <2> QED BY <1>1, <1>2, <1>3, <2>1, CountedAside DEF Counts
<1> QED BY <1>4, <1>5, <1>6 DEF Counts

LEMMA CountsRequest ==
  ASSUME Base, Counts, Request
  PROVE  Counts'
<1> PICK hash \in Clients : AddSQLRequest(hash) \/ AddSyncSQLRequest(hash)
  BY DEF Request
<1>1. /\ made' = made + 1 /\ made + 1 \in Reqs /\ made \in Nat
      /\ pc' = pc /\ cur' = cur
      /\ m_nTry' = m_nTry /\ result' = result /\ failures' = failures
  BY MysqlAssumption DEF AddSQLRequest, AddSyncSQLRequest, NewRequest, Base,
     TypeOK, Reqs
<1>2. Fresh(made + 1)
  BY <1>1 DEF Counts, CountedMain
<1>3. ErrorMeansExhausted'
  BY <1>1 DEF Counts, ErrorMeansExhausted
<1>4. CountedMain'
  <2>1. \A r \in Reqs : r > made + 1 => r > made
    BY <1>1 DEF Reqs
  <2> QED BY <1>1, <1>2, <2>1 DEF Counts, CountedMain, Fresh
<1>5. PICK c \in Clients : c = Route(hash)
  BY RouteType
<1>6. m_ReqQueue' \in {m_ReqQueue, [m_ReqQueue EXCEPT ![c] = Append(@, made + 1)]}
  BY <1>5 DEF AddSQLRequest, AddSyncSQLRequest, RecvSQLRequest
<1>7. ASSUME NEW d \in Clients PROVE Counted(d)'
  <2>1. CASE m_ReqQueue'[d] = m_ReqQueue[d]
    BY <1>1, <2>1, CountedAside DEF Counts
  <2>2. CASE m_ReqQueue'[d] # m_ReqQueue[d]
    <3>1. PICK q \in Seq(Reqs) : q = m_ReqQueue[d]
      BY DEF Base, TypeOK
    <3>2. m_ReqQueue'[d] = Append(q, made + 1)
      BY <1>6, <2>2, <3>1 DEF Base, TypeOK
    <3>3. Queued(d) = InSeq(q) /\ Queued(d)' = InSeq(Append(q, made + 1))
      BY <3>1, <3>2 DEF Queued
    <3>4. Queued(d)' = Queued(d) \cup {made + 1}
      BY <1>1, <3>3, SeqAppend
    <3> QED BY <1>1, <1>2, <3>4 DEF Counts, Counted, Fresh
  <2> QED BY <2>1, <2>2
<1> QED BY <1>3, <1>4, <1>7 DEF Counts

(* The actions that count nothing and start no request of the main thread. *)
LEMMA CountsStays ==
  ASSUME Counts, UNCHANGED <<result, failures, m_nTry, made>>, InSync' => InSync,
         \A c \in Clients : Counted(c)'
  PROVE  Counts'
BY DEF Counts, CountedMain, ErrorMeansExhausted, Fresh

LEMMA CountsPop ==
  ASSUME Base, Counts, NEW c \in Clients, PopRequest(c)
  PROVE  Counts'
<1>1. UNCHANGED <<result, failures, m_nTry, made, pcMain>>
  BY DEF PopRequest, mainVars, reqVars
<1>2. \A d \in Clients \ {c} :
        pc'[d] = pc[d] /\ cur'[d] = cur[d] /\ m_ReqQueue'[d] = m_ReqQueue[d]
  BY DEF PopRequest, WorkerGoto, Base, TypeOK
<1>3. Counted(c)'
  <2>1. CASE m_ReqQueue[c] = << >>
    <3>1. m_ReqQueue' = m_ReqQueue /\ pc'[c] = "wait"
      BY <2>1 DEF PopRequest, WorkerGoto, Base, TypeOK
    <3> QED BY <1>1, <3>1 DEF Counts, Counted, Fresh, Queued
  <2>2. CASE m_ReqQueue[c] # << >>
    <3>1. PICK q \in Seq(Reqs) : q = m_ReqQueue[c]
      BY DEF Base, TypeOK
    <3>2. m_ReqQueue'[c] = Tail(q) /\ cur'[c] = Head(q) /\ pc'[c] = "lock"
      BY <2>2, <3>1 DEF PopRequest, WorkerGoto, Base, TypeOK
    <3>3. Queued(c) = InSeq(q) /\ Queued(c)' = InSeq(Tail(q))
      BY <3>1, <3>2 DEF Queued
    <3>4. Queued(c)' \subseteq Queued(c) /\ cur'[c] \in Queued(c)
      BY <2>2, <3>1, <3>2, <3>3, SeqTail
    <3> QED BY <1>1, <3>2, <3>4 DEF Counts, Counted, Fresh
  <2> QED BY <2>1, <2>2
<1>4. ASSUME NEW d \in Clients \ {c} PROVE Counted(d)'
  BY <1>1, <1>2, CountedAside DEF Counts
<1> QED BY <1>1, <1>3, <1>4, CountsStays DEF InSync

LEMMA CountsNext == Base /\ Placement /\ Counts /\ [Next]_vars => Counts'
<1> SUFFICES ASSUME Base, Placement, Counts, [Next]_vars PROVE Counts'
  OBVIOUS
<1>1. CASE Request \/ SyncOk \/ SyncFail
  BY <1>1, CountsRequest, CountsSync
<1>2. CASE \/ PostRequest \/ SyncLock \/ Dispatch \/ OnDataReceive \/ WaitForAllDBReqIdle
           \/ WaitForAllDBRespIdle
  <2>1. /\ UNCHANGED <<result, failures, m_nTry, made, pc, cur, m_ReqQueue>>
        /\ InSync' => InSync
    BY <1>2 DEF PostRequest, SyncLock, Dispatch, OnDataReceive, WaitForAllDBReqIdle,
       WaitForAllDBRespIdle, MainReturns, reqVars, InSync, Base, MainLocal
  <2>2. \A c \in Clients : Counted(c)'
    BY <2>1, CountedAside DEF Counts
  <2> QED BY <2>1, <2>2, CountsStays
<1>3. ASSUME NEW c \in Clients, Execution(c) \/ Retry(c) \/ PopRequest(c)
      PROVE  Counts'
  BY <1>3, CountsExecute, CountsRetry, CountsPop
<1>4. ASSUME NEW c \in Clients,
             \/ Reset(c) \/ WaitToken(c) \/ (\E ok \in BOOLEAN : ConnectEnds(c, ok))
             \/ StartConnect(c) \/ LockRequest(c) \/ ParseResponse(c) \/ SignalResponse(c)
             \/ Repost(c)
      PROVE  Counts'
  <2>1. /\ UNCHANGED <<result, failures, m_nTry, made, pcMain, m_ReqQueue>>
        /\ \A d \in Clients \ {c} : pc'[d] = pc[d] /\ cur'[d] = cur[d]
        /\ pc'[c] = "exec" => cur'[c] = cur[c] /\ pc[c] \in {"lock", "exec"}
        /\ pc'[c] \in {"lock", "retry"} => pc'[c] = pc[c] /\ cur'[c] = cur[c]
    <3>1. pc \in [Clients -> WorkerAt] /\ cur \in [Clients -> Reqs \cup {0}]
      BY DEF Base, TypeOK
    <3>2. CASE ParseResponse(c)
      BY <3>1, <3>2 DEF ParseResponse, WorkerGoto, mainVars, reqVars
    <3>3. CASE Reset(c)
      BY <3>1, <3>3 DEF Reset, mainVars, reqVars
    <3>4. CASE LockRequest(c)
      BY <3>1, <3>4 DEF LockRequest, WorkerGoto, mainVars, reqVars
    <3>5. CASE \/ WaitToken(c) \/ (\E ok \in BOOLEAN : ConnectEnds(c, ok))
               \/ StartConnect(c) \/ SignalResponse(c) \/ Repost(c)
      BY <3>1, <3>5 DEF WaitToken, ConnectEnds, StartConnect, SignalResponse, Repost,
         WorkerGoto, mainVars, reqVars
    <3> QED BY <1>4, <3>2, <3>3, <3>4, <3>5
  <2>2. Counted(c)'
    BY <2>1 DEF Counts, Counted, Fresh, Queued
  <2>3. ASSUME NEW d \in Clients \ {c} PROVE Counted(d)'
    BY <2>1, CountedAside DEF Counts
  <2> QED BY <2>1, <2>2, <2>3, CountsStays DEF InSync
<1>5. CASE UNCHANGED vars
  <2>1. UNCHANGED <<result, failures, m_nTry, made, pc, cur, m_ReqQueue, pcMain>>
    BY <1>5 DEF vars, mainVars, reqVars
  <2>2. \A c \in Clients : Counted(c)'
    BY <2>1, CountedAside DEF Counts
  <2> QED BY <2>1, <2>2, CountsStays DEF InSync
<1> QED BY <1>1, <1>2, <1>3, <1>4, <1>5 DEF Next, MainStep, WorkerStep

(* An error reaches the host only after m_nRetryCount + 1 refusals: no     *)
(* retry is skipped or counted twice, though a retried request goes        *)
(* through the queue again.                                                *)
THEOREM ErrorsAfterRetries == Spec => []ErrorMeansExhausted
<1>1. Init => Counts
  BY DEF Init, Counts, ErrorMeansExhausted, CountedMain, Counted, Fresh, Queued,
     InSeq, InSync
<1>2. Counts => ErrorMeansExhausted
  BY DEF Counts
<1> QED BY <1>1, <1>2, CountsNext, PlacementHolds, PTL DEF Spec

----------------------------------------------------------------------------
(* The refinement: a client's row is the request its worker holds and then *)
(* its queue.                                                              *)

(* A worker about to answer has an outcome to hand in. *)
Decided(c) == pc[c] = "answer" => result[cur[c]] # "none"
Decision == \A c \in Clients : Decided(c)

LEMMA RowFacts ==
  ASSUME Base, NEW c \in Clients
  PROVE  /\ Rows \in [Clients -> Seq(Reqs)] /\ Rows[c] = Row(c)
         /\ m_ReqQueue[c] \in Seq(Reqs)
         /\ cur[c] = 0 => Rows[c] = m_ReqQueue[c]
         /\ cur[c] # 0 => /\ Rows[c] # << >> /\ Head(Rows[c]) = cur[c]
                          /\ Tail(Rows[c]) = m_ReqQueue[c]
<1>1. ASSUME NEW d \in Clients
      PROVE  /\ Row(d) \in Seq(Reqs) /\ m_ReqQueue[d] \in Seq(Reqs)
             /\ cur[d] # 0 => /\ Row(d) # << >> /\ Head(Row(d)) = cur[d]
                              /\ Tail(Row(d)) = m_ReqQueue[d]
  <2>1. PICK q \in Seq(Reqs) : q = m_ReqQueue[d]
    BY DEF Base, TypeOK
  <2>2. CASE cur[d] = 0
    BY <2>1, <2>2 DEF Row
  <2>3. CASE cur[d] # 0
    <3>1. PICK r \in Reqs : r = cur[d]
      BY <2>3 DEF Base, TypeOK
    <3>2. /\ <<r>> \o q \in Seq(Reqs) /\ Head(<<r>> \o q) = r /\ Len(<<r>> \o q) = Len(q) + 1
          /\ <<r>> \o q # << >> /\ Tail(<<r>> \o q) \in Seq(Reqs)
      OBVIOUS
    <3>3. Tail(<<r>> \o q) = q
      <4>1. /\ Len(Tail(<<r>> \o q)) = Len(q)
            /\ \A i \in 1..Len(q) : Tail(<<r>> \o q)[i] = q[i]
        OBVIOUS
      <4> QED BY <3>2, <4>1, SeqEqual
    <3>4. Row(d) = <<r>> \o q
      BY <2>1, <2>3, <3>1 DEF Row
    <3> QED BY <2>1, <3>1, <3>2, <3>3, <3>4
  <2> QED BY <2>2, <2>3
<1>2. /\ Rows \in [Clients -> Seq(Reqs)] /\ Rows[c] = Row(c)
  BY <1>1 DEF Rows
<1> QED BY <1>1, <1>2 DEF Row

LEMMA RowsSame ==
  ASSUME UNCHANGED <<cur, m_ReqQueue>>
  PROVE  Rows' = Rows
BY DEF Rows, Row

(* What an action of one worker does to the rows. *)
LEMMA RowsStep ==
  ASSUME Base, NEW c \in Clients, NEW new, Row(c)' = new,
         \A d \in Clients \ {c} : cur'[d] = cur[d] /\ m_ReqQueue'[d] = m_ReqQueue[d]
  PROVE  Rows' = [Rows EXCEPT ![c] = new]
<1>1. \A d \in Clients \ {c} : Row(d)' = Row(d)
  BY DEF Row
<1>2. Rows' = [d \in Clients |-> Row(d)'] /\ Rows = [d \in Clients |-> Row(d)]
  BY DEF Rows
<1> QED BY <1>1, <1>2

(* An outcome is given by a worker to the request it has, and by the main  *)
(* thread to one of its own.                                               *)
LEMMA DecisionNext == Base /\ Placement /\ Decision /\ [Next]_vars => Decision'
<1> SUFFICES ASSUME Base, Placement, Decision, [Next]_vars, NEW c \in Clients,
                    pc'[c] = "answer"
             PROVE  result'[cur'[c]] # "none"
  BY DEF Decision, Decided
<1>1. /\ pc \in [Clients -> WorkerAt] /\ cur \in [Clients -> Reqs \cup {0}]
      /\ result \in [Reqs -> {"none", "ok", "error"}]
      /\ pc[c] = "answer" => result[cur[c]] # "none" /\ cur[c] \in Reqs /\ cur[c] # 0
  BY DEF Base, TypeOK, WorkerLocal, Busy, Decision, Decided
<1>2. CASE pc[c] = "answer" /\ cur'[c] = cur[c] /\ result'[cur[c]] = result[cur[c]]
  BY <1>1, <1>2
<1>3. CASE Request
  BY <1>1, <1>2, <1>3 DEF Request, AddSQLRequest, AddSyncSQLRequest
<1>4. CASE SyncOk \/ SyncFail
  <2>1. pc' = pc /\ cur' = cur /\ InSync
    BY <1>4 DEF SyncOk, SyncFail, InSync
  <2>2. made \in Reqs /\ made # cur[c]
    BY <1>1, <2>1, QueuedMine DEF Base, MainLocal, InSync, Mine
  <2>3. \A r \in Reqs : r # made => result'[r] = result[r]
    BY <1>1, <1>4 DEF SyncOk, SyncFail
  <2> QED BY <1>1, <2>1, <2>2, <2>3
<1>5. CASE \/ PostRequest \/ SyncLock \/ Dispatch \/ OnDataReceive \/ WaitForAllDBReqIdle
           \/ WaitForAllDBRespIdle
  <2>1. UNCHANGED <<pc, cur, result>>
    BY <1>5 DEF PostRequest, SyncLock, Dispatch, OnDataReceive, WaitForAllDBReqIdle,
       WaitForAllDBRespIdle
  <2> QED BY <1>1, <2>1
<1>6. ASSUME NEW d \in Clients, Execution(d) PROVE result'[cur'[c]] # "none"
  <2>1. cur' = cur /\ cur[d] \in Reqs /\ cur[d] # 0 /\ pc[d] = "exec"
    BY <1>6 DEF Execution, ExecuteOk, ExecuteFail, Base, TypeOK, WorkerLocal, Busy
  <2>2. CASE d = c
    BY <1>1, <1>6, <2>1, <2>2 DEF Execution, ExecuteOk, ExecuteFail, WorkerGoto
  <2>3. CASE d # c
    <3>1. pc'[c] = pc[c] /\ \A r \in Reqs : r # cur[d] => result'[r] = result[r]
      BY <1>1, <1>6, <2>1, <2>3 DEF Execution, ExecuteOk, ExecuteFail, WorkerGoto
    <3>2. cur[c] # cur[d]
      BY <1>1, <2>1, <2>3, <3>1, QueuedMine
    <3> QED BY <1>1, <2>1, <3>1, <3>2
  <2> QED BY <2>2, <2>3
<1>7. ASSUME NEW d \in Clients,
             \/ Reset(d) \/ WaitToken(d) \/ (\E ok \in BOOLEAN : ConnectEnds(d, ok))
             \/ StartConnect(d) \/ LockRequest(d) \/ ParseResponse(d) \/ SignalResponse(d)
             \/ Repost(d) \/ PopRequest(d) \/ Retry(d)
      PROVE  result'[cur'[c]] # "none"
  <2>1. pc[c] = "answer" /\ cur'[c] = cur[c] /\ result' = result
    <3>1. CASE PopRequest(d) \/ Retry(d) \/ ParseResponse(d)
      BY <1>1, <3>1 DEF PopRequest, Retry, ParseResponse, WorkerGoto
    <3>2. CASE Reset(d)
      BY <3>2 DEF Reset
    <3>3. CASE \/ WaitToken(d) \/ (\E ok \in BOOLEAN : ConnectEnds(d, ok))
               \/ StartConnect(d) \/ LockRequest(d) \/ SignalResponse(d) \/ Repost(d)
      BY <1>1, <3>3 DEF WaitToken, ConnectEnds, StartConnect, LockRequest,
         SignalResponse, Repost, WorkerGoto
    <3> QED BY <1>7, <3>1, <3>2, <3>3
  <2> QED BY <1>1, <2>1
<1>8. CASE UNCHANGED vars
  BY <1>1, <1>8 DEF vars
<1> QED BY <1>3, <1>4, <1>5, <1>6, <1>7, <1>8 DEF Next, MainStep, WorkerStep

(* The steps that a caller does not see. *)
LEMMA ServiceStutters ==
  ASSUME UNCHANGED <<made, cur, m_ReqQueue, failures, result, m_qResponse, handled>>,
         Calling' = Calling
  PROVE  UNCHANGED Service!serviceVars
<1>1. Rows' = Rows
  BY RowsSame
<1> QED BY <1>1 DEF Service!serviceVars

LEMMA ServiceRequest ==
  ASSUME Base, Request
  PROVE  Service!ServiceNext
<1> PICK hash \in Clients : AddSQLRequest(hash) \/ AddSyncSQLRequest(hash)
  BY DEF Request
<1>1. PICK c \in Clients : c = Route(hash)
  BY RouteType
<1>2. /\ made' = made + 1 /\ made + 1 \in Reqs /\ Calling = 0 /\ cur' = cur
      /\ UNCHANGED <<failures, result, m_qResponse, handled>>
  <2>1. /\ made < MaxReqs /\ made' = made + 1 /\ cur' = cur
        /\ pcMain \in {"loop", "receive", "respDrain"}
        /\ UNCHANGED <<failures, result, respVars>>
    BY DEF AddSQLRequest, AddSyncSQLRequest, NewRequest
  <2>2. made + 1 \in Reqs
    BY <2>1, MysqlAssumption DEF Base, TypeOK, Reqs
  <2>3. Calling = 0
    BY <2>1 DEF Calling
  <2>4. UNCHANGED <<m_qResponse, handled>>
    BY <2>1 DEF respVars
  <2> QED BY <2>1, <2>2, <2>3, <2>4
<1>3. Service!Issue
  BY <1>2 DEF Service!Issue
<1>4. CASE AddSQLRequest(hash)
  <2>1. m_ReqQueue' = [m_ReqQueue EXCEPT ![c] = Append(@, made + 1)] /\ Calling' = 0
    BY <1>1, <1>4 DEF AddSQLRequest, RecvSQLRequest, Calling
  <2>2. PICK q \in Seq(Reqs) : q = m_ReqQueue[c]
    BY DEF Base, TypeOK
  <2>3. m_ReqQueue'[c] = Append(q, made + 1)
    BY <2>1, <2>2 DEF Base, TypeOK
  <2>4. Row(c)' = Append(Row(c), made + 1)
    <3>1. CASE cur[c] = 0
      BY <1>2, <2>2, <2>3, <3>1 DEF Row
    <3>2. CASE cur[c] # 0
      <4>1. PICK r \in Reqs : r = cur[c]
        BY <3>2 DEF Base, TypeOK
      <4>2. PICK e \in Reqs : e = made + 1
        BY <1>2
      <4>3. <<r>> \o Append(q, e) = Append(<<r>> \o q, e)
        <5>1. /\ <<r>> \o Append(q, e) \in Seq(Reqs) /\ Append(<<r>> \o q, e) \in Seq(Reqs)
              /\ Len(<<r>> \o Append(q, e)) = Len(q) + 2
              /\ Len(Append(<<r>> \o q, e)) = Len(q) + 2 /\ Len(q) \in Nat
          OBVIOUS
        <5>2. ASSUME NEW i \in 1..(Len(q) + 2)
              PROVE  (<<r>> \o Append(q, e))[i] = Append(<<r>> \o q, e)[i]
          OBVIOUS
        <5> QED BY <5>1, <5>2, SeqEqual
      <4> QED BY <1>2, <2>2, <2>3, <3>2, <4>1, <4>2, <4>3 DEF Row
    <3> QED BY <3>1, <3>2
  <2>5. Rows' = [Rows EXCEPT ![c] = Append(Row(c), made + 1)]
    <3>1. \A d \in Clients \ {c} : cur'[d] = cur[d] /\ m_ReqQueue'[d] = m_ReqQueue[d]
      BY <1>2, <2>1 DEF Base, TypeOK
    <3> QED BY <2>4, <3>1, RowsStep
  <2>6. Service!Submit(c)
    BY <1>2, <1>3, <2>1, <2>5, RowFacts DEF Service!Submit
  <2> QED BY <2>6 DEF Service!ServiceNext
<1>5. CASE AddSyncSQLRequest(hash)
  <2>1. m_ReqQueue' = m_ReqQueue /\ Calling' = made + 1
    BY <1>2, <1>5 DEF AddSyncSQLRequest, Calling
  <2>2. Rows' = Rows
    BY <1>2, <2>1, RowsSame
  <2>3. Service!Call
    BY <1>2, <1>3, <2>1, <2>2 DEF Service!Call
  <2> QED BY <2>3 DEF Service!ServiceNext
<1> QED BY <1>4, <1>5

(* One attempt at a request nothing is known of yet: m_nTry is as high as  *)
(* the number of refusals, so the code's test is the service's.            *)
LEMMA AttemptIsTry ==
  ASSUME Base, NEW r \in Reqs, Fresh(r),
         \/ result' = [result EXCEPT ![r] = "ok"] /\ failures' = failures
         \/ /\ failures' = [failures EXCEPT ![r] = @ + 1]
            /\ \/ m_nTry[r] >= m_nRetryCount /\ result' = [result EXCEPT ![r] = "error"]
               \/ m_nTry[r] < m_nRetryCount /\ result' = result
  PROVE  Service!Try(r)
<1>1. /\ m_nTry[r] \in Nat /\ failures[r] = m_nTry[r] /\ m_nRetryCount \in Nat
      /\ result[r] = "none"
  BY MysqlAssumption DEF Base, TypeOK, Fresh
<1>2. failures[r] + 1 < m_nRetryCount + 1 <=> m_nTry[r] < m_nRetryCount
  BY <1>1
<1> QED BY <1>1, <1>2 DEF Service!Try

LEMMA ServiceSync ==
  ASSUME Base, Counts, SyncOk \/ SyncFail
  PROVE  Service!ServiceNext
<1>1. /\ InSync /\ made \in Reqs /\ Fresh(made) /\ Calling = made /\ made # 0
  BY MysqlAssumption DEF SyncOk, SyncFail, InSync, Base, MainLocal, Counts, CountedMain,
     Calling, Reqs
<1>2. /\ Calling' = 0 /\ made' = made /\ m_qResponse' = m_qResponse
      /\ UNCHANGED <<cur, m_ReqQueue>>
  BY DEF SyncOk, SyncFail, MainReturns, reqVars, Calling, Base, MainLocal
<1>3. Rows' = Rows
  BY <1>2, RowsSame
<1>4. /\ Service!Try(made)
      /\ handled' = IF result'[made] = "none" THEN handled ELSE Append(handled, made)
  <2>1. CASE SyncOk
    <3>1. /\ result' = [result EXCEPT ![made] = "ok"] /\ failures' = failures
          /\ handled' = Append(handled, made)
      BY <2>1 DEF SyncOk
    <3>2. result'[made] = "ok"
      BY <1>1, <3>1 DEF Base, TypeOK
    <3> QED BY <1>1, <3>1, <3>2, AttemptIsTry
  <2>2. CASE SyncFail
    <3>1. /\ failures' = [failures EXCEPT ![made] = @ + 1]
          /\ \/ /\ m_nTry[made] >= m_nRetryCount /\ result' = [result EXCEPT ![made] = "error"]
                /\ handled' = Append(handled, made)
             \/ /\ m_nTry[made] < m_nRetryCount /\ result' = result /\ handled' = handled
      BY <2>2 DEF SyncFail
    <3>2. \/ result'[made] = "error" /\ handled' = Append(handled, made)
          \/ result'[made] = "none" /\ handled' = handled
      BY <1>1, <3>1 DEF Base, TypeOK, Fresh
    <3> QED BY <1>1, <3>1, <3>2, AttemptIsTry
  <2> QED BY <2>1, <2>2
<1>5. Service!CallEnds
  BY <1>1, <1>2, <1>3, <1>4 DEF Service!CallEnds
<1> QED BY <1>5 DEF Service!ServiceNext

LEMMA ServiceExecution ==
  ASSUME Base, Counts, NEW c \in Clients, Execution(c)
  PROVE  Service!ServiceNext
<1>1. /\ cur[c] \in Reqs /\ cur[c] # 0 /\ Fresh(cur[c])
      /\ UNCHANGED <<mainVars, reqVars, respVars, m_ReqQueue, cur>>
  BY DEF Execution, ExecuteOk, ExecuteFail, Base, TypeOK, WorkerLocal, Busy, Counts,
     Counted
<1>2. Service!Try(cur[c])
  BY <1>1, AttemptIsTry DEF Execution, ExecuteOk, ExecuteFail
<1>3. Rows' = Rows /\ Calling' = Calling
  BY <1>1, RowsSame DEF mainVars, reqVars, Calling
<1>4. Rows[c] # << >> /\ Head(Rows[c]) = cur[c]
  BY <1>1, RowFacts
<1>5. Service!Perform(c)
  BY <1>1, <1>2, <1>3, <1>4 DEF Service!Perform, reqVars, respVars
<1> QED BY <1>5 DEF Service!ServiceNext

LEMMA ServiceAnswer ==
  ASSUME Base, Decision, NEW c \in Clients, ParseResponse(c)
  PROVE  Service!ServiceNext
<1>1. /\ cur[c] \in Reqs /\ cur[c] # 0 /\ result[cur[c]] # "none"
      /\ cur' = [cur EXCEPT ![c] = 0] /\ m_qResponse' = Append(m_qResponse, cur[c])
      /\ UNCHANGED <<mainVars, reqVars, m_ReqQueue, failures, result, handled>>
  BY DEF ParseResponse, Base, TypeOK, WorkerLocal, Busy, Decision, Decided
<1>2. /\ Rows[c] # << >> /\ Head(Rows[c]) = cur[c] /\ Tail(Rows[c]) = m_ReqQueue[c]
      /\ Rows \in [Clients -> Seq(Reqs)]
  BY <1>1, RowFacts
<1>3. /\ cur'[c] = 0 /\ Row(c)' = m_ReqQueue[c]
      /\ \A d \in Clients \ {c} : cur'[d] = cur[d] /\ m_ReqQueue'[d] = m_ReqQueue[d]
  BY <1>1 DEF Base, TypeOK, Row
<1>4. Rows' = [Rows EXCEPT ![c] = m_ReqQueue[c]]
  BY <1>3, RowsStep
<1>5. Rows' = [Rows EXCEPT ![c] = Tail(@)]
  BY <1>2, <1>4
<1>6. Calling' = Calling
  BY <1>1 DEF mainVars, reqVars, Calling
<1>7. Service!Answer(c)
  BY <1>1, <1>2, <1>5, <1>6 DEF Service!Answer, reqVars
<1> QED BY <1>7 DEF Service!ServiceNext

(* A request changes hands between the queue and the worker: its place in  *)
(* the row stays.                                                          *)
LEMMA ServicePassed ==
  ASSUME Base, NEW c \in Clients, PopRequest(c) \/ Retry(c)
  PROVE  UNCHANGED Service!serviceVars
<1>1. /\ UNCHANGED <<mainVars, reqVars, failures, result, respVars>>
      /\ Calling' = Calling
  BY DEF PopRequest, Retry, mainVars, reqVars, Calling
<1>2. PICK q \in Seq(Reqs) : q = m_ReqQueue[c]
  BY DEF Base, TypeOK
<1>3. \A d \in Clients \ {c} : cur'[d] = cur[d] /\ m_ReqQueue'[d] = m_ReqQueue[d]
  BY DEF PopRequest, Retry, Base, TypeOK
<1>4. Row(c)' = Row(c)
  <2>1. CASE PopRequest(c)
    <3>1. cur[c] = 0
      BY <2>1 DEF PopRequest, Base, WorkerLocal, Busy
    <3>2. CASE q = << >>
      BY <1>2, <2>1, <3>2 DEF PopRequest, Row
    <3>3. CASE q # << >>
      <4>1. cur'[c] = Head(q) /\ m_ReqQueue'[c] = Tail(q) /\ Head(q) \in Reqs
        <5>1. Head(q) \in Reqs
          BY <3>3
        <5>2. /\ cur' = [cur EXCEPT ![c] = Head(q)]
              /\ m_ReqQueue' = [m_ReqQueue EXCEPT ![c] = Tail(q)]
          BY <1>2, <2>1, <3>3 DEF PopRequest
        <5>3. cur \in [Clients -> Reqs \cup {0}] /\ m_ReqQueue \in [Clients -> Seq(Reqs)]
          BY DEF Base, TypeOK
        <5> QED BY <5>1, <5>2, <5>3
      <4>2. Head(q) # 0
        BY <4>1 DEF Reqs
      <4>3. <<Head(q)>> \o Tail(q) = q
        <5>1. /\ <<Head(q)>> \o Tail(q) \in Seq(Reqs) /\ Len(<<Head(q)>> \o Tail(q)) = Len(q)
              /\ \A i \in 1..Len(q) : (<<Head(q)>> \o Tail(q))[i] = q[i]
          BY <3>3, <4>1
        <5> QED BY <5>1, SeqEqual
      <4> QED BY <1>2, <3>1, <4>1, <4>2, <4>3 DEF Row
    <3> QED BY <3>2, <3>3
  <2>2. CASE Retry(c)
    <3>1. /\ cur[c] # 0 /\ cur'[c] = 0 /\ m_ReqQueue'[c] = <<cur[c]>> \o q
      BY <1>2, <2>2 DEF Retry, Base, TypeOK, WorkerLocal, Busy
    <3> QED BY <1>2, <3>1 DEF Row
  <2> QED BY <2>1, <2>2
<1>5. Rows' = Rows
  <2>1. Rows' = [Rows EXCEPT ![c] = Row(c)]
    BY <1>3, <1>4, RowsStep
  <2> QED BY <2>1, RowFacts
<1> QED BY <1>1, <1>5 DEF Service!serviceVars, reqVars, respVars

LEMMA ServiceReceive ==
  ASSUME Base, OnDataReceive
  PROVE  Service!ServiceNext \/ UNCHANGED Service!serviceVars
<1>1. /\ Calling = 0 /\ Calling' = 0
      /\ UNCHANGED <<made, cur, m_ReqQueue, failures, result>>
  BY DEF OnDataReceive, Calling, reqVars
<1>2. CASE m_qResponse # << >>
  <2>1. handled' = Append(handled, Head(m_qResponse)) /\ m_qResponse' = Tail(m_qResponse)
    BY <1>2 DEF OnDataReceive
  <2>2. Rows' = Rows
    BY <1>1, RowsSame
  <2>3. Service!Tell
    BY <1>1, <1>2, <2>1, <2>2 DEF Service!Tell
  <2> QED BY <2>3 DEF Service!ServiceNext
<1>3. CASE m_qResponse = << >>
  <2>1. UNCHANGED <<m_qResponse, handled>>
    BY <1>3 DEF OnDataReceive
  <2> QED BY <1>1, <2>1, ServiceStutters
<1> QED BY <1>2, <1>3

LEMMA ServiceStep ==
  Base /\ Counts /\ Decision /\ [Next]_vars => [Service!ServiceNext]_(Service!serviceVars)
<1> SUFFICES ASSUME Base, Counts, Decision, [Next]_vars
             PROVE  Service!ServiceNext \/ UNCHANGED Service!serviceVars
  OBVIOUS
<1>1. CASE Request \/ SyncOk \/ SyncFail
  BY <1>1, ServiceRequest, ServiceSync
<1>2. CASE OnDataReceive
  BY <1>2, ServiceReceive
<1>3. CASE PostRequest \/ SyncLock \/ Dispatch \/ WaitForAllDBReqIdle \/ WaitForAllDBRespIdle
  <2>1. UNCHANGED <<made, cur, m_ReqQueue, failures, result, m_qResponse, handled>>
    BY <1>3 DEF PostRequest, SyncLock, Dispatch, WaitForAllDBReqIdle,
       WaitForAllDBRespIdle, reqVars, respVars
  <2>2. Calling' = Calling
    BY <1>3 DEF PostRequest, SyncLock, Dispatch, WaitForAllDBReqIdle,
       WaitForAllDBRespIdle, MainReturns, reqVars, Calling, Base, MainLocal
  <2> QED BY <2>1, <2>2, ServiceStutters
<1>4. ASSUME NEW c \in Clients, Execution(c) \/ ParseResponse(c) \/ PopRequest(c) \/ Retry(c)
      PROVE  Service!ServiceNext \/ UNCHANGED Service!serviceVars
  BY <1>4, ServiceExecution, ServiceAnswer, ServicePassed
<1>5. ASSUME NEW c \in Clients,
             \/ Reset(c) \/ WaitToken(c) \/ (\E ok \in BOOLEAN : ConnectEnds(c, ok))
             \/ StartConnect(c) \/ LockRequest(c) \/ SignalResponse(c) \/ Repost(c)
      PROVE  UNCHANGED Service!serviceVars
  <2>1. UNCHANGED <<made, cur, m_ReqQueue, failures, result, m_qResponse, handled, pcMain>>
    BY <1>5 DEF Reset, WaitToken, ConnectEnds, StartConnect, LockRequest, SignalResponse,
       Repost, reqVars, respVars, mainVars
  <2> QED BY <2>1, ServiceStutters DEF Calling
<1>6. CASE UNCHANGED vars
  <2>1. UNCHANGED <<made, cur, m_ReqQueue, failures, result, m_qResponse, handled, pcMain>>
    BY <1>6 DEF vars, reqVars, respVars, mainVars
  <2> QED BY <2>1, ServiceStutters DEF Calling
<1> QED BY <1>1, <1>2, <1>3, <1>4, <1>5, <1>6 DEF Next, MainStep, WorkerStep

(* Workers, queues, semaphores and retries together implement the service: *)
(* every request of a connection is tried in its turn until it has its one *)
(* outcome, which reaches the host once; and the host's synchronous calls  *)
(* fall between without disturbing a row.                                  *)
THEOREM WorkersAreService == Spec => ImplementsService
<1>1. Init => Service!ServiceInit
  <2> SUFFICES ASSUME Init PROVE Service!ServiceInit
    OBVIOUS
  <2>1. Rows = [c \in Clients |-> << >>] /\ Calling = 0
    BY DEF Init, Rows, Row, Calling
  <2> QED BY <2>1 DEF Init, Service!ServiceInit
<1>2. Init => Decision /\ Counts
  BY DEF Init, Decision, Decided, Counts, ErrorMeansExhausted, CountedMain, Counted,
     Fresh, Queued, InSeq, InSync
<1> QED BY <1>1, <1>2, DecisionNext, CountsNext, PlacementHolds, ServiceStep, PTL
        DEF Spec, ImplementsService, Service!ServiceSpec
=============================================================================
