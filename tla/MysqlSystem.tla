---------------------------- MODULE MysqlSystem ----------------------------
(***************************************************************************)
(* CMYSQLDBSystem and CMYSQLClient (mysql/MYSQLDBSys.cpp, MYSQLDBClient.cpp) *)
(* with CMYSQLManagerBase (MYSQLManagerBase.cpp): the main thread routes   *)
(* requests to worker threads, one per database connection; a worker runs  *)
(* the request, retries it if the database refuses it, and queues the      *)
(* response for the main thread.  A synchronous request is run by the main *)
(* thread itself on the worker's connection.                               *)
(*                                                                         *)
(* Requests are numbered in the order the main thread makes them.  What    *)
(* the event loop does with SetEvent is the module MessageQueue; here an   *)
(* event is a number of calls of OnDataReceive still to come.              *)
(***************************************************************************)
EXTENDS Naturals, Sequences, FiniteSets

CONSTANTS
  NClients,       (* connections, and worker threads                       *)
  m_nRetryCount,
  m_bThreadSafe,
  SyncCalls,      (* whether the host also calls AddSyncSQLRequest         *)
  MaxReqs,        (* bound: requests made                                  *)
  MaxResets       (* bound: calls of Reset                                 *)

ASSUME MysqlAssumption ==
  /\ NClients \in Nat \ {0} /\ m_nRetryCount \in Nat
  /\ MaxReqs \in Nat /\ MaxResets \in Nat
  /\ m_bThreadSafe \in BOOLEAN /\ SyncCalls \in BOOLEAN

Clients == 0..(NClients - 1)
Reqs == 1..MaxReqs

VARIABLES
  connected,      (* per client: m_DBSys.connected()                       *)
  m_bNeedReset,   (* per client                                            *)
  m_ReqQueue,     (* per client                                            *)
  m_hSemaphore,   (* per client                                            *)
  m_RequestLock,  (* per client: "free", "worker" or "main"                *)
  pc,             (* per client: where its worker is                       *)
  cur,            (* per client: the request its worker has, or 0          *)
  pcMain,
  back,           (* where the main thread goes after making a request     *)
  scan,           (* the client WaitForAllDBReqIdle looks at next          *)
  made,           (* requests made so far                                  *)
  client,         (* per request: the client it was routed to              *)
  async,          (* per request                                           *)
  m_nTry,         (* per request: retries so far                           *)
  failures,       (* per request: refusals by the database                 *)
  result,         (* per request: "none", or what its callback was given   *)
  m_qResponse,
  events,         (* calls of OnDataReceive still to come                  *)
  handled,        (* responses handled by the main thread, in order        *)
  resets

connVars == <<connected, m_bNeedReset>>
reqVars == <<made, client, async>>
mainVars == <<pcMain, back, scan>>
respVars == <<m_qResponse, events, handled>>
vars == <<connVars, m_ReqQueue, m_hSemaphore, m_RequestLock, pc, cur, mainVars,
          reqVars, m_nTry, failures, result, respVars, resets>>

WorkerAt == {"wait", "connecting", "reconnecting", "pop", "lock", "exec", "answer",
             "signal", "retry", "repost"}
MainAt == {"loop", "post", "syncLock", "syncExec", "receive", "reqIdle",
           "respIdle", "respDrain", "exit"}

(* Create posts the semaphore once whatever the initial count. *)
Init ==
  /\ connected = [c \in Clients |-> FALSE]
  /\ m_bNeedReset = [c \in Clients |-> FALSE]
  /\ m_ReqQueue = [c \in Clients |-> << >>]
  /\ m_hSemaphore = [c \in Clients |-> 1]
  /\ m_RequestLock = [c \in Clients |-> "free"]
  /\ pc = [c \in Clients |-> "connecting"] /\ cur = [c \in Clients |-> 0]
  /\ pcMain = "loop" /\ back = "loop" /\ scan = 0
  /\ made = 0
  /\ client = [r \in Reqs |-> 0] /\ async = [r \in Reqs |-> TRUE]
  /\ m_nTry = [r \in Reqs |-> 0] /\ failures = [r \in Reqs |-> 0]
  /\ result = [r \in Reqs |-> "none"]
  /\ m_qResponse = << >> /\ events = 0 /\ handled = << >>
  /\ resets = 0

----------------------------------------------------------------------------
(* The main thread makes requests.                                         *)

(* GetClientHash: the client of the hash, or the next connected one after  *)
(* it, or the client of the hash when none is connected.                   *)
Route(hash) ==
  LET start == hash % NClients
      at(i) == (start + i) % NClients
      up == {i \in Clients : connected[at(i)]}
  IN  IF up = {} THEN start
      ELSE at(CHOOSE i \in up : \A j \in up : i <= j)

(* The host makes requests between events and from its response handlers. *)
NewRequest(c, isAsync) ==
  /\ pcMain \in {"loop", "receive", "respDrain"}
  /\ made < MaxReqs
  /\ made' = made + 1
  /\ client' = [client EXCEPT ![made + 1] = c]
  /\ async' = [async EXCEPT ![made + 1] = isAsync]
  /\ back' = pcMain

(* RecvSQLRequest, the locked part. *)
RecvSQLRequest(c) == m_ReqQueue' = [m_ReqQueue EXCEPT ![c] = Append(@, made + 1)]

AddSQLRequest(hash) ==
  /\ NewRequest(Route(hash), TRUE)
  /\ RecvSQLRequest(Route(hash))
  /\ pcMain' = "post"
  /\ UNCHANGED <<connVars, m_hSemaphore, m_RequestLock, pc, cur, scan, m_nTry,
                 failures, result, respVars, resets>>

(* The main thread goes back to where it made the request. *)
MainReturns == pcMain' = back /\ back' = "loop"

(* RecvSQLRequest posts the semaphore after the queue's lock. *)
PostRequest ==
  /\ pcMain = "post"
  /\ m_hSemaphore' = [m_hSemaphore EXCEPT ![client[made]] = @ + 1]
  /\ MainReturns
  /\ UNCHANGED <<connVars, m_ReqQueue, m_RequestLock, pc, cur, scan, reqVars,
                 m_nTry, failures, result, respVars, resets>>

AddSyncSQLRequest(hash) ==
  /\ SyncCalls
  /\ NewRequest(Route(hash), FALSE)
  /\ pcMain' = "syncLock"
  /\ UNCHANGED <<connVars, m_ReqQueue, m_hSemaphore, m_RequestLock, pc, cur, scan,
                 m_nTry, failures, result, respVars, resets>>

TakeRequestLock_Never(c, who) == UNCHANGED m_RequestLock

(* ExecuteSQL takes m_RequestLock only with m_bThreadSafe. *)
TakeRequestLock(c, who) ==
  IF m_bThreadSafe
  THEN m_RequestLock[c] = "free" /\ m_RequestLock' = [m_RequestLock EXCEPT ![c] = who]
  ELSE UNCHANGED m_RequestLock

ReleaseRequestLock(c) ==
  m_RequestLock' = [m_RequestLock EXCEPT ![c] = "free"]

SyncLock ==
  /\ pcMain = "syncLock"
  /\ TakeRequestLock(client[made], "main")
  /\ pcMain' = "syncExec"
  /\ UNCHANGED <<connVars, m_ReqQueue, m_hSemaphore, pc, cur, back, scan, reqVars,
                 m_nTry, failures, result, respVars, resets>>

(* The end of ExecuteSQL in the main thread.  The callback runs at once:   *)
(* with the result, or with the error when no retry is left.               *)
SyncOk ==
  /\ pcMain = "syncExec"
  /\ connected[client[made]]
  /\ ReleaseRequestLock(client[made])
  /\ result' = [result EXCEPT ![made] = "ok"]
  /\ handled' = Append(handled, made)
  /\ MainReturns
  /\ UNCHANGED <<connVars, m_ReqQueue, m_hSemaphore, pc, cur, scan, reqVars,
                 m_nTry, failures, m_qResponse, events, resets>>

SyncFail ==
  /\ pcMain = "syncExec"
  /\ ReleaseRequestLock(client[made])
  /\ failures' = [failures EXCEPT ![made] = @ + 1]
  /\ \/ /\ m_nTry[made] >= m_nRetryCount
        /\ result' = [result EXCEPT ![made] = "error"]
        /\ handled' = Append(handled, made)
     \/ /\ m_nTry[made] < m_nRetryCount
        /\ UNCHANGED <<result, handled>>
  /\ MainReturns
  /\ UNCHANGED <<connVars, m_ReqQueue, m_hSemaphore, pc, cur, scan, reqVars,
                 m_nTry, m_qResponse, events, resets>>

Reset(c) ==
  /\ pcMain = "loop"
  /\ resets < MaxResets
  /\ resets' = resets + 1
  /\ m_bNeedReset' = [m_bNeedReset EXCEPT ![c] = TRUE]
  /\ UNCHANGED <<connected, m_ReqQueue, m_hSemaphore, m_RequestLock, pc, cur,
                 mainVars, reqVars, m_nTry, failures, result, respVars>>

----------------------------------------------------------------------------
(* A worker: CMYSQLClient::Execute.                                        *)

WorkerGoto(c, l) == pc' = [pc EXCEPT ![c] = l]

(* The top of the loop: a reset disconnects first; then a client that is   *)
(* not connected tries to connect.                                         *)
StartConnect(c) ==
  /\ pc[c] = "wait"
  /\ m_bNeedReset[c] \/ ~connected[c]
  /\ connected' = [connected EXCEPT ![c] = FALSE]
  /\ WorkerGoto(c, IF m_bNeedReset[c] THEN "reconnecting" ELSE "connecting")
  /\ UNCHANGED <<m_bNeedReset, m_ReqQueue, m_hSemaphore, m_RequestLock, cur,
                 mainVars, reqVars, m_nTry, failures, result, respVars, resets>>

(* ConnectDB returns.  m_bNeedReset is cleared at the end of a reset,      *)
(* whether or not the connection was made; one that was asked for during   *)
(* another attempt stays to be done.                                       *)
ConnectEnds(c, ok) ==
  /\ pc[c] \in {"connecting", "reconnecting"}
  /\ connected' = [connected EXCEPT ![c] = ok]
  /\ m_bNeedReset' = [m_bNeedReset EXCEPT ![c] = @ /\ pc[c] = "connecting"]
  /\ WorkerGoto(c, "wait")
  /\ UNCHANGED <<m_ReqQueue, m_hSemaphore, m_RequestLock, cur, mainVars, reqVars,
                 m_nTry, failures, result, respVars, resets>>

(* m_hSemaphore.Lock(2000); a timeout goes round the loop. *)
WaitToken(c) ==
  /\ pc[c] = "wait" /\ connected[c]
  /\ m_hSemaphore[c] > 0
  /\ m_hSemaphore' = [m_hSemaphore EXCEPT ![c] = @ - 1]
  /\ WorkerGoto(c, "pop")
  /\ UNCHANGED <<connVars, m_ReqQueue, m_RequestLock, cur, mainVars, reqVars, m_nTry,
                 failures, result, respVars, resets>>

PopRequest_LeavesIt(c) ==
  /\ pc[c] = "pop"
  /\ IF m_ReqQueue[c] = << >>
     THEN WorkerGoto(c, "wait") /\ UNCHANGED cur
     ELSE cur' = [cur EXCEPT ![c] = Head(m_ReqQueue[c])] /\ WorkerGoto(c, "lock")
  /\ UNCHANGED <<connVars, m_ReqQueue, m_hSemaphore, m_RequestLock, mainVars, reqVars,
                 m_nTry, failures, result, respVars, resets>>

PopRequest(c) ==
  /\ pc[c] = "pop"
  /\ IF m_ReqQueue[c] = << >>
     THEN WorkerGoto(c, "wait") /\ UNCHANGED <<m_ReqQueue, cur>>
     ELSE /\ cur' = [cur EXCEPT ![c] = Head(m_ReqQueue[c])]
          /\ m_ReqQueue' = [m_ReqQueue EXCEPT ![c] = Tail(@)]
          /\ WorkerGoto(c, "lock")
  /\ UNCHANGED <<connVars, m_hSemaphore, m_RequestLock, mainVars, reqVars, m_nTry,
                 failures, result, respVars, resets>>

LockRequest(c) ==
  /\ pc[c] = "lock"
  /\ TakeRequestLock(c, "worker")
  /\ WorkerGoto(c, "exec")
  /\ UNCHANGED <<connVars, m_ReqQueue, m_hSemaphore, cur, mainVars, reqVars, m_nTry,
                 failures, result, respVars, resets>>

ExecuteOk(c) ==
  /\ pc[c] = "exec"
  /\ ReleaseRequestLock(c)
  /\ result' = [result EXCEPT ![cur[c]] = "ok"]
  /\ WorkerGoto(c, "answer")
  /\ UNCHANGED <<connVars, m_ReqQueue, m_hSemaphore, cur, mainVars, reqVars, m_nTry,
                 failures, respVars, resets>>

ExecuteFail_RetriesWithoutEnd(c) ==
  /\ pc[c] = "exec"
  /\ ReleaseRequestLock(c)
  /\ failures' = [failures EXCEPT ![cur[c]] = @ + 1]
  /\ WorkerGoto(c, "retry")
  /\ UNCHANGED <<connVars, m_ReqQueue, m_hSemaphore, cur, mainVars, reqVars, m_nTry,
                 result, respVars, resets>>

(* BadQuery: the callback gets the error when no retry is left. *)
ExecuteFail(c) ==
  /\ pc[c] = "exec"
  /\ ReleaseRequestLock(c)
  /\ failures' = [failures EXCEPT ![cur[c]] = @ + 1]
  /\ \/ /\ m_nTry[cur[c]] >= m_nRetryCount
        /\ result' = [result EXCEPT ![cur[c]] = "error"]
        /\ WorkerGoto(c, "answer")
     \/ /\ m_nTry[cur[c]] < m_nRetryCount
        /\ WorkerGoto(c, "retry")
        /\ UNCHANGED result
  /\ UNCHANGED <<connVars, m_ReqQueue, m_hSemaphore, cur, mainVars, reqVars, m_nTry,
                 respVars, resets>>

ParseResponse_TestAfterPush(c) ==
  /\ pc[c] = "answer"
  /\ m_qResponse' = Append(m_qResponse, cur[c])
  /\ cur' = [cur EXCEPT ![c] = 0]
  /\ WorkerGoto(c, IF m_qResponse' = << >> THEN "signal" ELSE "wait")
  /\ UNCHANGED <<connVars, m_ReqQueue, m_hSemaphore, m_RequestLock, mainVars, reqVars,
                 m_nTry, failures, result, events, handled, resets>>

(* ParseResponse: the response that finds the queue empty raises the event. *)
ParseResponse(c) ==
  /\ pc[c] = "answer"
  /\ m_qResponse' = Append(m_qResponse, cur[c])
  /\ cur' = [cur EXCEPT ![c] = 0]
  /\ WorkerGoto(c, IF m_qResponse = << >> THEN "signal" ELSE "wait")
  /\ UNCHANGED <<connVars, m_ReqQueue, m_hSemaphore, m_RequestLock, mainVars, reqVars,
                 m_nTry, failures, result, events, handled, resets>>

SignalResponse(c) ==
  /\ pc[c] = "signal"
  /\ events' = events + 1
  /\ WorkerGoto(c, "wait")
  /\ UNCHANGED <<connVars, m_ReqQueue, m_hSemaphore, m_RequestLock, cur, mainVars,
                 reqVars, m_nTry, failures, result, m_qResponse, handled, resets>>

Retry_PushesBack(c) ==
  /\ pc[c] = "retry"
  /\ m_nTry' = [m_nTry EXCEPT ![cur[c]] = @ + 1]
  /\ m_ReqQueue' = [m_ReqQueue EXCEPT ![c] = Append(@, cur[c])]
  /\ cur' = [cur EXCEPT ![c] = 0]
  /\ WorkerGoto(c, "repost")
  /\ UNCHANGED <<connVars, m_hSemaphore, m_RequestLock, mainVars, reqVars, failures,
                 result, respVars, resets>>

(* A request to be retried goes to the front, and the semaphore is posted. *)
Retry(c) ==
  /\ pc[c] = "retry"
  /\ m_nTry' = [m_nTry EXCEPT ![cur[c]] = @ + 1]
  /\ m_ReqQueue' = [m_ReqQueue EXCEPT ![c] = <<cur[c]>> \o @]
  /\ cur' = [cur EXCEPT ![c] = 0]
  /\ WorkerGoto(c, "repost")
  /\ UNCHANGED <<connVars, m_hSemaphore, m_RequestLock, mainVars, reqVars, failures,
                 result, respVars, resets>>

Repost_Forgotten(c) ==
  /\ pc[c] = "repost"
  /\ WorkerGoto(c, "wait")
  /\ UNCHANGED <<connVars, m_ReqQueue, m_hSemaphore, m_RequestLock, cur, mainVars,
                 reqVars, m_nTry, failures, result, respVars, resets>>

Repost(c) ==
  /\ pc[c] = "repost"
  /\ m_hSemaphore' = [m_hSemaphore EXCEPT ![c] = @ + 1]
  /\ WorkerGoto(c, "wait")
  /\ UNCHANGED <<connVars, m_ReqQueue, m_RequestLock, cur, mainVars, reqVars, m_nTry,
                 failures, result, respVars, resets>>

----------------------------------------------------------------------------
(* The main thread handles responses, and shuts down.                      *)

Dispatch ==
  /\ pcMain = "loop"
  /\ events > 0
  /\ events' = events - 1
  /\ pcMain' = "receive"
  /\ UNCHANGED <<connVars, m_ReqQueue, m_hSemaphore, m_RequestLock, pc, cur, back, scan,
                 reqVars, m_nTry, failures, result, m_qResponse, handled, resets>>

OnDataReceive_OnePerEvent ==
  /\ pcMain \in {"receive", "respDrain"}
  /\ pcMain' = IF pcMain = "receive" THEN "loop" ELSE "respIdle"
  /\ m_qResponse # << >>
  /\ handled' = Append(handled, Head(m_qResponse))
  /\ m_qResponse' = Tail(m_qResponse)
  /\ UNCHANGED <<connVars, m_ReqQueue, m_hSemaphore, m_RequestLock, pc, cur, back, scan,
                 reqVars, m_nTry, failures, result, events, resets>>

(* OnDataReceive: one response and its handler, or the end of the loop. *)
OnDataReceive ==
  /\ pcMain \in {"receive", "respDrain"}
  /\ \/ /\ m_qResponse # << >>
        /\ handled' = Append(handled, Head(m_qResponse))
        /\ m_qResponse' = Tail(m_qResponse)
        /\ UNCHANGED pcMain
     \/ /\ m_qResponse = << >>
        /\ pcMain' = IF pcMain = "receive" THEN "loop" ELSE "respIdle"
        /\ UNCHANGED <<m_qResponse, handled>>
  /\ UNCHANGED <<connVars, m_ReqQueue, m_hSemaphore, m_RequestLock, pc, cur, back, scan,
                 reqVars, m_nTry, failures, result, events, resets>>

(* WaitForAllDBReqIdle: the queues are looked at one after the other, again *)
(* and again until all were empty.                                         *)
WaitForAllDBReqIdle ==
  /\ \/ /\ pcMain = "loop"
        /\ pcMain' = "reqIdle" /\ scan' = 0
     \/ /\ pcMain = "reqIdle"
        /\ IF m_ReqQueue[scan] # << >>
           THEN scan' = 0 /\ UNCHANGED pcMain
           ELSE /\ scan' = (scan + 1) % NClients
                /\ pcMain' = IF scan + 1 = NClients THEN "respIdle" ELSE "reqIdle"
  /\ UNCHANGED <<connVars, m_ReqQueue, m_hSemaphore, m_RequestLock, pc, cur, back,
                 reqVars, m_nTry, failures, result, respVars, resets>>

(* WaitForAllDBRespIdle, after which the process ends. *)
WaitForAllDBRespIdle ==
  /\ pcMain = "respIdle"
  /\ pcMain' = IF m_qResponse # << >> THEN "respDrain" ELSE "exit"
  /\ UNCHANGED <<connVars, m_ReqQueue, m_hSemaphore, m_RequestLock, pc, cur, back, scan,
                 reqVars, m_nTry, failures, result, respVars, resets>>

----------------------------------------------------------------------------
Request == \E hash \in Clients : AddSQLRequest(hash) \/ AddSyncSQLRequest(hash)

MainStep == PostRequest \/ SyncLock \/ SyncOk \/ SyncFail \/ Dispatch \/ OnDataReceive

Execution(c) == ExecuteOk(c) \/ ExecuteFail(c)

WorkerStep(c) ==
  \/ StartConnect(c) \/ PopRequest(c) \/ LockRequest(c) \/ Execution(c)
  \/ ParseResponse(c) \/ SignalResponse(c) \/ Retry(c) \/ Repost(c)

Next ==
  /\ pcMain # "exit"
  /\ \/ Request \/ MainStep \/ WaitForAllDBReqIdle \/ WaitForAllDBRespIdle
     \/ \E c \in Clients :
          \/ Reset(c) \/ WorkerStep(c) \/ WaitToken(c)
          \/ \E ok \in BOOLEAN : ConnectEnds(c, ok)

Spec == Init /\ [][Next]_vars

(* The threads run, a query ends, and a database that is asked for a        *)
(* connection again and again gives one in the end.                         *)
FairSpec ==
  /\ Spec
  /\ WF_vars(MainStep)
  /\ \A c \in Clients :
       /\ WF_vars(pcMain # "exit" /\ WorkerStep(c))
       /\ WF_vars(pcMain # "exit" /\ WaitToken(c))
       /\ SF_vars(pcMain # "exit" /\ ConnectEnds(c, TRUE))

----------------------------------------------------------------------------
TypeOK ==
  /\ connected \in [Clients -> BOOLEAN] /\ m_bNeedReset \in [Clients -> BOOLEAN]
  /\ m_ReqQueue \in [Clients -> Seq(Reqs)] /\ m_hSemaphore \in [Clients -> Nat]
  /\ m_RequestLock \in [Clients -> {"free", "worker", "main"}]
  /\ pc \in [Clients -> WorkerAt] /\ cur \in [Clients -> Reqs \cup {0}]
  /\ pcMain \in MainAt /\ back \in MainAt /\ scan \in Clients
  /\ made \in 0..MaxReqs /\ client \in [Reqs -> Clients] /\ async \in [Reqs -> BOOLEAN]
  /\ m_nTry \in [Reqs -> 0..m_nRetryCount] /\ failures \in [Reqs -> Nat]
  /\ result \in [Reqs -> {"none", "ok", "error"}]
  /\ m_qResponse \in Seq(Reqs) /\ events \in Nat /\ handled \in Seq(Reqs)
  /\ resets \in 0..MaxResets

InSeq(s) == {s[i] : i \in 1..Len(s)}
Twice(s) == \E i, j \in 1..Len(s) : i # j /\ s[i] = s[j]

Asyncs == {r \in 1..made : async[r]}
Queued(c) == InSeq(m_ReqQueue[c])
Answered == handled \o m_qResponse

(* An asynchronous request is in one place: waiting for its client, in its *)
(* worker's hands, or answered, and never answered twice.                  *)
NoneLostNoneTwice ==
  /\ \A c \in Clients : ~Twice(m_ReqQueue[c]) /\ \A r \in Queued(c) : client[r] = c
  /\ ~Twice(Answered)
  /\ \A r \in Asyncs :
       LET queued == r \in Queued(client[r])
           held == cur[client[r]] = r
           answered == r \in InSeq(Answered)
       IN  (queued \/ held \/ answered) /\ ~(queued /\ held) /\ ~(queued /\ answered)
           /\ ~(held /\ answered)

(* The requests routed to one client are answered in the order in which    *)
(* they were made, retries included: none before an earlier one.           *)
NoneOvertaken ==
  \A r, s \in Asyncs :
    r < s /\ client[r] = client[s] /\ s \in InSeq(Answered) => r \in InSeq(Answered)

(* What the abstract service's rows stand for: a request a worker holds is *)
(* still the first of its row, and one to be retried goes back there.      *)
Row(c) == IF cur[c] = 0 THEN m_ReqQueue[c] ELSE <<cur[c]>> \o m_ReqQueue[c]

Rows == [c \in Clients |-> Row(c)]
Calling == IF pcMain \in {"syncLock", "syncExec"} THEN made ELSE 0

Service == INSTANCE RequestService WITH
  Lanes <- Clients, Tries <- m_nRetryCount + 1, issued <- made, row <- Rows,
  calling <- Calling, refusals <- failures, outcome <- result,
  answers <- m_qResponse, told <- handled

(* Each request is answered once, with the result or after exactly all its *)
(* tries with the error, and after the earlier ones of its connection,     *)
(* whatever retries, reconnects and resets fall in between.                *)
ImplementsService == Service!ServiceSpec

(* Every queued request has a token, or somebody about to post one or who  *)
(* has just taken one.                                                     *)
EnoughTokens ==
  \A c \in Clients :
    m_hSemaphore[c]
      + Cardinality({x \in {"worker"} : pc[c] \in {"pop", "repost"}})
      + Cardinality({x \in {"main"} : pcMain = "post" /\ client[made] = c})
      >= Len(m_ReqQueue[c])

(* The main thread, now or when it comes back from a request. *)
Draining == pcMain \in {"receive", "respDrain"} \/
            (pcMain \in {"post", "syncLock", "syncExec"} /\ back # "loop")

(* A queued response has an event, or somebody about to raise it, or is    *)
(* about to be taken.                                                      *)
ResponseSignalled ==
  m_qResponse # << >> => \/ events > 0 \/ Draining
                         \/ \E c \in Clients : pc[c] = "signal"

(* An error is given to the host only after every retry was refused.       *)
ErrorMeansExhausted ==
  \A r \in Reqs : result[r] = "error" => failures[r] = m_nRetryCount + 1

(* With m_bThreadSafe, a connection runs one query at a time.              *)
OneQueryAtATime ==
  m_bThreadSafe => \A c \in Clients :
    ~(pc[c] = "exec" /\ pcMain = "syncExec" /\ client[made] = c)

(* A request that was made is handled, unless the host shuts down.         *)
ShuttingDown == pcMain \in {"reqIdle", "respIdle", "respDrain", "exit"}
EveryRequestHandled ==
  \A r \in Reqs : r \in Asyncs ~> (r \in InSeq(handled) \/ ShuttingDown)

----------------------------------------------------------------------------
(* What comments say of the code and the code does not do.                 *)

(* nRetryCount is the number of times a failed command is retried          *)
(* (MYSQLDBSys.h:70): a refused request that nobody will run any more was  *)
(* refused that often.                                                     *)
Finished(r) ==
  /\ r <= made
  /\ ~(pcMain \in {"syncLock", "syncExec"} /\ made = r)
  /\ \A c \in Clients : cur[c] # r /\ r \notin Queued(c)
FailedMeansRetried ==
  \A r \in Reqs : Finished(r) /\ result[r] # "ok" => failures[r] = m_nRetryCount + 1

(* WaitForAllDBReqIdle waits until all database threads have finished what *)
(* they do (MYSQLManagerBase.cpp:183).                                     *)
IdleMeansIdle ==
  pcMain \in {"respIdle", "exit"} => \A c \in Clients : cur[c] = 0
=============================================================================
