------------------------ MODULE TcpConnectionProofs ------------------------
(***************************************************************************)
(* Proofs that a connection never has two writes in flight and, while it   *)
(* is open, never holds data that nobody will send, for any number of      *)
(* calling threads, any block size, queue limit and message lengths; that  *)
(* the connection implements the abstract ByteStream; that the bytes leave *)
(* in the order in which they were given, every missing one accounted for; *)
(* and that the queue stays bounded.                                       *)
(*                                                                         *)
(* The argument: the first thread that finds no front block sets one and   *)
(* with it takes the right to write; the right passes to the write, to its *)
(* completion, and on as long as blocks follow; until it lapses the front  *)
(* block is set, and a thread that finds one set never starts a write.     *)
(* The blocks in the buffer are runs of bytes and ascend, each pair of     *)
(* them, whatever blocks were lost in between; so the front block holds    *)
(* the lowest bytes of the buffer, as the stream's Leave demands.  What is *)
(* said of every byte is then shown of the stream's steps alone.           *)
(***************************************************************************)
EXTENDS TcpConnection, TLAPS, SequenceTheorems

USE ConnectionAssumption

----------------------------------------------------------------------------
(* Cutting a message makes at least one block, and each is a block. *)
LEMMA BlockCount ==
  ASSUME NEW len \in Nat \ {0}
  PROVE  LET q == (len + BLOCK - 1) \div BLOCK IN
         q \in Nat \ {0} /\ BLOCK * q <= len + BLOCK - 1
<1> DEFINE q == (len + BLOCK - 1) \div BLOCK
<1>1. len + BLOCK - 1 \in Nat /\ len + BLOCK - 1 >= BLOCK OBVIOUS
<1>2. q \in Int /\ BLOCK * q <= len + BLOCK - 1 /\ len + BLOCK - 1 < BLOCK * (q + 1)
  BY <1>1
<1>3. q >= 1
  <2> HIDE DEF q
  <2> SUFFICES ASSUME q <= 0 PROVE FALSE BY <1>2
  <2>1. BLOCK * (q + 1) <= BLOCK BY <1>2
  <2> QED BY <1>1, <1>2, <2>1
<1> QED BY <1>2, <1>3

LEMMA BlocksFacts ==
  ASSUME NEW first \in Nat, NEW len \in Nat \ {0}
  PROVE  /\ Blocks(first, len) \in Seq(Block)
         /\ Len(Blocks(first, len)) \in Nat \ {0}
<1> DEFINE q == (len + BLOCK - 1) \div BLOCK
           size(b) == IF b * BLOCK <= len THEN BLOCK ELSE len - (b - 1) * BLOCK
<1>1. q \in Nat \ {0} /\ BLOCK * q <= len + BLOCK - 1 BY BlockCount
<1> HIDE DEF q
<1>2. ASSUME NEW b \in 1..q
      PROVE  [i \in 1..size(b) |-> first + (b - 1) * BLOCK + i] \in Block
  <2>1. BLOCK * b <= BLOCK * q BY <1>1
  <2>2. (b - 1) * BLOCK = BLOCK * b - BLOCK /\ (b - 1) * BLOCK \in Nat BY <1>1
  <2>3. b * BLOCK = BLOCK * b BY <1>1
  <2>4. (b - 1) * BLOCK < len BY <1>1, <2>1, <2>2
  <2>5. size(b) \in 1..BLOCK BY <2>2, <2>3, <2>4
  <2> HIDE DEF size
  <2>6. \A i \in 1..size(b) : first + (b - 1) * BLOCK + i \in Bytes BY <2>2 DEF Bytes
  <2> QED BY <2>5, <2>6 DEF Block
<1>3. Blocks(first, len) =
        [b \in 1..q |-> [i \in 1..size(b) |-> first + (b - 1) * BLOCK + i]]
  BY DEF Blocks, q
<1> HIDE DEF size
<1> QED BY <1>1, <1>2, <1>3

(* The beginning, or the middle, of a list of blocks. *)
LEMMA SomeBlocks ==
  ASSUME NEW s \in Seq(Block), NEW m \in 1..2, NEW n \in 0..Len(s)
  PROVE  SubSeq(s, m, n) \in Seq(Block) /\ (n < m => SubSeq(s, m, n) = << >>)
<1>1. \A i \in m..n : s[i] \in Block OBVIOUS
<1>2. m \in Int /\ n \in Int OBVIOUS
<1>3. /\ SubSeq(s, m, n) \in Seq(Block)
      /\ Len(SubSeq(s, m, n)) = IF m <= n THEN n - m + 1 ELSE 0
  BY <1>1, <1>2, SubSeqProperties
<1> QED BY <1>2, <1>3

(* A choice of some blocks, in their order, is a list of blocks; and no block *)
(* is chosen twice.                                                          *)
LEMMA PickType ==
  ASSUME NEW L \in Seq(Block), NEW f \in Picks(Len(L))
  PROVE  \E m \in 0..Len(L) :
           /\ f \in [1..m -> 1..Len(L)]
           /\ \A j, k \in 1..m : j < k => f[j] < f[k]
           /\ [k \in DOMAIN f |-> L[f[k]]] \in Seq(Block)
           /\ Len([k \in DOMAIN f |-> L[f[k]]]) = m
           /\ \A k \in 1..m : [j \in DOMAIN f |-> L[f[j]]][k] = L[f[k]]
<1>1. PICK n \in Nat : n = Len(L) OBVIOUS
<1>2. PICK m \in 0..n :
        f \in {g \in [1..m -> 1..n] : \A j, k \in 1..m : j < k => g[j] < g[k]}
  BY <1>1 DEF Picks
<1>3. f \in [1..m -> 1..n] /\ \A j, k \in 1..m : j < k => f[j] < f[k] BY <1>2
<1>4. m \in Nat /\ DOMAIN f = 1..m /\ \A k \in 1..m : L[f[k]] \in Block BY <1>1, <1>3
<1>5. PICK p : p = [k \in DOMAIN f |-> L[f[k]]] OBVIOUS
<1>6. p = [k \in 1..m |-> L[f[k]]] BY <1>4, <1>5
<1>7. p \in Seq(Block) /\ Len(p) = m /\ \A k \in 1..m : p[k] = L[f[k]] BY <1>4, <1>6
<1> QED BY <1>1, <1>3, <1>5, <1>7

(* What joins the buffer. *)
LEMMA JoiningFacts ==
  ASSUME NEW L \in Seq(Block), NEW p \in Joining(L)
  PROVE  /\ p \in Seq(Block) /\ Len(p) <= Len(L)
         /\ m_pBlockSending = << >> /\ L # << >> => p # << >> /\ p[1] = L[1]
         /\ \E f \in Picks(Len(L)) : p = [k \in DOMAIN f |-> L[f[k]]]
<1>1. PICK f \in Picks(Len(L)) : p = [k \in DOMAIN f |-> L[f[k]]] BY DEF Joining
<1>2. m_pBlockSending = << >> /\ L # << >> => p # << >> /\ p[1] = L[1] BY DEF Joining
<1>3. p \in Seq(Block) /\ Len(p) <= Len(L)
  <2>1. PICK m \in 0..Len(L) :
          /\ [k \in DOMAIN f |-> L[f[k]]] \in Seq(Block)
          /\ Len([k \in DOMAIN f |-> L[f[k]]]) = m
    BY PickType
  <2>2. m <= Len(L) OBVIOUS
  <2> QED BY <1>1, <2>1, <2>2
<1> QED BY <1>1, <1>2, <1>3

LEMMA AddBufferFacts ==
  ASSUME TypeOK, FrontFirst, NEW p \in Seq(Block), AddBuffer(p)
  PROVE  /\ m_pBlockSending' \in Block \cup {<< >>}
         /\ m_queueSnd' \in Seq(Block)
         /\ m_pBlockSending # << >> => m_pBlockSending' = m_pBlockSending
         /\ m_pBlockSending = << >> /\ p # << >> => m_pBlockSending' # << >>
         /\ m_pBlockSending' = << >> => m_queueSnd' = << >>
         /\ Len(m_queueSnd') <= Len(m_queueSnd) + Len(p)
<1>1. PICK q \in Seq(Block) : q = m_queueSnd BY DEF TypeOK
<1>2. \A b \in Block : b # << >> BY DEF Block
<1>3. CASE m_pBlockSending = << >> /\ p # << >>
  <2>1. m_pBlockSending' = Head(p) /\ m_queueSnd' = q \o Tail(p)
    BY <1>1, <1>3 DEF AddBuffer
  <2>2. Head(p) \in Block /\ Tail(p) \in Seq(Block) /\ Len(Tail(p)) <= Len(p) BY <1>3
  <2>3. m_queueSnd' \in Seq(Block) /\ Len(m_queueSnd') = Len(q) + Len(Tail(p))
    BY <2>1, <2>2, ConcatProperties
  <2>4. Len(m_queueSnd') <= Len(q) + Len(p) BY <2>2, <2>3
  <2> QED BY <1>1, <1>2, <1>3, <2>1, <2>2, <2>3, <2>4
<1>4. CASE ~(m_pBlockSending = << >> /\ p # << >>)
  <2>1. m_pBlockSending' = m_pBlockSending /\ m_queueSnd' = q \o p
    BY <1>1, <1>4 DEF AddBuffer
  <2>2. m_queueSnd' \in Seq(Block) /\ Len(m_queueSnd') = Len(q) + Len(p)
    BY <2>1, ConcatProperties
  <2>3. m_pBlockSending = << >> => m_queueSnd' = << >>
    <3>1. m_pBlockSending = << >> => q = << >> /\ p = << >> BY <1>1, <1>4 DEF FrontFirst
    <3> QED BY <2>1, <3>1, ConcatEmptySeq
  <2>4. m_pBlockSending \in Block \cup {<< >>} BY DEF TypeOK
  <2> QED BY <1>1, <1>4, <2>1, <2>2, <2>3, <2>4
<1> QED BY <1>3, <1>4

(* What Send's critical section does to the bytes. *)
LEMMA SendAppendParts ==
  ASSUME TypeOK, NEW t \in Threads, SendAppend(t)
  PROVE  \E len \in Lengths :
           /\ given' = given + len
           /\ \E got \in 0..Len(Blocks(given, len)) :
                LET allocated == SubSeq(Blocks(given, len), 1, got) IN
                /\ \E p \in Joining(allocated) :
                     AddBuffer(p) /\ lost' = lost \cup (InRow(allocated) \ InRow(p))
                /\ refused' = refused \cup ((given + 1)..(given + len) \ InRow(allocated))
                /\ m_pBlockSending # << >> /\ IsQueueFulled => got = 0
<1>1. PICK len \in Lengths :
        /\ given' = given + len
        /\ \E got \in IF m_pBlockSending # << >> /\ IsQueueFulled
                      THEN {0} ELSE 0..Len(Blocks(given, len)) :
             LET allocated == SubSeq(Blocks(given, len), 1, got) IN
             /\ \E p \in Joining(allocated) :
                  AddBuffer(p) /\ lost' = lost \cup (InRow(allocated) \ InRow(p))
             /\ refused' = refused \cup ((given + 1)..(given + len) \ InRow(allocated))
  BY DEF SendAppend
<1>2. 0 \in 0..Len(Blocks(given, len)) BY BlocksFacts DEF TypeOK
<1> QED BY <1>1, <1>2

LEMMA OnSendFacts ==
  ASSUME TypeOK, OnSend
  PROVE  /\ m_pBlockSending' \in Block \cup {<< >>}
         /\ m_queueSnd' \in Seq(Block)
         /\ m_pBlockSending' = << >> <=> m_queueSnd = << >>
         /\ m_pBlockSending' = << >> => m_queueSnd' = << >>
<1>1. m_queueSnd \in Seq(Block) BY DEF TypeOK
<1>2. \A b \in Block : b # << >> BY DEF Block
<1>3. m_queueSnd # << >> => Head(m_queueSnd) \in Block /\ Tail(m_queueSnd) \in Seq(Block)
  BY <1>1
<1> QED BY <1>1, <1>2, <1>3 DEF OnSend

----------------------------------------------------------------------------
(* A step that moves one thread to a place where it has no right to write,  *)
(* or only to the test of a socket that is not open any more, and leaves    *)
(* the buffer and the write alone, keeps the invariant.                     *)
Harmless(t, l) ==
  /\ UNCHANGED <<m_pBlockSending, m_queueSnd, writing>>
  /\ pc' = [pc EXCEPT ![t] = l]
  /\ l # "start" /\ (l = "test" => m_Socket' # "open")
  /\ m_Socket' = "open" => m_Socket = "open" /\ pc[t] \notin {"test", "start", "close"}

LEMMA HarmlessKeeps ==
  ASSUME IInv, TypeOK', NEW t \in Threads, NEW l, Harmless(t, l)
  PROVE  IInv'
<1>1. TypeOK /\ OneWriteInFlight /\ WriterRight /\ NoStall /\ FrontFirst BY DEF IInv
<1>2. /\ pc' = [pc EXCEPT ![t] = l]
      /\ l # "start" /\ (l = "test" => m_Socket' # "open")
  BY DEF Harmless
<1>3. /\ m_pBlockSending' = m_pBlockSending /\ m_queueSnd' = m_queueSnd
      /\ writing' = writing
      /\ m_Socket' = "open" => m_Socket = "open" /\ pc[t] \notin {"test", "start", "close"}
  BY DEF Harmless
<1>4. pc'[t] = l /\ \A u \in Threads \ {t} : pc'[u] = pc[u] BY <1>1, <1>2 DEF TypeOK
<1>5. \A u \in Threads : pc'[u] = "start" => pc[u] = "start" BY <1>2, <1>4
<1>6. m_Socket' = "open" => Starting' = Starting BY <1>2, <1>3, <1>4 DEF Starting
<1>7. OneWriteInFlight' BY <1>1, <1>3 DEF OneWriteInFlight
<1>8. WriterRight' BY <1>1, <1>3, <1>5, <1>6 DEF WriterRight
<1>9. NoStall'
  <2> SUFFICES ASSUME m_Socket' = "open", m_pBlockSending # << >>, writing = << >>
               PROVE  \E u \in Threads : pc'[u] \in {"test", "start", "close"}
    BY <1>3 DEF NoStall
  <2>1. PICK u \in Threads : pc[u] \in {"test", "start", "close"} BY <1>1, <1>3 DEF NoStall
  <2>2. u # t BY <1>3, <2>1
  <2> QED BY <1>4, <2>1, <2>2
<1>10. FrontFirst' BY <1>1, <1>3 DEF FrontFirst
<1> QED BY <1>7, <1>8, <1>9, <1>10 DEF IInv

LEMMA SendTestKeeps == ASSUME IInv, NEW t \in Threads, SendTest(t) PROVE IInv'
<1>1. TypeOK' BY DEF SendTest, Goto, IInv, TypeOK, Locations, buffer, ghosts
<1>2. Harmless(t, "append") BY DEF SendTest, Goto, Harmless, Locations, buffer, IInv, TypeOK
<1> QED BY <1>1, <1>2, HarmlessKeeps

LEMMA SafeCloseKeeps == ASSUME IInv, NEW t \in Threads, SafeClose(t) PROVE IInv'
<1>1. TypeOK' BY DEF SafeClose, Goto, IInv, TypeOK, Locations, buffer, ghosts
<1>2. Harmless(t, "closed") BY DEF SafeClose, Goto, Harmless, Locations, buffer, IInv, TypeOK
<1> QED BY <1>1, <1>2, HarmlessKeeps

LEMMA CloseKeeps == ASSUME IInv, NEW t \in Threads, Close(t) PROVE IInv'
<1>1. TypeOK' BY DEF Close, Goto, IInv, TypeOK, Locations, buffer, ghosts
<1>2. Harmless(t, "report") BY DEF Close, Goto, Harmless, Locations, buffer, IInv, TypeOK
<1> QED BY <1>1, <1>2, HarmlessKeeps

LEMMA ReportKeeps == ASSUME IInv, NEW t \in Threads, Report(t) PROVE IInv'
<1>1. TypeOK' BY DEF Report, Goto, IInv, TypeOK, Locations, buffer, ghosts
<1>2. Harmless(t, IF bSend[t] THEN "test" ELSE "idle") BY DEF Report, Goto, Harmless, Locations, buffer, IInv, TypeOK
<1> QED BY <1>1, <1>2, HarmlessKeeps

LEMMA ResetKeeps == ASSUME IInv, NEW t \in Threads, Reset(t) PROVE IInv'
<1>1. TypeOK' BY DEF Reset, Goto, IInv, TypeOK, Locations, buffer, ghosts
<1>2. Harmless(t, "idle") BY DEF Reset, Goto, Harmless, Locations, buffer, IInv, TypeOK
<1> QED BY <1>1, <1>2, HarmlessKeeps

LEMMA ClearSendingKeeps == ASSUME IInv, ClearSending PROVE IInv'
<1>1. TypeOK' BY DEF ClearSending, Goto, IInv, TypeOK, Locations, buffer, ghosts
<1>2. Harmless(Io, "idle") BY DEF ClearSending, Goto, Harmless, Locations, buffer, IInv, TypeOK
<1> QED BY <1>1, <1>2, HarmlessKeeps

LEMMA ReadDoneKeeps == ASSUME IInv, ReadDone PROVE IInv'
<1>1. TypeOK' BY DEF ReadDone, Goto, IInv, TypeOK, Locations, buffer, ghosts
<1>2. Harmless(Io, "reread") BY DEF ReadDone, Goto, Harmless, Locations, buffer, IInv, TypeOK
<1> QED BY <1>1, <1>2, HarmlessKeeps

LEMMA DoReadKeeps == ASSUME IInv, DoRead PROVE IInv'
<1>1. TypeOK' BY DEF DoRead, Goto, IInv, TypeOK, Locations, buffer, ghosts
<1>2. Harmless(Io, "idle") BY DEF DoRead, Goto, Harmless, Locations, buffer, IInv, TypeOK
<1> QED BY <1>1, <1>2, HarmlessKeeps

LEMMA ReadFailedKeeps == ASSUME IInv, ReadFailed PROVE IInv'
<1>1. TypeOK' BY DEF ReadFailed, Goto, IInv, TypeOK, Locations, buffer, ghosts
<1>2. Harmless(Io, "close") BY DEF ReadFailed, Goto, Harmless, Locations, buffer, IInv, TypeOK
<1> QED BY <1>1, <1>2, HarmlessKeeps

(* The end of the asio thread changes nothing else. *)
LEMMA IoThrowsKeeps == ASSUME IInv, IoThrows PROVE IInv'
BY DEF IoThrows, buffer, ghosts, IInv, TypeOK, OneWriteInFlight, WriterRight, NoStall,
       FrontFirst, Starting

----------------------------------------------------------------------------
(* The steps that take, hand on, or give up the right to write.             *)

(* A block is not empty, so a write in flight implies a front block. *)
LEMMA WritingFacts ==
  ASSUME IInv, writing # << >>
  PROVE  /\ Len(writing) = 1 /\ writing[1] \in Block
         /\ m_pBlockSending # << >>
         /\ m_Socket = "open" => Starting = {}
         /\ \A u \in Threads : pc[u] # "start"
<1>1. writing \in Seq(Block) /\ writing[1] = m_pBlockSending
  BY DEF IInv, TypeOK, OneWriteInFlight
<1>2. Len(writing) <= 1 BY DEF IInv, OneWriteInFlight
<1> PICK n : n = Len(writing) OBVIOUS
<1>3. Len(writing) = 1
  <2>1. n \in Nat \ {0} BY <1>1, EmptySeq
  <2>2. n <= 1 BY <1>2
  <2> QED BY <2>1, <2>2
<1>4. writing[1] \in Block BY <1>1, <1>3
<1> QED BY <1>1, <1>3, <1>4 DEF IInv, WriterRight, Block

(* Send's critical section: whoever finds no front block sets one and goes  *)
(* on to write it; whoever finds one leaves it to its owner.                *)
LEMMA SendAppendKeeps ==
  ASSUME IInv, NEW t \in Threads, SendAppend(t)
  PROVE  IInv'
<1> DEFINE sending == m_pBlockSending # << >>
<1>1. TypeOK /\ OneWriteInFlight /\ WriterRight /\ NoStall /\ FrontFirst BY DEF IInv
<1>2. /\ pc[t] = "append"
      /\ UNCHANGED <<m_Socket, m_bIsSending, writing, reading, wire, calls, reports, crashed>>
  BY DEF SendAppend
<1>3. PICK len \in Lengths :
        LET blocks == Blocks(given, len) IN
        /\ given' = given + len
        /\ bSend' = [bSend EXCEPT ![t] = ~sending]
        /\ \E got \in IF sending /\ IsQueueFulled THEN {0} ELSE 0..Len(blocks) :
             LET allocated == SubSeq(blocks, 1, got) IN
             /\ \E p \in Joining(allocated) :
                  AddBuffer(p) /\ lost' = lost \cup (InRow(allocated) \ InRow(p))
             /\ refused' = refused \cup ((given + 1)..(given + len) \ InRow(allocated))
             /\ Goto(t, IF got < Len(blocks) THEN "close"
                        ELSE IF sending THEN "idle" ELSE "test")
  BY DEF SendAppend
<1>4. len \in Nat \ {0} /\ given \in Nat BY <1>1 DEF TypeOK
<1>5. PICK blocks \in Seq(Block) : blocks = Blocks(given, len) /\ Len(blocks) \in Nat \ {0}
  BY <1>4, BlocksFacts
<1>6. \E got \in IF sending /\ IsQueueFulled THEN {0} ELSE 0..Len(blocks) :
        /\ \E p \in Joining(SubSeq(blocks, 1, got)) :
             /\ AddBuffer(p)
             /\ lost' = lost \cup (InRow(SubSeq(blocks, 1, got)) \ InRow(p))
        /\ refused' = refused \cup ((given + 1)..(given + len) \ InRow(SubSeq(blocks, 1, got)))
        /\ Goto(t, IF got < Len(blocks) THEN "close"
                   ELSE IF sending THEN "idle" ELSE "test")
  BY <1>3, <1>5
<1>7. PICK got \in 0..Len(blocks) :
        /\ \E p \in Joining(SubSeq(blocks, 1, got)) :
             /\ AddBuffer(p)
             /\ lost' = lost \cup (InRow(SubSeq(blocks, 1, got)) \ InRow(p))
        /\ refused' = refused \cup ((given + 1)..(given + len) \ InRow(SubSeq(blocks, 1, got)))
        /\ Goto(t, IF got < Len(blocks) THEN "close"
                   ELSE IF sending THEN "idle" ELSE "test")
  <2>1. 0 \in 0..Len(blocks) BY <1>5
  <2> QED BY <1>6, <2>1
<1>8. PICK allocated \in Seq(Block) :
        allocated = SubSeq(blocks, 1, got) /\ (got > 0 => allocated # << >>)
  <2>1. SubSeq(blocks, 1, got) \in Seq(Block) BY SomeBlocks
  <2>2. got > 0 => Len(SubSeq(blocks, 1, got)) # 0 OBVIOUS
  <2>3. got > 0 => SubSeq(blocks, 1, got) # << >> BY <2>2
  <2> QED BY <2>1, <2>3
<1>9. PICK p \in Joining(allocated) :
        AddBuffer(p) /\ lost' = lost \cup (InRow(allocated) \ InRow(p))
  BY <1>7, <1>8
<1>10. p \in Seq(Block) /\ (~sending /\ allocated # << >> => p # << >>)
  BY <1>8, JoiningFacts
<1>11. /\ m_pBlockSending' \in Block \cup {<< >>} /\ m_queueSnd' \in Seq(Block)
       /\ sending => m_pBlockSending' = m_pBlockSending
       /\ ~sending /\ p # << >> => m_pBlockSending' # << >>
       /\ m_pBlockSending' = << >> => m_queueSnd' = << >>
  BY <1>1, <1>9, <1>10, AddBufferFacts
<1>12. PICK l \in {"idle", "test", "close"} :
        /\ pc' = [pc EXCEPT ![t] = l]
        /\ l = "test" => ~sending /\ m_pBlockSending' # << >>
        /\ l = "idle" => sending
  <2>1. PICK l : l = IF got < Len(blocks) THEN "close"
                     ELSE IF sending THEN "idle" ELSE "test"
    OBVIOUS
  <2>2. pc' = [pc EXCEPT ![t] = l] BY <1>7, <2>1 DEF Goto
  <2>3. l = "test" => ~sending /\ got > 0 BY <1>5, <2>1
  <2>4. l = "test" => m_pBlockSending' # << >> BY <1>8, <1>10, <1>11, <2>3
  <2> QED BY <2>1, <2>2, <2>3, <2>4
<1>13. lost' \in SUBSET Bytes /\ refused' \in SUBSET Bytes
  <2>1. InRow(allocated) \subseteq Bytes BY <1>8 DEF InRow, InBlock, Block
  <2>2. (given + 1)..(given + len) \subseteq Bytes BY <1>4 DEF Bytes
  <2>3. refused' = refused \cup ((given + 1)..(given + len) \ InRow(allocated))
    BY <1>7, <1>8
  <2>4. refused \subseteq Bytes /\ lost \subseteq Bytes BY <1>1 DEF TypeOK
  <2> QED BY <1>9, <2>1, <2>2, <2>3, <2>4
<1> HIDE DEF sending
<1>14. pc'[t] = l /\ \A u \in Threads \ {t} : pc'[u] = pc[u] BY <1>1, <1>11, <1>12 DEF TypeOK
<1>15. TypeOK'
  <2>1. bSend' \in [Threads -> BOOLEAN]
    <3>1. bSend' = [bSend EXCEPT ![t] = ~sending] BY <1>3
    <3>2. bSend \in [Threads -> BOOLEAN] BY <1>1 DEF TypeOK
    <3> QED BY <3>1, <3>2, Zenon
  <2>2. pc' \in [Threads -> Locations] BY <1>1, <1>11, <1>12 DEF TypeOK, Locations
  <2>3. given' \in Nat BY <1>3, <1>4
  <2> QED BY <1>1, <1>2, <1>11, <1>13, <2>1, <2>2, <2>3 DEF TypeOK
<1>16. writing # << >> => sending BY WritingFacts DEF sending
<1>17. OneWriteInFlight' BY <1>1, <1>2, <1>11, <1>12, <1>16 DEF OneWriteInFlight
<1>18. WriterRight'
  <2>1. CASE l # "test"
    <3>1. Starting' = Starting /\ \A u \in Threads : pc'[u] = "start" <=> pc[u] = "start"
      BY <1>2, <1>11, <1>12, <1>14, <2>1 DEF Starting
    <3>2. m_pBlockSending # << >> => m_pBlockSending' # << >> BY <1>11, <1>12 DEF sending
    <3> QED BY <1>1, <1>2, <3>1, <3>2 DEF WriterRight
  <2>2. CASE l = "test"
    <3>1. m_pBlockSending = << >> /\ m_pBlockSending' # << >> /\ writing' = << >>
      BY <1>2, <1>11, <1>12, <1>16, <2>2 DEF sending
    <3>2. m_Socket' = "open" => Starting' = {t}
      BY <1>1, <1>2, <1>14, <2>2, <3>1 DEF WriterRight, Starting
    <3>3. \A u \in Threads : pc'[u] # "start" BY <1>1, <1>14, <2>2, <3>1 DEF WriterRight
    <3> QED BY <3>1, <3>2, <3>3 DEF WriterRight
  <2> QED BY <2>1, <2>2
<1>19. NoStall'
  <2> SUFFICES ASSUME m_Socket = "open", writing = << >>
               PROVE  \E u \in Threads : pc'[u] \in {"test", "start", "close"}
    BY <1>2 DEF NoStall
  <2>1. CASE sending
    <3>1. PICK u \in Threads : pc[u] \in {"test", "start", "close"}
      BY <1>1, <2>1 DEF NoStall, sending
    <3> QED BY <1>2, <1>14, <3>1
  <2>2. CASE ~sending BY <1>11, <1>12, <1>14, <2>2
  <2> QED BY <2>1, <2>2
<1> QED BY <1>11, <1>12, <1>15, <1>17, <1>18, <1>19 DEF IInv, FrontFirst

(* DoSend's test and its use of the socket: the right goes to the write. *)
LEMMA DoSendTestKeeps ==
  ASSUME IInv, NEW t \in Threads, DoSendTest(t)
  PROVE  IInv'
<1>1. TypeOK /\ OneWriteInFlight /\ WriterRight /\ NoStall /\ FrontFirst BY DEF IInv
<1>2. TypeOK' BY DEF DoSendTest, Goto, IInv, TypeOK, Locations, buffer, ghosts
<1>3. CASE m_Socket # "open"
  <2>1. Harmless(t, "idle") BY <1>3 DEF DoSendTest, Goto, Harmless, buffer, IInv, TypeOK
  <2> QED BY <1>2, <2>1, HarmlessKeeps
<1>4. CASE m_Socket = "open"
  <2>1. /\ pc[t] = "test" /\ pc' = [pc EXCEPT ![t] = "start"]
        /\ m_pBlockSending' = m_pBlockSending /\ m_queueSnd' = m_queueSnd
        /\ writing' = writing /\ m_Socket' = m_Socket
    BY <1>4 DEF DoSendTest, Goto, buffer
  <2>2. pc'[t] = "start" /\ \A u \in Threads \ {t} : pc'[u] = pc[u] BY <1>1, <2>1 DEF TypeOK
  <2>3. Starting = {t} /\ writing = << >> /\ m_pBlockSending # << >>
    BY <1>1, <1>4, <2>1 DEF WriterRight, Starting
  <2>4. Starting' = {t} BY <2>2, <2>3 DEF Starting
  <2>5. \A u \in Threads : pc'[u] = "start" => u = t BY <2>4 DEF Starting
  <2>6. WriterRight' BY <2>1, <2>3, <2>4, <2>5 DEF WriterRight
  <2>7. NoStall' BY <2>2 DEF NoStall
  <2> QED BY <1>1, <1>2, <2>1, <2>6, <2>7 DEF IInv, OneWriteInFlight, FrontFirst
<1> QED BY <1>3, <1>4

LEMMA DoSendStartKeeps ==
  ASSUME IInv, NEW t \in Threads, DoSendStart(t)
  PROVE  IInv'
<1>1. TypeOK /\ OneWriteInFlight /\ WriterRight /\ NoStall /\ FrontFirst BY DEF IInv
<1>2. /\ pc[t] = "start" /\ pc' = [pc EXCEPT ![t] = "idle"] /\ m_bIsSending' = TRUE
      /\ m_pBlockSending' = m_pBlockSending /\ m_queueSnd' = m_queueSnd
      /\ m_Socket' = m_Socket /\ UNCHANGED <<bSend, reading, wire, given, calls, refused, lost, reports>>
  BY DEF DoSendStart, Goto, buffer, ghosts
<1>3. pc'[t] = "idle" /\ \A u \in Threads \ {t} : pc'[u] = pc[u] BY <1>1, <1>2 DEF TypeOK
<1>4. /\ writing = << >> /\ m_pBlockSending \in Block
      /\ \A u \in Threads : pc[u] = "start" => t = u
  BY <1>1, <1>2 DEF WriterRight, TypeOK
<1>5. CASE m_Socket = "null"
  <2>1. crashed' = TRUE /\ writing' = writing BY <1>5 DEF DoSendStart
  <2>2. TypeOK' BY <1>1, <1>2, <2>1 DEF TypeOK, Locations
  <2>3. Harmless(t, "idle") BY <1>2, <1>5, <2>1 DEF Harmless
  <2> QED BY <2>2, <2>3, HarmlessKeeps
<1>6. CASE m_Socket # "null"
  <2>1. writing' = Append(writing, m_pBlockSending) /\ crashed' = crashed
    BY <1>6 DEF DoSendStart
  <2>2. writing' = <<m_pBlockSending>> BY <1>4, <2>1
  <2>3. TypeOK' BY <1>1, <1>2, <1>4, <2>1, <2>2 DEF TypeOK, Locations
  <2>4. OneWriteInFlight' BY <1>2, <2>2 DEF OneWriteInFlight
  <2>5. m_Socket' = "open" => Starting' = {}
    BY <1>1, <1>2, <1>3 DEF WriterRight, Starting
  <2>6. \A u \in Threads : pc'[u] # "start" BY <1>3, <1>4
  <2>7. WriterRight' BY <2>5, <2>6 DEF WriterRight
  <2>8. NoStall' BY <2>2 DEF NoStall
  <2> QED BY <1>1, <1>2, <2>3, <2>4, <2>7, <2>8 DEF IInv, FrontFirst
<1> QED BY <1>5, <1>6

(* A completed write: the right goes to the next block, or lapses. *)
LEMMA WriteDoneKeeps == ASSUME IInv, WriteDone PROVE IInv'
<1>1. TypeOK /\ OneWriteInFlight /\ WriterRight /\ NoStall /\ FrontFirst BY DEF IInv
<1>2. PICK w \in 1..Len(writing) :
        /\ wire' = wire \o writing[w]
        /\ writing' = SubSeq(writing, 1, w - 1) \o SubSeq(writing, w + 1, Len(writing))
  BY DEF WriteDone
<1>3. writing # << >> BY <1>1, <1>2 DEF TypeOK
<1>4. /\ Len(writing) = 1 /\ writing[1] \in Block
      /\ m_Socket = "open" => Starting = {}
      /\ \A u \in Threads : pc[u] # "start"
  BY <1>3, WritingFacts
<1>5. w = 1 BY <1>2, <1>4
<1>6. writing' = << >>
  <2>1. writing' = SubSeq(writing, 1, 0) \o SubSeq(writing, 2, 1) BY <1>2, <1>4, <1>5
  <2>2. writing \in Seq(Block) BY <1>1 DEF TypeOK
  <2>3. SubSeq(writing, 1, 0) = << >> BY <1>4, <2>2, SomeBlocks
  <2>4. SubSeq(writing, 2, 1) = << >> BY <1>4, <2>2, SomeBlocks
  <2> QED BY <2>1, <2>3, <2>4
<1>7. /\ OnSend /\ pc' = [pc EXCEPT ![Io] = IF m_queueSnd = << >> THEN "sent" ELSE "test"]
      /\ UNCHANGED <<m_Socket, m_bIsSending, bSend, reading, given, calls, refused, lost, reports, crashed>>
  BY DEF WriteDone, Goto
<1>8. /\ m_pBlockSending' \in Block \cup {<< >>}
      /\ m_queueSnd' \in Seq(Block)
      /\ m_pBlockSending' = << >> <=> m_queueSnd = << >>
      /\ m_pBlockSending' = << >> => m_queueSnd' = << >>
  BY <1>1, <1>7, OnSendFacts
<1>9. /\ pc'[Io] = IF m_queueSnd = << >> THEN "sent" ELSE "test"
      /\ \A u \in Threads \ {Io} : pc'[u] = pc[u]
  BY <1>1, <1>7 DEF TypeOK
<1>10. TypeOK'
  <2>1. writing[1] \in Seq(Bytes) /\ wire \in Seq(Bytes) BY <1>1, <1>4 DEF Block, TypeOK
  <2>2. wire' \in Seq(Bytes) BY <1>2, <1>5, <2>1, ConcatProperties
  <2>3. pc' \in [Threads -> Locations] BY <1>1, <1>7 DEF TypeOK, Locations
  <2>4. writing' \in Seq(Block) BY <1>6
  <2> QED BY <1>1, <1>7, <1>8, <2>2, <2>3, <2>4 DEF TypeOK
<1>11. OneWriteInFlight' BY <1>6 DEF OneWriteInFlight
<1>12. \A u \in Threads : pc'[u] # "start" BY <1>4, <1>9
<1>13. m_Socket' = "open" => Starting' = IF m_queueSnd = << >> THEN {} ELSE {Io}
  <2> SUFFICES ASSUME m_Socket = "open"
               PROVE  Starting' = IF m_queueSnd = << >> THEN {} ELSE {Io}
    BY <1>7
  <2>1. \A u \in Threads : pc[u] \notin {"test", "start"} BY <1>4 DEF Starting
  <2> QED BY <1>9, <2>1 DEF Starting
<1>14. WriterRight' BY <1>6, <1>8, <1>12, <1>13 DEF WriterRight
<1>15. NoStall' BY <1>8, <1>9 DEF NoStall
<1> QED BY <1>8, <1>10, <1>11, <1>14, <1>15 DEF IInv, FrontFirst

LEMMA WriteFailedKeeps == ASSUME IInv, WriteFailed PROVE IInv'
<1>1. TypeOK /\ OneWriteInFlight /\ WriterRight /\ NoStall /\ FrontFirst BY DEF IInv
<1>2. /\ writing # << >> /\ writing' = << >> /\ pc' = [pc EXCEPT ![Io] = "close"]
      /\ m_pBlockSending' = m_pBlockSending /\ m_queueSnd' = m_queueSnd
      /\ m_Socket' = m_Socket
  BY DEF WriteFailed, Goto, buffer
<1>3. TypeOK' BY DEF WriteFailed, Goto, IInv, TypeOK, Locations, buffer, ghosts
<1>4. /\ m_Socket = "open" => Starting = {}
      /\ \A u \in Threads : pc[u] # "start"
  BY <1>2, WritingFacts
<1>5. pc'[Io] = "close" /\ \A u \in Threads \ {Io} : pc'[u] = pc[u] BY <1>1, <1>2 DEF TypeOK
<1>6. /\ m_Socket' = "open" => Starting' = {}
      /\ \A u \in Threads : pc'[u] # "start"
  BY <1>2, <1>4, <1>5 DEF Starting
<1>7. WriterRight' BY <1>6 DEF WriterRight
<1>8. NoStall' BY <1>5 DEF NoStall
<1> QED BY <1>1, <1>2, <1>3, <1>7, <1>8 DEF IInv, OneWriteInFlight, FrontFirst

----------------------------------------------------------------------------
LEMMA InitInvariant == Init => IInv
<1> SUFFICES ASSUME Init PROVE IInv OBVIOUS
<1>1. TypeOK
  <2>1. /\ << >> \in Seq(Block) /\ << >> \in Seq(Bytes)
        /\ [t \in Threads |-> "idle"] \in [Threads -> Locations]
        /\ [t \in Threads |-> FALSE] \in [Threads -> BOOLEAN]
    BY DEF Locations
  <2> QED BY <2>1 DEF Init, TypeOK
<1>2. \A t \in Threads : pc[t] = "idle" BY DEF Init
<1>3. Starting = {} BY <1>2 DEF Starting
<1>4. writing = << >> /\ m_pBlockSending = << >> /\ m_queueSnd = << >> BY DEF Init
<1>5. OneWriteInFlight BY <1>4 DEF OneWriteInFlight
<1>6. WriterRight BY <1>2, <1>3 DEF WriterRight
<1> QED BY <1>1, <1>4, <1>5, <1>6 DEF IInv, NoStall, FrontFirst

LEMMA NextInvariant == IInv /\ [Next]_vars => IInv'
<1> SUFFICES ASSUME IInv, [Next]_vars PROVE IInv' OBVIOUS
<1>1. CASE UNCHANGED vars
  BY <1>1 DEF vars, IInv, TypeOK, OneWriteInFlight, WriterRight, NoStall, FrontFirst, Starting
<1>2. ASSUME NEW t \in Threads, SendTest(t) PROVE IInv' BY <1>2, SendTestKeeps
<1>3. ASSUME NEW t \in Threads, SafeClose(t) PROVE IInv' BY <1>3, SafeCloseKeeps
<1>4. ASSUME NEW t \in Threads, SendAppend(t) PROVE IInv' BY <1>4, SendAppendKeeps
<1>5. ASSUME NEW t \in Threads, DoSendTest(t) PROVE IInv' BY <1>5, DoSendTestKeeps
<1>6. ASSUME NEW t \in Threads, DoSendStart(t) PROVE IInv' BY <1>6, DoSendStartKeeps
<1>7. ASSUME NEW t \in Threads, Close(t) PROVE IInv' BY <1>7, CloseKeeps
<1>8. ASSUME NEW t \in Threads, Report(t) PROVE IInv' BY <1>8, ReportKeeps
<1>9. ASSUME NEW t \in Threads, Reset(t) PROVE IInv' BY <1>9, ResetKeeps
<1>10. CASE IoStep BY <1>10, ClearSendingKeeps, DoReadKeeps DEF IoStep
<1>11. CASE WriteDone BY <1>11, WriteDoneKeeps
<1>12. CASE WriteFailed BY <1>12, WriteFailedKeeps
<1>13. CASE ReadDone BY <1>13, ReadDoneKeeps
<1>14. CASE ReadFailed BY <1>14, ReadFailedKeeps
<1>15. CASE IoThrows BY <1>15, IoThrowsKeeps
<1> QED
  BY <1>1, <1>2, <1>3, <1>4, <1>5, <1>6, <1>7, <1>8, <1>9, <1>10, <1>11, <1>12, <1>13,
     <1>14, <1>15 DEF Next, ThreadStep

(* The parts of IInv hold together in every reachable state. *)
THEOREM InvariantHolds == Spec => []IInv
<1>1. Init => IInv BY InitInvariant
<1>2. IInv /\ [Next]_vars => IInv' BY NextInvariant
<1> QED BY <1>1, <1>2, PTL DEF Spec

(* Every variable keeps its type; in particular no write is ever started    *)
(* with an empty block or a block longer than SNDBUFFER_BLOCK_SIZE.         *)
THEOREM TypeCorrect == Spec => []TypeOK
<1>1. IInv => TypeOK BY DEF IInv
<1> QED BY <1>1, InvariantHolds, PTL

(* However many threads call Send, and whatever the completions find, two   *)
(* writes are never in flight, and the block being written stays the front  *)
(* block until its write ends.                                              *)
THEOREM NeverTwoWrites == Spec => []OneWriteInFlight
<1>1. IInv => OneWriteInFlight BY DEF IInv
<1> QED BY <1>1, InvariantHolds, PTL

(* At most one party is past the decision to write, and the front block is  *)
(* set while it is.                                                         *)
THEOREM OneWriter == Spec => []WriterRight
<1>1. IInv => WriterRight BY DEF IInv
<1> QED BY <1>1, InvariantHolds, PTL

(* While the connection is open, data in the buffer always has a write in   *)
(* flight or a thread on its way to start one (or to close the connection). *)
THEOREM NeverStalls == Spec => []NoStall
<1>1. IInv => NoStall BY DEF IInv
<1> QED BY <1>1, InvariantHolds, PTL

(* Nothing is queued behind an empty front: a Send that finds no front      *)
(* block cannot overtake a block of an earlier one.                         *)
THEOREM NothingOvertakes == Spec => []FrontFirst
<1>1. IInv => FrontFirst BY DEF IInv
<1> QED BY <1>1, InvariantHolds, PTL

----------------------------------------------------------------------------
(* The bytes of the buffer.  A message is cut into runs of bytes; so is    *)
(* what is in the buffer, and its blocks ascend.                           *)
Run(b) == \A i \in 1..Len(b) : b[i] = b[1] + i - 1
Last(b) == b[Len(b)]

LEMMA LastType == ASSUME NEW b \in Block PROVE Last(b) \in Nat /\ b[1] \in Nat /\ b # << >>
BY DEF Last, Block, Bytes

(* Where the blocks of a message begin and end: each follows the one       *)
(* before it, all are full but the last, and that ends the message.        *)
LEMMA BlocksAt ==
  ASSUME NEW first \in Nat, NEW len \in Nat \ {0}
  PROVE  LET L == Blocks(first, len) IN
         /\ L \in Seq(Block) /\ Len(L) \in Nat \ {0} /\ len <= BLOCK * Len(L)
         /\ \A b \in 1..Len(L) :
              /\ Run(L[b]) /\ L[b][1] = first + (b - 1) * BLOCK + 1
              /\ Last(L[b]) = first + (IF b = Len(L) THEN len ELSE b * BLOCK)
              /\ Last(L[b]) <= first + len
<1> DEFINE q == (len + BLOCK - 1) \div BLOCK
           size(b) == IF b * BLOCK <= len THEN BLOCK ELSE len - (b - 1) * BLOCK
           block(b) == [i \in 1..size(b) |-> first + (b - 1) * BLOCK + i]
           L == Blocks(first, len)
<1>1. q \in Nat \ {0} /\ BLOCK * q <= len + BLOCK - 1 /\ len <= BLOCK * q
  <2>1. q \in Nat \ {0} /\ BLOCK * q <= len + BLOCK - 1 BY BlockCount
  <2>2. len + BLOCK - 1 \in Nat OBVIOUS
  <2>3. len + BLOCK - 1 < BLOCK * (q + 1) BY <2>2
  <2> HIDE DEF q
  <2>4. BLOCK * (q + 1) = BLOCK * q + BLOCK BY <2>1
  <2> QED BY <2>1, <2>3, <2>4
<1> HIDE DEF q
<1>2. L = [b \in 1..q |-> block(b)] BY DEF Blocks, q
<1>3. L \in Seq(Block) /\ Len(L) = q /\ L # << >>
  <2>1. Len(L) = q BY <1>1, <1>2
  <2> QED BY <1>1, <2>1, BlocksFacts
<1>4. ASSUME NEW b \in 1..q
      PROVE  /\ Run(block(b)) /\ block(b)[1] = first + (b - 1) * BLOCK + 1
             /\ Last(block(b)) = first + (IF b = q THEN len ELSE b * BLOCK)
             /\ Last(block(b)) <= first + len
  <2>1. (b - 1) * BLOCK = b * BLOCK - BLOCK /\ b * BLOCK = BLOCK * b /\ b * BLOCK \in Nat
    BY <1>1
  <2>2. b # q => BLOCK * b <= BLOCK * q - BLOCK
    <3> SUFFICES ASSUME b # q PROVE BLOCK * b <= BLOCK * q - BLOCK
      OBVIOUS
    <3>1. BLOCK * (b + 1) <= BLOCK * q BY <1>1
    <3>2. BLOCK * (b + 1) = BLOCK * b + BLOCK BY <1>1
    <3> QED BY <3>1, <3>2, <1>1
  <2>3. /\ b = q => b * BLOCK >= len /\ (b - 1) * BLOCK < len
        /\ b # q => b * BLOCK <= len
    BY <1>1, <2>1, <2>2
  <2>4. size(b) \in Nat \ {0} /\ (b - 1) * BLOCK \in Nat
        /\ (b - 1) * BLOCK + size(b) = IF b = q THEN len ELSE b * BLOCK
    <3>1. (b - 1) * BLOCK \in Nat BY <1>1
    <3> QED BY <2>1, <2>3, <3>1
  <2> HIDE DEF size
  <2>5. PICK base \in Nat : base = (b - 1) * BLOCK BY <2>4
  <2>6. block(b) = [i \in 1..size(b) |-> first + base + i] BY <2>5
  <2> HIDE DEF block
  <2>7. Len(block(b)) = size(b) BY <2>4, <2>6
  <2>8. \A i \in 1..size(b) : block(b)[i] = first + base + i BY <2>6
  <2>9. block(b)[1] = first + base + 1 /\ block(b)[size(b)] = first + base + size(b)
    BY <2>4, <2>8
  <2>10. Run(block(b)) BY <2>7, <2>8, <2>9 DEF Run
  <2>11. Last(block(b)) = first + (IF b = q THEN len ELSE b * BLOCK)
    BY <2>4, <2>5, <2>7, <2>9 DEF Last
  <2>12. Last(block(b)) <= first + len BY <2>1, <2>3, <2>11
  <2> QED BY <2>5, <2>9, <2>10, <2>11, <2>12
<1>5. \A b \in 1..Len(L) : L[b] = block(b) BY <1>2, <1>3
<1> QED BY <1>1, <1>3, <1>4, <1>5

LEMMA PendingType ==
  ASSUME TypeOK
  PROVE  /\ Pending \in Seq(Block)
         /\ m_pBlockSending # << >> =>
              Pending # << >> /\ Head(Pending) = m_pBlockSending /\ Tail(Pending) = m_queueSnd
<1>1. m_queueSnd \in Seq(Block) BY DEF TypeOK
<1>2. CASE m_pBlockSending = << >>
  BY <1>1, <1>2 DEF Pending
<1>3. CASE m_pBlockSending # << >>
  <2>1. PICK f \in Block : f = m_pBlockSending BY <1>3 DEF TypeOK
  <2>2. PICK q \in Seq(Block) : q = m_queueSnd BY <1>1
  <2>3. /\ <<f>> \o q \in Seq(Block) /\ <<f>> \o q # << >>
        /\ Head(<<f>> \o q) = f
    OBVIOUS
  <2>4. Tail(<<f>> \o q) = q
    <3>1. /\ Tail(<<f>> \o q) \in Seq(Block) /\ Len(Tail(<<f>> \o q)) = Len(q)
          /\ \A i \in 1..Len(q) : Tail(<<f>> \o q)[i] = q[i]
      OBVIOUS
    <3> QED BY <3>1, SeqEqual
  <2> QED BY <1>3, <2>1, <2>2, <2>3, <2>4 DEF Pending
<1> QED BY <1>2, <1>3

(* AddBuffer puts what joins the buffer at its end. *)
LEMMA AddBufferPending ==
  ASSUME TypeOK, FrontFirst, NEW p \in Seq(Block), AddBuffer(p)
  PROVE  Pending' = Pending \o p
<1>1. PICK q \in Seq(Block) : q = m_queueSnd BY DEF TypeOK
<1>2. CASE m_pBlockSending = << >> /\ p = << >>
  <2>1. q = << >> /\ Pending = << >> BY <1>1, <1>2 DEF FrontFirst, Pending
  <2>2. m_pBlockSending' = << >> /\ m_queueSnd' = << >> \o << >>
    BY <1>1, <1>2, <2>1 DEF AddBuffer
  <2>3. << >> \o << >> = << >> OBVIOUS
  <2> QED BY <1>2, <2>1, <2>2, <2>3 DEF Pending
<1>3. CASE m_pBlockSending = << >> /\ p # << >>
  <2>1. q = << >> /\ Pending = << >> BY <1>1, <1>3 DEF FrontFirst, Pending
  <2>2. PICK r \in Seq(Block) : r = Tail(p)
    <3>1. Tail(p) \in Seq(Block) BY <1>3
    <3> QED BY <3>1
  <2>3. m_pBlockSending' = Head(p) /\ m_queueSnd' = << >> \o r
    BY <1>1, <1>3, <2>1, <2>2 DEF AddBuffer
  <2>4. << >> \o r = r /\ << >> \o p = p BY ConcatEmptySeq
  <2>5. Head(p) \in Block BY <1>3
  <2>6. Head(p) # << >> BY <2>5 DEF Block
  <2>7. Pending' = <<Head(p)>> \o r BY <2>3, <2>4, <2>6 DEF Pending
  <2>8. p = <<Head(p)>> \o r
    <3>1. /\ <<Head(p)>> \o r \in Seq(Block) /\ Len(<<Head(p)>> \o r) = Len(p)
          /\ \A i \in 1..Len(p) : p[i] = (<<Head(p)>> \o r)[i]
      BY <1>3, <2>2, <2>5
    <3> QED BY <3>1, SeqEqual
  <2> QED BY <2>1, <2>4, <2>7, <2>8
<1>4. CASE m_pBlockSending # << >>
  <2>1. PICK f \in Block : f = m_pBlockSending BY <1>4 DEF TypeOK
  <2>2. m_pBlockSending' = f /\ m_queueSnd' = q \o p BY <1>1, <1>4, <2>1 DEF AddBuffer
  <2>3. Pending = <<f>> \o q /\ Pending' = <<f>> \o (q \o p)
    BY <1>1, <1>4, <2>1, <2>2 DEF Pending
  <2>4. <<f>> \in Seq(Block) OBVIOUS
  <2>5. (<<f>> \o q) \o p = <<f>> \o (q \o p) BY <2>4, ConcatAssociative
  <2> QED BY <2>3, <2>5
<1> QED BY <1>2, <1>3, <1>4

(* A completion takes the front block out of the buffer onto the wire. *)
LEMMA WriteDoneMoves ==
  ASSUME IInv, WriteDone
  PROVE  /\ Pending \in Seq(Block) /\ Pending # << >> /\ Head(Pending) \in Block
         /\ wire' = wire \o Head(Pending) /\ Pending' = Tail(Pending)
         /\ Tail(Pending) = m_queueSnd /\ UNCHANGED <<refused, lost, given>>
<1>1. TypeOK /\ FrontFirst BY DEF IInv
<1>2. PICK k \in 1..Len(writing) : wire' = wire \o writing[k]
  BY DEF WriteDone
<1>3. writing # << >> BY <1>1, <1>2 DEF TypeOK
<1>4. /\ Len(writing) = 1 /\ writing[1] \in Block /\ writing[1] = m_pBlockSending
      /\ m_pBlockSending # << >>
  BY <1>3, WritingFacts DEF IInv, OneWriteInFlight
<1>5. PICK b \in Block : b = m_pBlockSending BY <1>4
<1>6. k = 1 /\ wire' = wire \o b BY <1>2, <1>4, <1>5
<1>7. /\ Pending \in Seq(Block) /\ Pending # << >>
      /\ Head(Pending) = b /\ Tail(Pending) = m_queueSnd
  BY <1>1, <1>4, <1>5, PendingType
<1>8. Pending' = m_queueSnd
  <2>1. m_queueSnd \in Seq(Block) BY <1>1 DEF TypeOK
  <2>2. CASE m_queueSnd = << >>
    BY <2>2 DEF WriteDone, OnSend, Pending
  <2>3. CASE m_queueSnd # << >>
    <3>1. PICK q \in Seq(Block) : q = m_queueSnd BY <2>1
    <3>2. m_pBlockSending' = Head(q) /\ m_queueSnd' = Tail(q)
      BY <2>3, <3>1 DEF WriteDone, OnSend
    <3>3. Head(q) \in Block BY <2>3, <3>1
    <3>4. Head(q) # << >> BY <3>3 DEF Block
    <3>5. <<Head(q)>> \o Tail(q) = q
      <4>1. /\ <<Head(q)>> \o Tail(q) \in Seq(Block) /\ Len(<<Head(q)>> \o Tail(q)) = Len(q)
            /\ \A i \in 1..Len(q) : (<<Head(q)>> \o Tail(q))[i] = q[i]
        BY <2>3, <3>1, <3>3
      <4> QED BY <4>1, SeqEqual
    <3> QED BY <3>1, <3>2, <3>4, <3>5 DEF Pending
  <2> QED BY <2>2, <2>3
<1>9. refused' = refused /\ lost' = lost /\ given' = given BY DEF WriteDone
<1> QED BY <1>6, <1>7, <1>8, <1>9

----------------------------------------------------------------------------
(* The refinement: the channel is the set of the buffer's bytes.  What     *)
(* makes the front block its lowest bytes is that the blocks ascend, each  *)
(* pair of them.                                                           *)
Ascends(L) == \A j, k \in 1..Len(L) : j < k => Last(L[j]) < L[k][1]

Runs(L) == \A k \in 1..Len(L) : Run(L[k])

Within(low, high, L) == \A k \in 1..Len(L) : low < L[k][1] /\ Last(L[k]) <= high

RowInv == Runs(Pending) /\ Ascends(Pending) /\ Within(0, given, Pending)

(* A socket that was closed is not open again before its end is reported. *)
EndedFirst == \A t \in Threads : pc[t] \in {"report", "closed"} => m_Socket # "open"

(* A run holds the bytes between its ends. *)
LEMMA RunBytes ==
  ASSUME NEW b \in Block, Run(b)
  PROVE  /\ b[1] \in Bytes /\ Last(b) \in Bytes /\ b[1] <= Last(b)
         /\ InBlock(b) = b[1]..Last(b)
         /\ b = [i \in 1..(Last(b) - b[1] + 1) |-> b[1] + i - 1]
<1>1. /\ Len(b) \in Nat \ {0} /\ b \in Seq(Bytes) /\ b[1] \in Bytes /\ b[Len(b)] \in Bytes
      /\ \A i \in 1..Len(b) : b[i] = b[1] + i - 1
  BY DEF Block, Run
<1>2. PICK n \in Nat \ {0}, x \in Nat \ {0} : n = Len(b) /\ x = b[1] BY <1>1 DEF Bytes
<1>3. Last(b) = x + n - 1 BY <1>1, <1>2 DEF Last
<1>4. InBlock(b) = {x + i - 1 : i \in 1..n} BY <1>1, <1>2 DEF InBlock
<1>5. {x + i - 1 : i \in 1..n} = x..(x + n - 1)
  <2>1. ASSUME NEW c \in x..(x + n - 1) PROVE \E i \in 1..n : c = x + i - 1
    <3>1. c - x + 1 \in 1..n /\ c = x + (c - x + 1) - 1 OBVIOUS
    <3> QED BY <3>1
  <2>2. ASSUME NEW i \in 1..n PROVE x + i - 1 \in x..(x + n - 1)
    OBVIOUS
  <2> QED BY <2>1, <2>2
<1>6. b = [i \in 1..n |-> x + i - 1]
  <2>1. b = [i \in 1..n |-> b[i]] BY <1>1, <1>2
  <2>2. \A i \in 1..n : b[i] = x + i - 1 BY <1>1, <1>2
  <2> QED BY <2>1, <2>2
<1>7. Last(b) - b[1] + 1 = n BY <1>2, <1>3
<1>8. Last(b) \in Bytes /\ b[1] <= Last(b) BY <1>2, <1>3 DEF Bytes
<1> QED BY <1>1, <1>2, <1>3, <1>4, <1>5, <1>6, <1>7, <1>8

(* The bytes of two rows. *)
LEMMA InRowConcat ==
  ASSUME NEW A \in Seq(Block), NEW B \in Seq(Block)
  PROVE  InRow(A \o B) = InRow(A) \cup InRow(B)
<1> DEFINE C == A \o B
           m == Len(A)
<1>1. /\ m \in Nat /\ Len(B) \in Nat /\ Len(C) = m + Len(B)
      /\ \A k \in 1..Len(C) : C[k] = IF k <= m THEN A[k] ELSE B[k - m]
  BY ConcatProperties
<1> HIDE DEF C
<1>2. ASSUME NEW k \in 1..Len(C)
      PROVE  InBlock(C[k]) \subseteq InRow(A) \cup InRow(B)
  <2>1. CASE k <= m
    <3>1. k \in 1..m /\ C[k] = A[k] BY <1>1, <2>1
    <3> QED BY <3>1 DEF InRow
  <2>2. CASE ~(k <= m)
    <3>1. k - m \in 1..Len(B) /\ C[k] = B[k - m] BY <1>1, <2>2
    <3> QED BY <3>1 DEF InRow
  <2> QED BY <2>1, <2>2
<1>3. ASSUME NEW k \in 1..m PROVE InBlock(A[k]) \subseteq InRow(C)
  <2>1. k \in 1..Len(C) /\ C[k] = A[k] BY <1>1
  <2> QED BY <2>1 DEF InRow
<1>4. ASSUME NEW k \in 1..Len(B) PROVE InBlock(B[k]) \subseteq InRow(C)
  <2>1. k + m \in 1..Len(C) /\ ~(k + m <= m) /\ (k + m) - m = k BY <1>1
  <2>2. C[k + m] = B[k] BY <1>1, <2>1
  <2> QED BY <2>1, <2>2 DEF InRow
<1>5. InRow(C) \subseteq InRow(A) \cup InRow(B) BY <1>2 DEF InRow
<1>6. InRow(A) \cup InRow(B) \subseteq InRow(C) BY <1>3, <1>4 DEF InRow
<1> QED BY <1>5, <1>6 DEF C

(* A row continued behind its last byte ascends. *)
LEMMA RowConcat ==
  ASSUME NEW A \in Seq(Block), NEW B \in Seq(Block), NEW x \in Nat, NEW y \in Nat, x <= y,
         Runs(A), Ascends(A), Within(0, x, A), Runs(B), Ascends(B), Within(x, y, B)
  PROVE  Runs(A \o B) /\ Ascends(A \o B) /\ Within(0, y, A \o B)
<1> DEFINE C == A \o B
           m == Len(A)
<1>1. /\ m \in Nat /\ Len(B) \in Nat /\ Len(C) = m + Len(B) /\ C \in Seq(Block)
      /\ \A k \in 1..Len(C) : C[k] = IF k <= m THEN A[k] ELSE B[k - m]
  BY ConcatProperties
<1> HIDE DEF C
<1>2. ASSUME NEW k \in 1..Len(C), k <= m
      PROVE  /\ k \in 1..m /\ C[k] = A[k] /\ Run(C[k]) /\ 0 < C[k][1] /\ Last(C[k]) <= x
  <2>1. k \in 1..m /\ C[k] = A[k] BY <1>1, <1>2
  <2> QED BY <2>1 DEF Runs, Within
<1>3. ASSUME NEW k \in 1..Len(C), ~(k <= m)
      PROVE  /\ k - m \in 1..Len(B) /\ C[k] = B[k - m]
             /\ Run(C[k]) /\ x < C[k][1] /\ Last(C[k]) <= y
  <2>1. k - m \in 1..Len(B) /\ C[k] = B[k - m] BY <1>1, <1>3
  <2> QED BY <2>1 DEF Runs, Within
<1>4. ASSUME NEW k \in 1..Len(C)
      PROVE  Run(C[k]) /\ 0 < C[k][1] /\ Last(C[k]) <= y /\ Last(C[k]) \in Nat /\ C[k][1] \in Nat
  <2>1. C[k] \in Block BY <1>1
  <2>2. Last(C[k]) \in Nat /\ C[k][1] \in Nat BY <2>1, LastType
  <2>3. CASE k <= m
    BY <1>2, <2>2, <2>3
  <2>4. CASE ~(k <= m)
    BY <1>3, <2>2, <2>4
  <2> QED BY <2>2, <2>3, <2>4
<1>5. ASSUME NEW j \in 1..Len(C), NEW k \in 1..Len(C), j < k
      PROVE  Last(C[j]) < C[k][1]
  <2>1. CASE k <= m
    <3>1. j <= m BY <1>1, <1>5, <2>1
    <3> QED BY <1>2, <1>5, <2>1, <3>1 DEF Ascends
  <2>2. CASE j <= m /\ ~(k <= m)
    <3>1. Last(C[j]) <= x /\ x < C[k][1] BY <1>2, <1>3, <2>2
    <3> QED BY <1>4, <3>1
  <2>3. CASE ~(j <= m) /\ ~(k <= m)
    <3>1. /\ j - m \in 1..Len(B) /\ k - m \in 1..Len(B)
          /\ C[j] = B[j - m] /\ C[k] = B[k - m]
      BY <1>3, <2>3
    <3>2. j - m < k - m BY <1>1, <1>5
    <3> QED BY <3>1, <3>2 DEF Ascends
  <2> QED BY <1>1, <1>5, <2>1, <2>2, <2>3
<1>6. Runs(C) /\ Within(0, y, C) BY <1>4 DEF Runs, Within
<1>7. Ascends(C) BY <1>5 DEF Ascends
<1> QED BY <1>6, <1>7 DEF C

(* The first block of a row holds its lowest bytes. *)
LEMMA RowTail ==
  ASSUME NEW L \in Seq(Block), NEW n \in Nat, L # << >>,
         Runs(L), Ascends(L), Within(0, n, L)
  PROVE  /\ Runs(Tail(L)) /\ Ascends(Tail(L)) /\ Within(0, n, Tail(L))
         /\ Head(L) \in Block /\ Run(Head(L))
         /\ InRow(L) = InBlock(Head(L)) \cup InRow(Tail(L))
         /\ \A c \in InRow(Tail(L)) : Last(Head(L)) < c
<1>1. PICK T \in Seq(Block) : T = Tail(L)
  <2>1. Tail(L) \in Seq(Block) OBVIOUS
  <2> QED BY <2>1
<1>2. /\ Len(L) \in Nat \ {0} /\ Len(T) = Len(L) - 1 /\ Head(L) = L[1]
      /\ \A k \in 1..Len(T) : k + 1 \in 1..Len(L) /\ T[k] = L[k + 1]
  BY <1>1
<1>3. 1 \in 1..Len(L) BY <1>2
<1>4. Runs(T) /\ Within(0, n, T) BY <1>2 DEF Runs, Within
<1>5. Ascends(T)
  <2> SUFFICES ASSUME NEW j \in 1..Len(T), NEW k \in 1..Len(T), j < k
               PROVE  Last(T[j]) < T[k][1]
    BY DEF Ascends
  <2>1. j + 1 \in 1..Len(L) /\ k + 1 \in 1..Len(L) /\ j + 1 < k + 1 BY <1>2
  <2> QED BY <1>2, <2>1 DEF Ascends
<1>6. Head(L) \in Block /\ Run(Head(L)) BY <1>2, <1>3 DEF Runs
<1>7. InRow(L) = InBlock(Head(L)) \cup InRow(T)
  <2>1. ASSUME NEW k \in 1..Len(L) PROVE InBlock(L[k]) \subseteq InBlock(Head(L)) \cup InRow(T)
    <3>1. CASE k = 1
      BY <1>2, <3>1
    <3>2. CASE k # 1
      <4>1. k - 1 \in 1..Len(T) BY <1>2, <3>2
      <4>2. (k - 1) + 1 = k OBVIOUS
      <4>3. T[k - 1] = L[k] BY <1>2, <4>1, <4>2
      <4> QED BY <4>1, <4>3 DEF InRow
    <3> QED BY <3>1, <3>2
  <2>2. InBlock(Head(L)) \subseteq InRow(L) BY <1>2, <1>3 DEF InRow
  <2>3. InRow(T) \subseteq InRow(L) BY <1>2 DEF InRow
  <2>4. InRow(L) \subseteq InBlock(Head(L)) \cup InRow(T) BY <2>1 DEF InRow
  <2> QED BY <2>2, <2>3, <2>4
<1>8. ASSUME NEW c \in InRow(T) PROVE Last(Head(L)) < c
  <2>1. PICK k \in 1..Len(T) : c \in InBlock(T[k]) BY <1>8 DEF InRow
  <2>2. T[k] \in Block /\ Run(T[k]) BY <1>4 DEF Runs
  <2>3. c \in T[k][1]..Last(T[k]) /\ T[k][1] \in Nat /\ Last(T[k]) \in Nat
    BY <2>1, <2>2, RunBytes DEF Bytes
  <2>4. Last(L[1]) < T[k][1]
    <3>1. 1 < k + 1 /\ k + 1 \in 1..Len(L) /\ T[k] = L[k + 1] BY <1>2
    <3> QED BY <1>3, <3>1 DEF Ascends
  <2>5. Last(L[1]) \in Nat BY <1>3, LastType
  <2> QED BY <1>2, <2>3, <2>4, <2>5
<1> QED BY <1>1, <1>4, <1>5, <1>6, <1>7, <1>8

(* What is chosen from a row is a row. *)
LEMMA PickRow ==
  ASSUME NEW L \in Seq(Block), NEW f \in Picks(Len(L)), NEW low \in Nat, NEW high \in Nat,
         Runs(L), Ascends(L), Within(low, high, L),
         NEW p \in Seq(Block), p = [k \in DOMAIN f |-> L[f[k]]]
  PROVE  Runs(p) /\ Ascends(p) /\ Within(low, high, p) /\ InRow(p) \subseteq InRow(L)
<1>1. PICK m \in 0..Len(L) :
        /\ f \in [1..m -> 1..Len(L)] /\ \A j, k \in 1..m : j < k => f[j] < f[k]
        /\ Len(p) = m /\ \A k \in 1..m : p[k] = L[f[k]]
  <2>1. PICK m \in 0..Len(L) :
          /\ f \in [1..m -> 1..Len(L)] /\ \A j, k \in 1..m : j < k => f[j] < f[k]
          /\ Len([k \in DOMAIN f |-> L[f[k]]]) = m
          /\ \A k \in 1..m : [j \in DOMAIN f |-> L[f[j]]][k] = L[f[k]]
    BY PickType
  <2> QED BY <2>1
<1>2. \A k \in 1..m : f[k] \in 1..Len(L) BY <1>1
<1>3. Runs(p) /\ Within(low, high, p) BY <1>1, <1>2 DEF Runs, Within
<1>4. Ascends(p) BY <1>1, <1>2 DEF Ascends
<1>5. InRow(p) \subseteq InRow(L) BY <1>1, <1>2 DEF InRow
<1> QED BY <1>3, <1>4, <1>5

(* A beginning of a message's blocks holds a beginning of its bytes. *)
LEMMA BlocksRow ==
  ASSUME NEW first \in Nat, NEW len \in Nat \ {0}, NEW n \in 0..Len(Blocks(first, len))
  PROVE  LET p == SubSeq(Blocks(first, len), 1, n)
             held == IF n = Len(Blocks(first, len)) THEN len ELSE n * BLOCK
         IN  /\ p \in Seq(Block) /\ Runs(p) /\ Ascends(p) /\ Within(first, first + len, p)
             /\ InRow(p) = (first + 1)..(first + held)
             /\ n < Len(Blocks(first, len)) => held \in 0..(len - 1)
<1>1. PICK L \in Seq(Block), q \in Nat \ {0} : L = Blocks(first, len) /\ q = Len(L)
  BY BlocksAt
<1>2. /\ len <= BLOCK * q
      /\ \A b \in 1..q :
           /\ Run(L[b]) /\ L[b][1] = first + (b - 1) * BLOCK + 1
           /\ Last(L[b]) = first + (IF b = q THEN len ELSE b * BLOCK)
           /\ Last(L[b]) <= first + len
  <2>1. LET K == Blocks(first, len) IN
        /\ len <= BLOCK * Len(K)
        /\ \A b \in 1..Len(K) :
             /\ Run(K[b]) /\ K[b][1] = first + (b - 1) * BLOCK + 1
             /\ Last(K[b]) = first + (IF b = Len(K) THEN len ELSE b * BLOCK)
             /\ Last(K[b]) <= first + len
    BY BlocksAt
  <2> QED BY <1>1, <2>1
<1>3. n \in 0..q BY <1>1
<1>4. PICK p \in Seq(Block) : /\ p = SubSeq(L, 1, n) /\ Len(p) = n
                              /\ \A k \in 1..n : p[k] = L[k]
  <2>1. /\ SubSeq(L, 1, n) \in Seq(Block) /\ Len(SubSeq(L, 1, n)) = n
        /\ \A k \in 1..n : SubSeq(L, 1, n)[k] = L[k]
    BY <1>1, <1>3
  <2> QED BY <2>1
<1> DEFINE at(b) == BLOCK * b
           upTo(b) == IF b = q THEN len ELSE at(b)
<1>5. /\ \A b \in Nat : at(b) \in Nat /\ b * BLOCK = at(b) /\ at(b + 1) = at(b) + BLOCK
      /\ \A b, c \in Nat : b <= c => at(b) <= at(c)
      /\ at(0) = 0 /\ len <= at(q)
  <2>1. \A b \in Nat : at(b) \in Nat /\ b * BLOCK = at(b) /\ at(b + 1) = at(b) + BLOCK
    OBVIOUS
  <2>2. ASSUME NEW b \in Nat, NEW c \in Nat, b <= c PROVE at(b) <= at(c)
    BY <2>2
  <2> QED BY <1>2, <2>1, <2>2
<1> HIDE DEF at
<1>6. ASSUME NEW b \in 1..q
      PROVE  /\ b \in Nat /\ b - 1 \in Nat /\ at(b - 1) \in Nat /\ at(b) \in Nat
             /\ at(b) = at(b - 1) + BLOCK
             /\ upTo(b) \in Nat /\ upTo(b) <= len /\ upTo(b) <= at(b)
             /\ L[b] \in Block /\ Run(L[b]) /\ L[b][1] = first + at(b - 1) + 1
             /\ Last(L[b]) = first + upTo(b)
  <2>1. b \in Nat /\ b - 1 \in Nat /\ (b - 1) + 1 = b OBVIOUS
  <2>2. /\ at(b - 1) \in Nat /\ at(b) \in Nat /\ at(b) = at(b - 1) + BLOCK
        /\ (b - 1) * BLOCK = at(b - 1) /\ b * BLOCK = at(b)
    BY <1>5, <2>1
  <2>3. /\ Run(L[b]) /\ L[b][1] = first + at(b - 1) + 1
        /\ Last(L[b]) = first + upTo(b) /\ Last(L[b]) <= first + len
    BY <1>2, <2>2
  <2>4. upTo(b) \in Nat BY <2>2
  <2>5. upTo(b) <= len
    <3> HIDE DEF upTo
    <3> QED BY <2>3, <2>4
  <2>6. upTo(b) <= at(b)
    <3>1. CASE b = q
      <4>1. upTo(b) = len /\ at(b) = at(q) BY <3>1
      <4> HIDE DEF upTo
      <4> QED BY <1>5, <4>1
    <3>2. CASE b # q
      BY <2>2, <3>2
    <3> QED BY <3>1, <3>2
  <2>7. L[b] \in Block BY <1>1
  <2> QED BY <2>1, <2>2, <2>3, <2>4, <2>5, <2>6, <2>7
<1>7. ASSUME NEW j \in 1..q, NEW k \in 1..q, j < k PROVE upTo(j) <= at(k - 1)
  <2>1. j # q /\ j <= k - 1 /\ j \in Nat /\ k - 1 \in Nat BY <1>7
  <2> QED BY <1>5, <2>1
<1>8. upTo(n) \in Nat /\ upTo(n) <= at(n) /\ upTo(n) <= len /\ (n # q => upTo(n) = at(n))
  <2>1. CASE n = 0
    <3>1. n # q /\ at(n) = at(0) BY <1>1, <2>1
    <3>2. upTo(n) = 0 /\ at(n) = 0 BY <1>5, <3>1
    <3> QED BY <3>2
  <2>2. CASE n # 0
    <3>1. n \in 1..q BY <1>3, <2>2
    <3> QED BY <1>6, <3>1
  <2> QED BY <2>1, <2>2
<1>9. ASSUME NEW b \in 1..q, b # q PROVE upTo(b) = at(b)
  BY <1>9
<1>10. /\ upTo(n) = (IF n = Len(Blocks(first, len)) THEN len ELSE n * BLOCK)
       /\ upTo(q) = len
  BY <1>1, <1>5
<1> HIDE DEF upTo
<1>11. Runs(p) /\ Within(first, first + len, p)
  <2> SUFFICES ASSUME NEW k \in 1..n
               PROVE  Run(p[k]) /\ first < p[k][1] /\ Last(p[k]) <= first + len
    BY <1>4 DEF Runs, Within
  <2>1. k \in 1..q /\ p[k] = L[k] BY <1>3, <1>4
  <2>2. /\ Run(L[k]) /\ L[k][1] = first + at(k - 1) + 1 /\ at(k - 1) \in Nat
        /\ Last(L[k]) = first + upTo(k) /\ upTo(k) \in Nat /\ upTo(k) <= len
    BY <1>6, <2>1
  <2>3. first < first + at(k - 1) + 1 /\ first + upTo(k) <= first + len BY <2>2
  <2> QED BY <2>1, <2>2, <2>3
<1>12. Ascends(p)
  <2> SUFFICES ASSUME NEW j \in 1..n, NEW k \in 1..n, j < k PROVE Last(p[j]) < p[k][1]
    BY <1>4 DEF Ascends
  <2>1. j \in 1..q /\ k \in 1..q /\ p[j] = L[j] /\ p[k] = L[k] BY <1>3, <1>4
  <2>2. /\ upTo(j) <= at(k - 1) /\ upTo(j) \in Nat /\ at(k - 1) \in Nat
        /\ Last(L[j]) = first + upTo(j) /\ L[k][1] = first + at(k - 1) + 1
    BY <1>6, <1>7, <2>1
  <2>3. first + upTo(j) < first + at(k - 1) + 1 BY <2>2
  <2> QED BY <2>1, <2>2, <2>3
<1>13. ASSUME NEW b \in 1..n
       PROVE  InBlock(p[b]) = (first + at(b - 1) + 1)..(first + upTo(b))
  <2>1. b \in 1..q /\ p[b] = L[b] BY <1>3, <1>4
  <2> QED BY <1>6, <2>1, RunBytes
<1>14. ASSUME NEW b \in 1..n PROVE InBlock(p[b]) \subseteq (first + 1)..(first + upTo(n))
  <2>1. b \in 1..q /\ n \in 1..q BY <1>3
  <2>2. upTo(b) <= upTo(n)
    <3>1. CASE b = n
      BY <1>8, <3>1
    <3>2. CASE b < n /\ n = q
      BY <1>6, <1>10, <2>1, <3>2
    <3>3. CASE b < n /\ n # q
      <4>1. upTo(b) <= at(n - 1) /\ upTo(b) \in Nat BY <1>6, <1>7, <2>1, <3>3
      <4>2. upTo(n) = at(n - 1) + BLOCK /\ at(n - 1) \in Nat BY <1>6, <1>8, <2>1, <3>3
      <4>3. PICK x \in Nat, y \in Nat : x = upTo(b) /\ y = at(n - 1) BY <4>1, <4>2
      <4> QED BY <4>1, <4>2, <4>3
    <3> QED BY <3>1, <3>2, <3>3
  <2>3. PICK x \in Nat, y \in Nat, z \in Nat : x = at(b - 1) /\ y = upTo(b) /\ z = upTo(n)
    BY <1>6, <1>8, <2>1
  <2>4. InBlock(p[b]) = (first + x + 1)..(first + y) /\ y <= z BY <1>13, <2>2, <2>3
  <2>5. (first + x + 1)..(first + y) \subseteq (first + 1)..(first + z) BY <2>4
  <2> QED BY <2>3, <2>4, <2>5
<1>15. ASSUME NEW c \in (first + 1)..(first + upTo(n)) PROVE c \in InRow(p)
  <2>1. PICK d \in Nat : d = c - first - 1 BY <1>8
  <2>2. d < upTo(n) /\ c = first + d + 1 BY <1>8, <2>1
  <2>3. PICK z \in Nat : at(z) <= d /\ d < at(z + 1)
    <3>1. /\ d \div BLOCK \in Int /\ BLOCK * (d \div BLOCK) <= d
          /\ d < BLOCK * ((d \div BLOCK) + 1)
      OBVIOUS
    <3>2. d \div BLOCK \in Nat
      <4> SUFFICES ASSUME (d \div BLOCK) + 1 <= 0 PROVE FALSE
        BY <3>1
      <4>1. PICK w \in Int : w = (d \div BLOCK) + 1 BY <3>1
      <4>2. BLOCK * w <= 0 BY <4>1
      <4> QED BY <3>1, <4>1, <4>2
    <3> QED BY <3>1, <3>2 DEF at
  <2>4. z + 1 \in 1..n
    <3> SUFFICES ASSUME n <= z PROVE FALSE
      BY <1>3, <2>3
    <3>1. at(n) <= at(z) /\ at(n) \in Nat /\ at(z) \in Nat BY <1>3, <1>5, <2>3
    <3> QED BY <1>8, <2>2, <2>3, <3>1
  <2>5. z + 1 \in 1..q /\ (z + 1) - 1 = z BY <1>3, <2>3, <2>4
  <2>6. d < upTo(z + 1)
    <3>1. CASE z + 1 = q
      <4>1. z + 1 = n BY <1>3, <2>4, <3>1
      <4> QED BY <2>2, <4>1
    <3>2. CASE z + 1 # q
      BY <1>9, <2>3, <2>5, <3>2
    <3> QED BY <3>1, <3>2
  <2>7. upTo(z + 1) \in Nat /\ at(z) \in Nat BY <1>5, <1>6, <2>3, <2>5
  <2>8. c \in (first + at((z + 1) - 1) + 1)..(first + upTo(z + 1))
    BY <2>2, <2>3, <2>5, <2>6, <2>7
  <2> QED BY <1>4, <1>13, <2>4, <2>8 DEF InRow
<1>16. InRow(p) = (first + 1)..(first + upTo(n))
  <2>1. InRow(p) \subseteq (first + 1)..(first + upTo(n)) BY <1>4, <1>14 DEF InRow
  <2> QED BY <1>15, <2>1
<1>17. n < q => upTo(n) \in 0..(len - 1)
  <2> SUFFICES ASSUME n < q PROVE upTo(n) < len
    BY <1>8
  <2>1. q \in 1..q /\ n <= q - 1 /\ q - 1 \in Nat /\ n \in Nat BY <1>1, <1>3
  <2>2. at(n) <= at(q - 1) /\ at(n) \in Nat /\ at(q - 1) \in Nat BY <1>5, <2>1
  <2>3. /\ L[q] \in Block /\ Run(L[q]) /\ L[q][1] = first + at(q - 1) + 1
        /\ Last(L[q]) = first + len
    BY <1>6, <1>10, <2>1
  <2>4. L[q][1] <= Last(L[q]) BY <2>3, RunBytes
  <2> QED BY <1>8, <2>2, <2>3, <2>4
<1> QED BY <1>1, <1>4, <1>10, <1>11, <1>12, <1>16, <1>17

(* Send adds a beginning of its message to the channel, but for the blocks *)
(* that get no node; an empty channel gets the first byte.                 *)
LEMMA StreamSendAppend ==
  ASSUME IInv, RowInv, NEW t \in Threads, SendAppend(t)
  PROVE  RowInv' /\ Stream!StreamNext
<1>1. TypeOK /\ FrontFirst /\ given \in Nat /\ Pending \in Seq(Block)
  BY PendingType DEF IInv, TypeOK
<1>2. UNCHANGED <<wire, IsOpen, reports>> BY DEF SendAppend, IsOpen
<1>3. PICK len \in Lengths :
        /\ given' = given + len
        /\ \E got \in 0..Len(Blocks(given, len)) :
             LET allocated == SubSeq(Blocks(given, len), 1, got) IN
             /\ \E p \in Joining(allocated) :
                  AddBuffer(p) /\ lost' = lost \cup (InRow(allocated) \ InRow(p))
             /\ refused' = refused \cup ((given + 1)..(given + len) \ InRow(allocated))
             /\ m_pBlockSending # << >> /\ IsQueueFulled => got = 0
  BY <1>1, SendAppendParts
<1>4. len \in Nat \ {0} OBVIOUS
<1>5. PICK blocks \in Seq(Block) : blocks = Blocks(given, len) /\ Len(blocks) \in Nat \ {0}
  BY <1>1, <1>4, BlocksFacts
<1>6. PICK got \in 0..Len(blocks) :
        /\ \E p \in Joining(SubSeq(blocks, 1, got)) :
             /\ AddBuffer(p)
             /\ lost' = lost \cup (InRow(SubSeq(blocks, 1, got)) \ InRow(p))
        /\ refused' = refused \cup ((given + 1)..(given + len) \ InRow(SubSeq(blocks, 1, got)))
  BY <1>3, <1>5
<1>7. PICK allocated \in Seq(Block), held \in Nat :
        /\ allocated = SubSeq(blocks, 1, got)
        /\ held = (IF got = Len(blocks) THEN len ELSE got * BLOCK)
        /\ Runs(allocated) /\ Ascends(allocated) /\ Within(given, given + len, allocated)
        /\ InRow(allocated) = (given + 1)..(given + held)
        /\ got # Len(blocks) => held \in 0..(len - 1)
  <2>1. LET q == SubSeq(Blocks(given, len), 1, got)
            held == IF got = Len(Blocks(given, len)) THEN len ELSE got * BLOCK
        IN  /\ q \in Seq(Block) /\ Runs(q) /\ Ascends(q) /\ Within(given, given + len, q)
            /\ InRow(q) = (given + 1)..(given + held)
            /\ got < Len(Blocks(given, len)) => held \in 0..(len - 1)
    <3>1. got \in 0..Len(Blocks(given, len)) BY <1>5
    <3> QED BY <1>1, <1>4, <3>1, BlocksRow
  <2>2. got # Len(blocks) => got < Len(blocks) BY <1>5
  <2>3. (IF got = Len(blocks) THEN len ELSE got * BLOCK) \in Nat BY <1>4, <1>5
  <2> QED BY <1>5, <2>1, <2>2, <2>3
<1>8. PICK p \in Joining(allocated) :
        AddBuffer(p) /\ lost' = lost \cup (InRow(allocated) \ InRow(p))
  BY <1>6, <1>7
<1>9. /\ p \in Seq(Block)
      /\ m_pBlockSending = << >> /\ allocated # << >> => p # << >> /\ p[1] = allocated[1]
      /\ \E f \in Picks(Len(allocated)) : p = [k \in DOMAIN f |-> allocated[f[k]]]
  BY <1>7, JoiningFacts
<1>10. /\ Runs(p) /\ Ascends(p) /\ Within(given, given + len, p)
       /\ InRow(p) \subseteq InRow(allocated)
  <2>1. PICK x \in Nat, y \in Nat : x = given /\ y = given + len BY <1>1, <1>4
  <2>2. PICK f \in Picks(Len(allocated)) : p = [k \in DOMAIN f |-> allocated[f[k]]] BY <1>9
  <2>3. Runs(allocated) /\ Ascends(allocated) /\ Within(x, y, allocated) BY <1>7, <2>1
  <2>4. p \in Seq(Block) BY <1>9
  <2>5. /\ Runs(p) /\ Ascends(p) /\ Within(x, y, p)
        /\ InRow(p) \subseteq InRow(allocated)
    BY <2>2, <2>3, <2>4, PickRow
  <2> QED BY <2>1, <2>5
<1>11. Runs(Pending \o p) /\ Ascends(Pending \o p) /\ Within(0, given + len, Pending \o p)
  <2>1. PICK x \in Nat, y \in Nat : x = given /\ y = given + len /\ x <= y BY <1>1, <1>4
  <2>2. /\ Runs(Pending) /\ Ascends(Pending) /\ Within(0, x, Pending)
        /\ Runs(p) /\ Ascends(p) /\ Within(x, y, p)
    BY <1>10, <2>1 DEF RowInv
  <2>3. PICK row \in Seq(Block) : row = Pending BY <1>1
  <2>4. Runs(row \o p) /\ Ascends(row \o p) /\ Within(0, y, row \o p)
    BY <1>9, <2>1, <2>2, <2>3, RowConcat
  <2> QED BY <2>1, <2>3, <2>4
<1>12. Pending' = Pending \o p /\ given' = given + len
  BY <1>1, <1>3, <1>8, <1>9, AddBufferPending
<1>13. RowInv' BY <1>11, <1>12 DEF RowInv
<1> DEFINE holes == InRow(allocated) \ InRow(p)
<1>14. Unsent' = Unsent \cup ((given + 1)..(given + held) \ holes)
  <2>1. InRow(Pending \o p) = InRow(Pending) \cup InRow(p) BY <1>1, <1>9, InRowConcat
  <2>2. InRow(p) = (given + 1)..(given + held) \ holes BY <1>7, <1>10
  <2> QED BY <1>12, <2>1, <2>2 DEF Unsent
<1>15. held \in 0..len BY <1>4, <1>7
<1>16. refused' = refused \cup ((given + held + 1)..(given + len))
  <2>1. (given + 1)..(given + len) \ ((given + 1)..(given + held)) =
          (given + held + 1)..(given + len)
    BY <1>1, <1>4, <1>15
  <2> QED BY <1>6, <1>7, <2>1
<1>17. Unsent = {} => given + 1 \notin holes
  <2> SUFFICES ASSUME Unsent = {}, given + 1 \in InRow(allocated)
               PROVE  given + 1 \in InRow(p)
    OBVIOUS
  <2>1. m_pBlockSending = << >>
    <3> SUFFICES ASSUME m_pBlockSending # << >> PROVE FALSE
      OBVIOUS
    <3>1. PICK row \in Seq(Block) : row = Pending /\ row # << >> BY <1>1, PendingType
    <3>2. 1 \in 1..Len(row) /\ row[1] \in Block BY <3>1
    <3>3. row[1][1] \in InBlock(row[1]) BY <3>2 DEF InBlock, Block
    <3> QED BY <3>1, <3>2, <3>3 DEF Unsent, InRow
  <2>2. got # 0
    <3>1. ASSUME got = 0 PROVE (given + 1)..(given + held) = {}
      <4>1. held = 0 BY <1>4, <1>5, <1>7, <3>1
      <4> QED BY <1>1, <4>1
    <3> QED BY <1>7, <3>1
  <2>3. allocated # << >> /\ allocated[1] = blocks[1]
    <3>1. Len(SubSeq(blocks, 1, got)) = got /\ SubSeq(blocks, 1, got)[1] = blocks[1]
      BY <1>5, <2>2
    <3> QED BY <1>7, <2>2, <3>1
  <2>4. blocks[1][1] = given + 1
    <3>1. LET K == Blocks(given, len) IN
          /\ K \in Seq(Block) /\ Len(K) \in Nat \ {0} /\ len <= BLOCK * Len(K)
          /\ \A b \in 1..Len(K) :
               /\ Run(K[b]) /\ K[b][1] = given + (b - 1) * BLOCK + 1
               /\ Last(K[b]) = given + (IF b = Len(K) THEN len ELSE b * BLOCK)
               /\ Last(K[b]) <= given + len
      BY <1>1, <1>4, BlocksAt
    <3>2. \A b \in 1..Len(blocks) : blocks[b][1] = given + (b - 1) * BLOCK + 1
      BY <1>5, <3>1
    <3>3. 1 \in 1..Len(blocks) BY <1>5
    <3>4. blocks[1][1] = given + (1 - 1) * BLOCK + 1 BY <3>2, <3>3
    <3> QED BY <1>1, <3>4
  <2>5. p # << >> /\ p[1] = blocks[1] BY <1>9, <2>1, <2>3
  <2>6. 1 \in 1..Len(p) /\ p[1] \in Block
    <3>1. p \in Seq(Block) BY <1>9
    <3>2. p # << >> BY <2>5
    <3> QED BY <3>1, <3>2
  <2>7. p[1][1] \in InBlock(p[1])
    <3>1. PICK b \in Block : b = p[1] BY <2>6
    <3>2. 1 \in 1..Len(b) BY DEF Block
    <3> QED BY <3>1, <3>2 DEF InBlock
  <2>8. InBlock(p[1]) \subseteq InRow(p) BY <2>6 DEF InRow
  <2>9. p[1][1] = given + 1
    <3>1. p[1] = blocks[1] BY <2>5
    <3> QED BY <2>4, <3>1
  <2> QED BY <2>7, <2>8, <2>9
<1>18. holes \in SUBSET ((given + 1)..(given + held)) BY <1>7
<1>19. lost' = lost \cup holes BY <1>8
<1> HIDE DEF holes
<1>20. Stream!Give(len)
  BY <1>2, <1>12, <1>14, <1>15, <1>16, <1>17, <1>18, <1>19 DEF Stream!Give
<1> QED BY <1>13, <1>20 DEF Stream!StreamNext

(* A completed write takes the lowest bytes of the channel. *)
LEMMA StreamWriteDone ==
  ASSUME IInv, RowInv, WriteDone
  PROVE  RowInv' /\ Stream!StreamNext
<1>1. /\ Pending \in Seq(Block) /\ Pending # << >>
      /\ wire' = wire \o Head(Pending) /\ Pending' = Tail(Pending)
      /\ UNCHANGED <<refused, lost, given>>
  BY WriteDoneMoves
<1>2. UNCHANGED <<IsOpen, reports>> BY DEF WriteDone, IsOpen
<1>3. given \in Nat BY DEF IInv, TypeOK
<1>4. PICK row \in Seq(Block) : row = Pending /\ row # << >> BY <1>1
<1>5. /\ Runs(Tail(row)) /\ Ascends(Tail(row)) /\ Within(0, given, Tail(row))
      /\ Head(row) \in Block /\ Run(Head(row))
      /\ InRow(row) = InBlock(Head(row)) \cup InRow(Tail(row))
      /\ \A c \in InRow(Tail(row)) : Last(Head(row)) < c
  <2>1. Runs(row) /\ Ascends(row) /\ Within(0, given, row) BY <1>4 DEF RowInv
  <2> QED BY <1>3, <1>4, <2>1, RowTail
<1>6. RowInv' BY <1>1, <1>4, <1>5 DEF RowInv
<1>7. PICK b \in Block : b = Head(row) BY <1>5
<1>8. PICK x \in Nat, y \in Nat :
        /\ x = b[1] /\ y = Last(b) /\ x <= y
        /\ InBlock(b) = x..y /\ b = [i \in 1..(y - x + 1) |-> x + i - 1]
  <2>1. Run(b) BY <1>5, <1>7
  <2>2. /\ b[1] \in Nat /\ Last(b) \in Nat /\ b[1] <= Last(b)
        /\ InBlock(b) = b[1]..Last(b)
        /\ b = [i \in 1..(Last(b) - b[1] + 1) |-> b[1] + i - 1]
    BY <2>1, RunBytes DEF Bytes
  <2> QED BY <2>2, Zenon
<1>9. /\ Unsent = (x..y) \cup Unsent' /\ \A c \in Unsent' : y < c
  BY <1>1, <1>4, <1>5, <1>7, <1>8 DEF Unsent
<1>10. x \in Unsent /\ y \in Unsent /\ x..y \subseteq Unsent
  <2>1. x \in x..y /\ y \in x..y
    <3>1. x <= y BY <1>8
    <3> QED BY <3>1
  <2> QED BY <1>9, <2>1
<1>11. Unsent' = Unsent \ (x..y)
  <2>1. \A c \in x..y : ~(y < c) BY <1>8
  <2> QED BY <1>9, <2>1
<1>12. wire' = wire \o [i \in 1..(y - x + 1) |-> x + i - 1] BY <1>1, <1>4, <1>7, <1>8
<1>13. \A c \in Unsent \ (x..y) : y < c BY <1>9
<1>14. Stream!Leave(x, y)
  BY <1>1, <1>2, <1>8, <1>10, <1>11, <1>12, <1>13 DEF Stream!Leave
<1> QED BY <1>6, <1>10, <1>14 DEF Stream!StreamNext

(* What an action that moves no bytes keeps. *)
LEMMA StreamAside ==
  ASSUME RowInv, UNCHANGED <<m_pBlockSending, m_queueSnd, given>>
  PROVE  RowInv' /\ Unsent' = Unsent
<1>1. Pending' = Pending BY DEF Pending
<1> QED BY <1>1 DEF RowInv, Unsent

LEMMA StreamEnds ==
  ASSUME IInv, RowInv, EndedFirst, NEW t \in Threads,
         SafeClose(t) \/ Close(t) \/ Reset(t) \/ Report(t)
  PROVE  RowInv' /\ (Stream!StreamNext \/ UNCHANGED Stream!streamVars)
<1>1. UNCHANGED <<m_pBlockSending, m_queueSnd, wire, given, refused, lost>>
  BY DEF SafeClose, Close, Reset, Report, buffer, ghosts
<1>2. RowInv' /\ Unsent' = Unsent BY <1>1, StreamAside
<1>3. CASE reports' = reports /\ IsOpen' = IsOpen
  BY <1>1, <1>2, <1>3 DEF Stream!streamVars
<1>4. CASE reports' = reports /\ IsOpen /\ IsOpen' = FALSE
  <2>1. Stream!End BY <1>1, <1>2, <1>4 DEF Stream!End
  <2> QED BY <1>2, <2>1 DEF Stream!StreamNext
<1>5. CASE reports' = reports + 1 /\ ~IsOpen /\ IsOpen' = IsOpen
  <2>1. Stream!Report BY <1>1, <1>2, <1>5 DEF Stream!Report
  <2> QED BY <1>2, <2>1 DEF Stream!StreamNext
<1>6. CASE SafeClose(t) \/ Close(t)
  BY <1>3, <1>4, <1>6 DEF SafeClose, Close, IsOpen
<1>7. CASE Reset(t)
  BY <1>3, <1>7 DEF Reset, IsOpen, EndedFirst
<1>8. CASE Report(t)
  BY <1>5, <1>8 DEF Report, IsOpen, EndedFirst
<1> QED BY <1>6, <1>7, <1>8

LEMMA StreamStep ==
  IInv /\ RowInv /\ EndedFirst /\ [Next]_vars =>
    RowInv' /\ [Stream!StreamNext]_(Stream!streamVars)
<1> SUFFICES ASSUME IInv, RowInv, EndedFirst, [Next]_vars
             PROVE  RowInv' /\ (Stream!StreamNext \/ UNCHANGED Stream!streamVars)
  OBVIOUS
<1>1. ASSUME NEW t \in Threads, SendAppend(t) PROVE RowInv' /\ Stream!StreamNext
  BY <1>1, StreamSendAppend
<1>2. CASE WriteDone
  BY <1>2, StreamWriteDone
<1>3. ASSUME NEW t \in Threads, SafeClose(t) \/ Close(t) \/ Reset(t) \/ Report(t)
      PROVE  RowInv' /\ (Stream!StreamNext \/ UNCHANGED Stream!streamVars)
  BY <1>3, StreamEnds
<1>4. CASE \/ \E t \in Threads : SendTest(t) \/ DoSendTest(t) \/ DoSendStart(t)
           \/ IoStep \/ WriteFailed \/ ReadDone \/ ReadFailed \/ IoThrows
           \/ UNCHANGED vars
  <2>1. UNCHANGED <<m_pBlockSending, m_queueSnd, wire, given, refused, lost, m_Socket, reports>>
    BY <1>4 DEF SendTest, DoSendTest, DoSendStart, IoStep, ClearSending, DoRead,
       WriteFailed, ReadDone, ReadFailed, IoThrows, vars, buffer, ghosts
  <2>2. RowInv' /\ Unsent' = Unsent BY <2>1, StreamAside
  <2> QED BY <2>1, <2>2 DEF Stream!streamVars, IsOpen
<1> QED BY <1>1, <1>2, <1>3, <1>4 DEF Next, ThreadStep

LEMMA EndedNext == IInv /\ EndedFirst /\ [Next]_vars => EndedFirst'
<1> SUFFICES ASSUME IInv, EndedFirst, [Next]_vars, NEW u \in Threads,
                    pc'[u] \in {"report", "closed"}
             PROVE  m_Socket' # "open"
  BY DEF EndedFirst
<1>1. pc \in [Threads -> Locations] /\ Io \in Threads BY DEF IInv, TypeOK
<1>2. pc[u] \in {"report", "closed"} => m_Socket # "open" BY DEF EndedFirst
<1>3. ASSUME NEW t \in Threads, SafeClose(t) \/ Close(t) \/ Reset(t) \/ Report(t)
      PROVE  m_Socket' # "open"
  BY <1>3 DEF SafeClose, Close, Reset, Report
<1>4. ASSUME NEW t \in Threads, SendTest(t) \/ SendAppend(t) \/ DoSendTest(t) \/ DoSendStart(t)
      PROVE  m_Socket' # "open"
  <2>1. m_Socket' = m_Socket /\ (\E l \in Locations \ {"report", "closed"} : Goto(t, l))
    BY <1>4 DEF SendTest, SendAppend, DoSendTest, DoSendStart, Locations
  <2> QED BY <1>1, <1>2, <2>1 DEF Goto
<1>5. CASE IoStep \/ WriteDone \/ WriteFailed \/ ReadDone \/ ReadFailed
  <2>1. m_Socket' = m_Socket /\ (\E l \in Locations \ {"report", "closed"} : Goto(Io, l))
    BY <1>5 DEF IoStep, ClearSending, DoRead, WriteDone, WriteFailed, ReadDone, ReadFailed,
       Locations
  <2> QED BY <1>1, <1>2, <2>1 DEF Goto
<1>6. CASE IoThrows \/ UNCHANGED vars
  BY <1>2, <1>6 DEF IoThrows, vars
<1> QED BY <1>3, <1>4, <1>5, <1>6 DEF Next, ThreadStep

LEMMA InitStream == Init => RowInv /\ EndedFirst /\ Stream!StreamInit
<1> SUFFICES ASSUME Init PROVE RowInv /\ EndedFirst /\ Stream!StreamInit
  OBVIOUS
<1>1. Pending = << >> BY DEF Init, Pending
<1>2. RowInv BY <1>1 DEF RowInv, Runs, Ascends, Within
<1>3. Unsent = {} BY <1>1 DEF Unsent, InRow
<1>4. EndedFirst BY DEF Init, EndedFirst
<1> QED BY <1>2, <1>3, <1>4 DEF Init, IsOpen, Stream!StreamInit

(* However the threads' tests, the lock and the completions fall, and      *)
(* whatever the block size and the heap do, a connection is one first in,  *)
(* first out channel of bytes, which takes a message but for an end that   *)
(* it refuses and blocks that it loses, never the byte it sends next, and  *)
(* reports its end only after it has ended.                                *)
THEOREM ConnectionIsStream == Spec => ImplementsStream
<1>1. Init => RowInv /\ EndedFirst /\ Stream!StreamInit BY InitStream
<1> QED BY <1>1, StreamStep, EndedNext, InvariantHolds, PTL
        DEF Spec, ImplementsStream, Stream!StreamSpec

----------------------------------------------------------------------------
(* What holds of every byte.  Each step of the abstract stream keeps it.   *)
LEMMA StreamFaithful ==
  ASSUME TypeOK, WireFaithful, Stream!StreamNext
  PROVE  WireFaithful'
<1>1. /\ given \in Nat /\ wire \in Seq(Bytes) BY DEF TypeOK
<1>2. PICK n \in Nat : n = Len(wire) BY <1>1
<1>3. /\ \A i, j \in 1..n : i < j => wire[i] < wire[j]
      /\ \A i \in 1..n, c \in Unsent : wire[i] < c
      /\ InBlock(wire) \cup Unsent \cup refused \cup lost = 1..given
      /\ (InBlock(wire) \cup Unsent) \cap (refused \cup lost) = {}
  BY <1>2 DEF WireFaithful
<1>4. \A i \in 1..n : wire[i] \in 1..given BY <1>2, <1>3 DEF InBlock
<1>5. ASSUME NEW len \in Lengths, Stream!Give(len) PROVE WireFaithful'
  <2>1. PICK kept \in 0..len : \E holes \in SUBSET ((given + 1)..(given + kept)) :
          /\ Unsent' = Unsent \cup ((given + 1)..(given + kept) \ holes)
          /\ lost' = lost \cup holes
          /\ refused' = refused \cup ((given + kept + 1)..(given + len))
    BY <1>5 DEF Stream!Give
  <2>2. PICK holes \in SUBSET ((given + 1)..(given + kept)) :
          /\ Unsent' = Unsent \cup ((given + 1)..(given + kept) \ holes)
          /\ lost' = lost \cup holes
          /\ refused' = refused \cup ((given + kept + 1)..(given + len))
    BY <2>1
  <2>3. given' = given + len /\ wire' = wire BY <1>5 DEF Stream!Give
  <2>4. len \in Nat OBVIOUS
  <2>5. PICK took, turned, W, G :
          /\ took = (given + 1)..(given + kept) /\ turned = (given + kept + 1)..(given + len)
          /\ W = InBlock(wire) /\ G = 1..given
    OBVIOUS
  <2>6. /\ 1..(given + len) = G \cup took \cup turned
        /\ G \cap took = {} /\ G \cap turned = {} /\ took \cap turned = {}
    BY <1>1, <2>4, <2>5
  <2>7. /\ Unsent' = Unsent \cup (took \ holes) /\ lost' = lost \cup holes
        /\ refused' = refused \cup turned /\ holes \subseteq took
        /\ W \cup Unsent \cup refused \cup lost = G
        /\ (W \cup Unsent) \cap (refused \cup lost) = {}
    BY <1>3, <2>2, <2>5
  <2>8. W \cup Unsent' \cup refused' \cup lost' = 1..(given + len) BY <2>6, <2>7
  <2>9. (W \cup Unsent') \cap (refused' \cup lost') = {} BY <2>6, <2>7
  <2>10. \A i \in 1..n, c \in Unsent' : wire[i] < c
    <3>1. \A i \in 1..n, c \in took : wire[i] < c BY <1>1, <1>4, <2>5
    <3> QED BY <1>3, <2>7, <3>1
  <2>11. InBlock(wire') = W /\ Len(wire') = n BY <1>2, <2>3, <2>5
  <2> QED BY <1>3, <2>3, <2>8, <2>9, <2>10, <2>11 DEF WireFaithful
<1>6. ASSUME NEW a \in Unsent, NEW b \in Unsent, Stream!Leave(a, b) PROVE WireFaithful'
  <2>1. /\ a <= b /\ a..b \subseteq Unsent
        /\ \A c \in Unsent \ (a..b) : b < c
        /\ wire' = wire \o [i \in 1..(b - a + 1) |-> a + i - 1]
        /\ Unsent' = Unsent \ (a..b)
        /\ UNCHANGED <<given, refused, lost>>
    BY <1>6 DEF Stream!Leave
  <2>2. a \in Bytes /\ b \in Bytes BY <1>1, <1>3 DEF Bytes
  <2>3. PICK run \in Seq(Bytes), m \in Nat :
          /\ run = [i \in 1..(b - a + 1) |-> a + i - 1] /\ Len(run) = m /\ m = b - a + 1
          /\ \A i \in 1..m : run[i] = a + i - 1
    <3>1. PICK m \in Nat : m = b - a + 1 BY <2>1, <2>2 DEF Bytes
    <3>2. \A i \in 1..m : a + i - 1 \in Bytes BY <2>2 DEF Bytes
    <3>3. PICK run : run = [i \in 1..m |-> a + i - 1] OBVIOUS
    <3>4. run \in Seq(Bytes) /\ Len(run) = m /\ \A i \in 1..m : run[i] = a + i - 1
      BY <3>2, <3>3
    <3> QED BY <3>1, <3>3, <3>4
  <2>4. /\ Len(wire') = n + m
        /\ \A i \in 1..(n + m) : wire'[i] = IF i <= n THEN wire[i] ELSE run[i - n]
    <3>1. PICK w \in Seq(Bytes) : w = wire /\ Len(w) = n BY <1>1, <1>2
    <3>2. wire' = w \o run BY <2>1, <2>3, <3>1
    <3>3. /\ Len(w \o run) = Len(w) + Len(run)
          /\ \A i \in 1..(Len(w) + Len(run)) :
               (w \o run)[i] = IF i <= Len(w) THEN w[i] ELSE run[i - Len(w)]
      BY ConcatProperties
    <3> QED BY <2>3, <3>1, <3>2, <3>3
  <2>5. \A i \in 1..(n + m) :
          IF i <= n THEN wire'[i] = wire[i] ELSE wire'[i] = a + (i - n) - 1
    <3> SUFFICES ASSUME NEW i \in 1..(n + m), ~(i <= n)
                 PROVE  wire'[i] = a + (i - n) - 1
      BY <2>4
    <3>1. i - n \in 1..m BY <1>2, <2>3
    <3>2. run[i - n] = a + (i - n) - 1 BY <2>3, <3>1
    <3> QED BY <2>4, <3>2
  <2>6. \A i, j \in 1..(n + m) : i < j => wire'[i] < wire'[j]
    <3> SUFFICES ASSUME NEW i \in 1..(n + m), NEW j \in 1..(n + m), i < j
                 PROVE  wire'[i] < wire'[j]
      OBVIOUS
    <3>1. CASE j <= n
      BY <1>3, <2>5, <3>1
    <3>2. CASE i <= n /\ ~(j <= n)
      <4>1. wire'[i] = wire[i] /\ wire[i] < a /\ wire[i] \in Nat BY <1>1, <1>3, <1>4, <2>5, <3>2
      <4>2. wire'[j] = a + (j - n) - 1 /\ j - n >= 1 BY <2>5, <3>2
      <4> QED BY <2>2, <4>1, <4>2 DEF Bytes
    <3>3. CASE ~(i <= n)
      <4>1. wire'[i] = a + (i - n) - 1 /\ wire'[j] = a + (j - n) - 1 BY <2>5, <3>3
      <4> QED BY <2>2, <4>1 DEF Bytes
    <3> QED BY <3>1, <3>2, <3>3
  <2>7. ASSUME NEW i \in 1..(n + m), NEW c \in Unsent' PROVE wire'[i] < c
    <3>1. c \in Unsent /\ b < c /\ c \in Nat BY <1>1, <1>3, <2>1
    <3>2. CASE i <= n
      BY <1>3, <2>5, <3>1, <3>2
    <3>3. CASE ~(i <= n)
      <4>1. wire'[i] = a + (i - n) - 1 /\ i - n <= m BY <2>5, <3>3
      <4> QED BY <2>2, <2>3, <3>1, <4>1 DEF Bytes
    <3> QED BY <3>2, <3>3
  <2>8. InBlock(wire') = InBlock(wire) \cup (a..b)
    <3>1. InBlock(wire') = {wire'[i] : i \in 1..(n + m)} BY <2>4 DEF InBlock
    <3>2. InBlock(wire) = {wire[i] : i \in 1..n} BY <1>2 DEF InBlock
    <3>3. ASSUME NEW i \in 1..(n + m) PROVE wire'[i] \in InBlock(wire) \cup (a..b)
      <4>1. CASE i <= n
        BY <2>5, <3>2, <4>1
      <4>2. CASE ~(i <= n)
        <5>1. wire'[i] = a + (i - n) - 1 /\ i - n >= 1 /\ i - n <= m BY <2>5, <4>2
        <5> QED BY <2>2, <2>3, <5>1 DEF Bytes
      <4> QED BY <4>1, <4>2
    <3>4. ASSUME NEW i \in 1..n PROVE wire[i] \in InBlock(wire')
      <4>1. i \in 1..(n + m) /\ wire'[i] = wire[i] BY <2>5
      <4> QED BY <3>1, <4>1
    <3>5. ASSUME NEW c \in a..b PROVE c \in InBlock(wire')
      <4>1. PICK i \in Nat : i = n + (c - a + 1) BY <2>2 DEF Bytes
      <4>2. i \in 1..(n + m) /\ ~(i <= n) /\ a + (i - n) - 1 = c
        BY <2>2, <2>3, <4>1 DEF Bytes
      <4>3. wire'[i] = c BY <2>5, <4>2
      <4> QED BY <3>1, <4>2, <4>3
    <3> QED BY <3>1, <3>2, <3>3, <3>4, <3>5
  <2>9. InBlock(wire') \cup Unsent' = InBlock(wire) \cup Unsent BY <2>1, <2>8
  <2>10. InBlock(wire') \cup Unsent' \cup refused' \cup lost' = 1..given' BY <1>3, <2>1, <2>9
  <2>11. (InBlock(wire') \cup Unsent') \cap (refused' \cup lost') = {} BY <1>3, <2>1, <2>9
  <2> QED BY <2>4, <2>6, <2>7, <2>10, <2>11 DEF WireFaithful
<1>7. CASE Stream!End \/ Stream!Report
  <2>1. UNCHANGED <<given, Unsent, wire, refused, lost>>
    BY <1>7 DEF Stream!End, Stream!Report
  <2> QED BY <1>3, <2>1 DEF WireFaithful, InBlock
<1> QED BY <1>5, <1>6, <1>7 DEF Stream!StreamNext

(* The peer gets the bytes in the order in which they were given to Send,  *)
(* none twice, whichever threads send and however the blocks are cut; and  *)
(* every byte given has left, is in the buffer, was refused, or was in a   *)
(* block that got no node.                                                 *)
THEOREM BytesInOrder == Spec => []WireFaithful
<1>1. Init => RowInv /\ EndedFirst /\ WireFaithful
  <2> SUFFICES ASSUME Init PROVE RowInv /\ EndedFirst /\ WireFaithful
    OBVIOUS
  <2>1. RowInv /\ EndedFirst /\ Unsent = {} BY InitStream DEF Stream!StreamInit
  <2>2. wire = << >> /\ given = 0 /\ refused = {} /\ lost = {} BY DEF Init
  <2>3. InBlock(wire) = {} BY <2>2 DEF InBlock
  <2> QED BY <2>1, <2>2, <2>3 DEF WireFaithful
<1>2. IInv /\ RowInv /\ EndedFirst /\ WireFaithful /\ [Next]_vars => WireFaithful'
  <2> SUFFICES ASSUME IInv, RowInv, EndedFirst, WireFaithful, [Next]_vars
               PROVE  WireFaithful'
    OBVIOUS
  <2>1. CASE Stream!StreamNext BY <2>1, StreamFaithful DEF IInv
  <2>2. CASE UNCHANGED Stream!streamVars
    BY <2>2 DEF Stream!streamVars, WireFaithful, InBlock
  <2> QED BY <2>1, <2>2, StreamStep
<1>3. IInv /\ RowInv /\ EndedFirst /\ [Next]_vars => RowInv' BY StreamStep
<1> QED BY <1>1, <1>2, <1>3, EndedNext, InvariantHolds, PTL DEF Spec

----------------------------------------------------------------------------
(* How far the queue grows. *)
LEMMA BlocksLen ==
  ASSUME NEW first \in Nat, NEW len \in Nat \ {0}
  PROVE  Len(Blocks(first, len)) = Len(Blocks(0, len))
<1>1. PICK q \in Nat : q = (len + BLOCK - 1) \div BLOCK BY BlockCount
<1> QED BY <1>1 DEF Blocks

LEMMA QueueSendAppend ==
  ASSUME IInv, QueueBounded, NEW t \in Threads, SendAppend(t)
  PROVE  QueueBounded'
<1> SUFFICES ASSUME m_nQueueLenMax > 0
             PROVE  \/ Len(m_queueSnd') <= m_nQueueLenMax
                    \/ \E len \in Lengths :
                         Len(m_queueSnd') <= m_nQueueLenMax + Len(Blocks(0, len))
  BY DEF QueueBounded
<1>1. TypeOK /\ FrontFirst /\ given \in Nat /\ m_queueSnd \in Seq(Block) BY DEF IInv, TypeOK
<1>2. PICK len \in Lengths :
        \E got \in 0..Len(Blocks(given, len)) :
          /\ \E p \in Joining(SubSeq(Blocks(given, len), 1, got)) : AddBuffer(p)
          /\ m_pBlockSending # << >> /\ IsQueueFulled => got = 0
  BY <1>1, SendAppendParts
<1>3. PICK blocks \in Seq(Block) :
        blocks = Blocks(given, len) /\ Len(blocks) = Len(Blocks(0, len))
  BY <1>1, BlocksFacts, BlocksLen
<1>4. PICK got \in 0..Len(blocks) :
        /\ \E p \in Joining(SubSeq(blocks, 1, got)) : AddBuffer(p)
        /\ m_pBlockSending # << >> /\ IsQueueFulled => got = 0
  BY <1>2, <1>3
<1>5. PICK allocated \in Seq(Block) :
        allocated = SubSeq(blocks, 1, got) /\ Len(allocated) = got
  <2>1. SubSeq(blocks, 1, got) \in Seq(Block) BY SomeBlocks
  <2>2. Len(SubSeq(blocks, 1, got)) = got OBVIOUS
  <2> QED BY <2>1, <2>2
<1>6. PICK p \in Joining(allocated) : AddBuffer(p) BY <1>4, <1>5
<1>7. p \in Seq(Block) /\ Len(p) <= got
  <2>1. p \in Seq(Block) /\ Len(p) <= Len(allocated) BY JoiningFacts
  <2> QED BY <1>5, <2>1
<1>8. Len(m_queueSnd') <= Len(m_queueSnd) + Len(p) /\ m_queueSnd' \in Seq(Block)
  BY <1>1, <1>6, <1>7, AddBufferFacts
<1>9. PICK before \in Nat, after \in Nat, more \in Nat, limit \in Nat :
        /\ before = Len(m_queueSnd) /\ after = Len(m_queueSnd') /\ more = Len(blocks)
        /\ limit = m_nQueueLenMax
  <2>1. Len(m_queueSnd) \in Nat /\ Len(m_queueSnd') \in Nat /\ Len(blocks) \in Nat
    BY <1>1, <1>8
  <2> QED BY <2>1
<1>10. after <= before + got /\ got <= more BY <1>7, <1>8, <1>9
<1>11. CASE m_pBlockSending # << >> /\ before > limit
  <2>1. got = 0 BY <1>4, <1>9, <1>11 DEF IsQueueFulled
  <2>2. after <= before BY <1>10, <2>1
  <2>3. PICK l \in Lengths : before <= limit + Len(Blocks(0, l))
    BY <1>9, <1>11 DEF QueueBounded
  <2>4. Len(Blocks(0, l)) \in Nat BY BlocksFacts
  <2>5. after <= limit + Len(Blocks(0, l)) BY <2>2, <2>3, <2>4
  <2> QED BY <1>9, <2>5
<1>12. CASE before <= limit
  <2>1. after <= limit + more BY <1>10, <1>12
  <2> QED BY <1>3, <1>9, <2>1
<1>13. CASE m_pBlockSending = << >>
  <2>1. before = 0 BY <1>1, <1>9, <1>13 DEF FrontFirst
  <2> QED BY <1>12, <2>1
<1> QED BY <1>11, <1>12, <1>13

(* With a limit set, however many threads send, the queue never holds more *)
(* than the limit and one message's blocks: the test and the blocks that   *)
(* follow it are under one lock.                                           *)
THEOREM QueueStaysBounded == Spec => []QueueBounded
<1>1. Init => QueueBounded BY DEF Init, QueueBounded
<1>2. IInv /\ QueueBounded /\ [Next]_vars => QueueBounded'
  <2> SUFFICES ASSUME IInv, QueueBounded, [Next]_vars PROVE QueueBounded'
    OBVIOUS
  <2>1. ASSUME NEW t \in Threads, SendAppend(t) PROVE QueueBounded'
    BY <2>1, QueueSendAppend
  <2>2. CASE WriteDone
    <3>1. PICK q \in Seq(Block) : q = m_queueSnd BY DEF IInv, TypeOK
    <3>2. m_queueSnd' = q \/ (q # << >> /\ m_queueSnd' = Tail(q))
      BY <2>2, <3>1 DEF WriteDone, OnSend
    <3>3. Len(m_queueSnd') <= Len(q) /\ Len(m_queueSnd') \in Nat BY <3>2
    <3>4. \A len \in Lengths : Len(Blocks(0, len)) \in Nat BY BlocksFacts
    <3> QED BY <3>1, <3>3, <3>4 DEF QueueBounded
  <2>3. CASE UNCHANGED m_queueSnd BY <2>3 DEF QueueBounded
  <2>4. ASSUME NEW t \in Threads,
               \/ SendTest(t) \/ SafeClose(t) \/ DoSendTest(t) \/ DoSendStart(t)
               \/ Close(t) \/ Report(t) \/ Reset(t)
        PROVE  UNCHANGED m_queueSnd
    BY <2>4 DEF SendTest, SafeClose, DoSendTest, DoSendStart, Close, Report, Reset, buffer
  <2>5. CASE \/ IoStep \/ WriteFailed \/ ReadDone \/ ReadFailed \/ IoThrows
             \/ UNCHANGED vars
    BY <2>3, <2>5 DEF IoStep, ClearSending, DoRead, WriteFailed, ReadDone, ReadFailed,
       IoThrows, vars, buffer
  <2> QED BY <2>1, <2>2, <2>3, <2>4, <2>5 DEF Next, ThreadStep
<1> QED BY <1>1, <1>2, InvariantHolds, PTL DEF Spec
=============================================================================
