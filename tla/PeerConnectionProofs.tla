------------------------ MODULE PeerConnectionProofs ------------------------
(***************************************************************************)
(* The request pipeline of a connection and the news it passes on, for      *)
(* every number of pieces and blocks, every limit and size of the channels. *)
(***************************************************************************)
EXTENDS PeerConnection, FiniteSetTheorems, SequenceTheorems, TLAPS

Tasks == {"read", "write", "manager"}

LEMMA ShortSequences ==
  ASSUME NEW S
  PROVE  /\ <<>> \in Seq(S)
         /\ \A a \in S : <<a>> \in Seq(S)
         /\ \A a, b \in S : <<a, b>> \in Seq(S)
         /\ \A a, b, c \in S : <<a, b, c>> \in Seq(S)
  OBVIOUS

(* The parts of the type invariant.                                         *)
MeType ==
  /\ meChoked \in BOOLEAN /\ meInterested \in BOOLEAN
  /\ meHas \subseteq Pieces
  /\ meRequests \subseteq Blocks
  /\ toRequest \subseteq Blocks
HeType ==
  /\ heChoked \in BOOLEAN /\ heInterested \in BOOLEAN
  /\ heRequests \in Seq(Blocks)
  /\ uploading \in BOOLEAN
LoopType ==
  /\ loop \in {"running", "draining", "ended"}
  /\ steps \in Seq(Steps)
  /\ blocked \in BOOLEAN
IpcType == ipc \in Seq(IPC) /\ ipcParked \in Seq(Tasks)
WriterType ==
  /\ writer \in Seq(Messages)
  /\ writeLoop \in {"idle", "writing", "ended"}
  /\ held \in Messages
OutsideType ==
  /\ readLoop \in {"reading", "ended"}
  /\ pending \in Seq(Broadcasts)
  /\ stored \subseteq Blocks
  /\ announced \subseteq Pieces
  /\ received \in 0..MaxReceived

LEMMA TypeParts ==
  TypeOK <=> MeType /\ HeType /\ LoopType /\ IpcType /\ WriterType /\ OutsideType
  BY DEF TypeOK, MeType, HeType, LoopType, IpcType, WriterType, OutsideType, Tasks

LEMMA StepTypes ==
  /\ \A op \in {"store", "interest", "request", "upload"} : Do(op) \in Steps
  /\ \A S \in SUBSET Pieces : Queue(S) \in Steps
  /\ \A B \in SUBSET Blocks : Insert(B) \in Steps
  /\ \A m \in Messages : Say(m) \in Steps
  BY DEF Steps, Do, Queue, Insert, Say

LEMMA MessageTypes ==
  /\ \A t \in {"KeepAlive", "Choke", "UnChoke", "Interested", "NotInterested", "Port"} :
       Signal(t) \in Messages
  /\ \A p \in Pieces : OfPiece("Have", p) \in Messages
  /\ \A S \in SUBSET Pieces : Bitfield(S) \in Messages
  /\ \A b \in Blocks, t \in {"Request", "Piece", "Cancel"} : OfBlock(t, b) \in Messages
  BY DEF Messages, Signal, OfPiece, Bitfield, OfBlock

LEMMA IpcTypes ==
  /\ Messages \subseteq IPC /\ Broadcasts \subseteq IPC /\ Signal("BlockUploaded") \in IPC
  /\ \A b \in Blocks : OfBlock("BlockCompleted", b) \in Broadcasts
  /\ \A p \in Pieces : OfPiece("PieceCompleted", p) \in Broadcasts
  /\ Signal("DownloadCompleted") \in Broadcasts
  BY DEF IPC, Broadcasts, Signal, OfPiece, OfBlock

LEMMA BlockTypes == \A b \in Blocks : b[1] \in Pieces
  BY DEF Blocks

LEMMA CompleteTypes == OutsideType => Complete \subseteq Pieces
  BY BlockTypes DEF OutsideType, Complete

(* Channels.                                                                *)
LEMMA TakesType ==
  ASSUME IpcType, NEW i, Takes(i)
  PROVE  /\ IpcType'
         /\ InSelect /\ steps = <<>>
         /\ UNCHANGED <<loop, blocked, writerVars, outsideVars>>
<1>1. ipc' \in Seq(IPC)
  BY DEF Takes, IpcType
<1>2. ipcParked' \in Seq(Tasks)
  BY DEF Takes, IpcType
<1> QED  BY <1>1, <1>2 DEF Takes, IpcType, InSelect

LEMMA SendIpcType ==
  ASSUME IpcType, NEW task \in Tasks, NEW i \in IPC, SendIpc(task, i)
  PROVE  IpcType'
  BY DEF SendIpc, IpcType

LEMMA SendWriterType ==
  ASSUME WriterType, NEW m \in Messages, SendWriter(m)
  PROVE  WriterType' /\ blocked' \in BOOLEAN
<1>1. writer' \in Seq(Messages)
  BY DEF SendWriter, WriterType
<1> QED  BY <1>1 DEF SendWriter, WriterType

LEMMA ProceedType ==
  ASSUME LoopType, steps # <<>>, Proceed
  PROVE  steps' \in Seq(Steps) /\ loop' = loop
  BY DEF LoopType, Proceed

LEMMA EndLoopType ==
  ASSUME EndLoop
  PROVE  LoopType' /\ IpcType'
  BY ShortSequences DEF EndLoop, LoopType, IpcType

LEMMA Frames ==
  /\ MeType /\ UNCHANGED <<meVars, toRequest>> => MeType'
  /\ HeType /\ UNCHANGED <<heVars, uploading>> => HeType'
  /\ LoopType /\ UNCHANGED loopVars => LoopType'
  /\ IpcType /\ UNCHANGED ipcVars => IpcType'
  /\ WriterType /\ UNCHANGED writerVars => WriterType'
  /\ OutsideType /\ UNCHANGED outsideVars => OutsideType'
  BY DEF MeType, HeType, LoopType, IpcType, WriterType, OutsideType, meVars, heVars, loopVars,
         ipcVars, writerVars, outsideVars

LEMMA AnnouncementType == \A b \in Blocks : Announcement(b) \in Seq(Broadcasts)
<1> TAKE b \in Blocks
<1>1. /\ OfBlock("BlockCompleted", b) \in Broadcasts /\ OfPiece("PieceCompleted", b[1]) \in Broadcasts
      /\ Signal("DownloadCompleted") \in Broadcasts
  BY BlockTypes, IpcTypes
<1>2. <<OfBlock("BlockCompleted", b), OfPiece("PieceCompleted", b[1])>> \in Seq(Broadcasts)
  BY <1>1, ShortSequences
<1>3. <<Signal("DownloadCompleted")>> \in Seq(Broadcasts) /\ <<>> \in Seq(Broadcasts)
  BY <1>1, ShortSequences
<1> QED  BY <1>2, <1>3 DEF Announcement

LEMMA InitType == Init => TypeOK
<1> SUFFICES ASSUME Init PROVE TypeOK
  OBVIOUS
<1>1. MeType /\ HeType
  <2>1. meHas \subseteq Pieces
    BY DEF Init
  <2> QED  BY <2>1, ShortSequences DEF Init, MeType, HeType
<1>2. LoopType
  <2>1. Say(Bitfield(meHas)) \in Steps
    BY <1>1, StepTypes, MessageTypes DEF MeType
  <2>2. steps \in Seq(Steps)
    BY <2>1, ShortSequences DEF Init
  <2> QED  BY <2>2 DEF Init, LoopType
<1>3. IpcType
  BY ShortSequences DEF Init, IpcType
<1>4. WriterType
  BY ShortSequences, MessageTypes DEF Init, WriterType
<1>5. OutsideType
  <2>1. PICK S \in SUBSET Pieces :
          /\ stored = S \X {0}
          /\ pending \in {<<>>} \cup
               {<<OfBlock("BlockCompleted", <<p, 0>>), OfPiece("PieceCompleted", p)>> : p \in S}
    BY DEF Init
  <2>2. \A p \in S : <<p, 0>> \in Blocks
    BY PeerConnectionAssumption DEF Blocks
  <2>3. stored \subseteq Blocks
    BY <2>1, <2>2
  <2>4. pending \in Seq(Broadcasts)
    <3>1. CASE pending = <<>>
      BY <3>1, ShortSequences
    <3>2. ASSUME NEW p \in S,
                 pending = <<OfBlock("BlockCompleted", <<p, 0>>), OfPiece("PieceCompleted", p)>>
          PROVE  pending \in Seq(Broadcasts)
      <4>1. OfBlock("BlockCompleted", <<p, 0>>) \in Broadcasts
        BY <2>2, IpcTypes
      <4>2. OfPiece("PieceCompleted", p) \in Broadcasts
        BY IpcTypes
      <4> QED  BY <3>2, <4>1, <4>2, ShortSequences
    <3> QED  BY <2>1, <3>1, <3>2
  <2> QED  BY <2>3, <2>4, PeerConnectionAssumption DEF Init, OutsideType
<1> QED  BY <1>1, <1>2, <1>3, <1>4, <1>5, TypeParts

-----------------------------------------------------------------------------
(* Requests are removed, none is added.                                     *)
LEMMA WithoutType ==
  ASSUME HeType, NEW b \in Blocks
  PROVE  /\ Without(b) \in Seq(Blocks)
         /\ \A k \in DOMAIN Without(b) : On(heRequests, Without(b)[k])
<1> DEFINE q == heRequests
<1> DEFINE n == Position(b)
<1>1. q \in Seq(Blocks)
  BY DEF HeType
<1>2. CASE ~HasRequest(b)
  BY <1>1, <1>2 DEF Without, On
<1>3. CASE HasRequest(b)
  <2>1. n \in DOMAIN q
    BY <1>3 DEF HasRequest, Position
  <2> DEFINE front == SubSeq(q, 1, n - 1)
  <2> DEFINE back == SubSeq(q, n + 1, Len(q))
  <2>2. Without(b) = front \o back
    BY <1>3 DEF Without
  <2> HIDE DEF n
  <2>3. front \in Seq(Blocks) /\ back \in Seq(Blocks)
    BY <1>1, <2>1
  <2>4. /\ Len(front) = n - 1 /\ \A k \in 1..(n - 1) : front[k] = q[k]
        /\ Len(back) = Len(q) - n /\ \A k \in 1..(Len(q) - n) : back[k] = q[n + k]
    BY <1>1, <2>1
  <2> HIDE DEF front, back
  <2> DEFINE r == front \o back
  <2>7. /\ r \in Seq(Blocks) /\ DOMAIN r = 1..(Len(front) + Len(back))
        /\ \A k \in 1..Len(front) : r[k] = front[k]
        /\ \A k \in 1..Len(back) : r[Len(front) + k] = back[k]
    BY <2>3
  <2>8. Len(q) \in Nat /\ n \in 1..Len(q)
    BY <1>1, <2>1
  <2> HIDE DEF r
  <2>5. ASSUME NEW k \in DOMAIN r
        PROVE  \/ k \in 1..(n - 1) /\ r[k] = q[k]
               \/ k + 1 \in 1..Len(q) /\ r[k] = q[k + 1]
    <3>1. k \in 1..(Len(q) - 1)
      BY <2>4, <2>7, <2>8
    <3>2. CASE k < n
      <4>1. k \in 1..(n - 1)
        BY <2>8, <3>1, <3>2
      <4> QED  BY <2>4, <2>7, <4>1
    <3>3. CASE k >= n
      <4>1. k - (n - 1) \in 1..(Len(q) - n) /\ (n - 1) + (k - (n - 1)) = k
            /\ n + (k - (n - 1)) = k + 1 /\ k + 1 \in 1..Len(q)
        BY <2>8, <3>1, <3>3
      <4> QED  BY <2>4, <2>7, <4>1
    <3> QED  BY <2>8, <3>1, <3>2, <3>3
  <2>6. \A k \in DOMAIN r : On(q, r[k])
    BY <1>1, <2>1, <2>5 DEF On
  <2> QED  BY <2>2, <2>6, <2>7 DEF r
<1> QED  BY <1>2, <1>3

LEMMA MessageTypeStep ==
  ASSUME MeType, HeType, LoopType, IpcType, WriterType, OutsideType,
         ProcessMessage \/ ProcessBroadcast
  PROVE  MeType' /\ HeType' /\ LoopType' /\ IpcType' /\ WriterType' /\ OutsideType'
<1> DEFINE Types == MeType /\ HeType /\ LoopType /\ IpcType /\ WriterType /\ OutsideType
<1>t. ASSUME NEW i, Takes(i), steps' \in Seq(Steps), MeType', HeType' PROVE Types'
  BY <1>t, TakesType, Frames DEF LoopType
<1>d. \A op \in {"store", "interest", "request", "upload"} : Do(op) \in Steps
  BY StepTypes
<1>1. CASE ReceiveKeepAlive
  BY <1>1, <1>t, Frames DEF ReceiveKeepAlive, connVars, LoopType
<1>2. CASE ReceivePort
  BY <1>2, EndLoopType, Frames DEF ReceivePort, connVars
<1>3. CASE ReceiveChoke
  BY <1>3, <1>t, Frames DEF ReceiveChoke, LoopType, MeType
<1>4. CASE ReceiveUnChoke
  <2>1. steps' \in Seq(Steps)
    BY <1>4, <1>d, ShortSequences DEF ReceiveUnChoke
  <2>2. MeType'
    BY <1>4 DEF ReceiveUnChoke, MeType
  <2> QED  BY <1>4, <2>1, <2>2, <1>t, Frames DEF ReceiveUnChoke
<1>5. CASE ReceiveInterested
  <2>1. Say(Signal("UnChoke")) \in Steps
    BY StepTypes, MessageTypes
  <2>2. steps' \in Seq(Steps)
    BY <1>5, <1>d, <2>1, ShortSequences DEF ReceiveInterested
  <2>3. HeType'
    BY <1>5 DEF ReceiveInterested, HeType
  <2> QED  BY <1>5, <2>2, <2>3, <1>t, Frames DEF ReceiveInterested
<1>6. CASE ReceiveNotInterested
  BY <1>6, <1>t, Frames DEF ReceiveNotInterested, LoopType, HeType
<1>7. ASSUME NEW p \in Pieces, ReceiveHave(p) PROVE Types'
  <2>1. Queue({p}) \in Steps
    BY StepTypes
  <2>2. steps' \in Seq(Steps)
    BY <1>7, <1>d, <2>1 DEF ReceiveHave
  <2> QED  BY <1>7, <2>2, <1>t, Frames DEF ReceiveHave, connVars
<1>8. ASSUME NEW S \in SUBSET Pieces, ReceiveBitfield(S) PROVE Types'
  <2>1. steps' \in Seq(Steps)
    BY <1>8, <1>d, StepTypes DEF ReceiveBitfield
  <2> QED  BY <1>8, <2>1, <1>t, Frames DEF ReceiveBitfield, connVars
<1>9. ASSUME NEW b \in Blocks, ReceiveRequest(b) PROVE Types'
  <2>1. steps' \in Seq(Steps) /\ HeType'
    BY <1>9, <1>d DEF ReceiveRequest, HeType
  <2> QED  BY <1>9, <2>1, <1>t, Frames DEF ReceiveRequest
<1>10. ASSUME NEW b \in Blocks, ReceivePiece(b) PROVE Types'
  <2>1. steps' \in Seq(Steps) /\ MeType'
    BY <1>10, <1>d DEF ReceivePiece, MeType
  <2> QED  BY <1>10, <2>1, <1>t, Frames DEF ReceivePiece
<1>11. ASSUME NEW b \in Blocks, ReceiveCancel(b) PROVE Types'
  <2>1. heRequests' \in Seq(Blocks)
    BY <1>11, WithoutType DEF ReceiveCancel
  <2>2. HeType' /\ steps' \in Seq(Steps)
    BY <1>11, <2>1 DEF ReceiveCancel, HeType, LoopType
  <2> QED  BY <1>11, <2>2, <1>t, Frames DEF ReceiveCancel
<1>12. ASSUME NEW b \in Blocks, ReceiveBlockCompleted(b) PROVE Types'
  <2>1. Say(OfBlock("Cancel", b)) \in Steps
    BY StepTypes, MessageTypes
  <2>2. steps' \in Seq(Steps) /\ MeType'
    BY <1>12, <2>1, ShortSequences DEF ReceiveBlockCompleted, MeType
  <2> QED  BY <1>12, <2>2, <1>t, Frames DEF ReceiveBlockCompleted
<1>13. ASSUME NEW p \in Pieces, ReceivePieceCompleted(p) PROVE Types'
  <2>1. Say(OfPiece("Have", p)) \in Steps
    BY StepTypes, MessageTypes
  <2>2. steps' \in Seq(Steps) /\ MeType'
    BY <1>13, <1>d, <2>1 DEF ReceivePieceCompleted, MeType
  <2> QED  BY <1>13, <2>2, <1>t, Frames DEF ReceivePieceCompleted
<1>14. CASE ReceiveDownloadCompleted
  <2>1. steps' \in Seq(Steps)
    BY <1>14, <1>d DEF ReceiveDownloadCompleted
  <2> QED  BY <1>14, <2>1, <1>t, Frames DEF ReceiveDownloadCompleted, connVars
<1>15. CASE ReceiveBlockUploaded
  <2>1. steps' \in Seq(Steps)
    BY <1>15, <1>d, ShortSequences DEF ReceiveBlockUploaded
  <2>2. HeType'
    BY <1>15 DEF ReceiveBlockUploaded, HeType, heVars
  <2> QED  BY <1>15, <2>1, <2>2, <1>t, Frames DEF ReceiveBlockUploaded
<1> QED  BY <1>1, <1>2, <1>3, <1>4, <1>5, <1>6, <1>7, <1>8, <1>9, <1>10, <1>11, <1>12, <1>13,
            <1>14, <1>15 DEF ProcessMessage, ProcessBroadcast

LEMMA HandlerTypeStep ==
  ASSUME MeType, HeType, LoopType, IpcType, WriterType, OutsideType, HandlerStep
  PROVE  MeType' /\ HeType' /\ LoopType' /\ IpcType' /\ WriterType' /\ OutsideType'
<1> DEFINE Types == MeType /\ HeType /\ LoopType /\ IpcType /\ WriterType /\ OutsideType
<1>h. ASSUME NEW op, At(op)
      PROVE  steps # <<>> /\ Head(steps).op = op /\ Head(steps) \in Steps
  <2>1. steps # <<>> /\ steps \in Seq(Steps)
    BY <1>h DEF At, LoopType
  <2> QED  BY <1>h, <2>1 DEF At
<1>l. ASSUME steps # <<>>, Proceed, blocked' \in BOOLEAN PROVE LoopType'
  BY <1>l, ProceedType DEF LoopType
<1>b. blocked \in BOOLEAN
  BY DEF LoopType
<1>w. ASSUME NEW m \in Messages, SendWriter(m) PROVE WriterType' /\ blocked' \in BOOLEAN
  BY <1>w, SendWriterType
<1>1. CASE SayMessage
  <2>1. Head(steps) \in Steps /\ Head(steps).op = "say" /\ steps # <<>>
    BY <1>1, <1>h DEF SayMessage
  <2>2. Head(steps).message \in Messages
    BY <2>1 DEF Steps
  <2> QED  BY <1>1, <2>1, <2>2, <1>w, <1>l, Frames DEF SayMessage, connVars
<1>2. CASE StoreStep
  BY <1>2, <1>h, <1>l, <1>b, Frames DEF StoreStep, connVars
<1>3. CASE QueueStep
  <2>1. steps # <<>> /\ Head(steps) \in Steps /\ Head(steps).op = "queue"
    BY <1>3, <1>h DEF QueueStep
  <2> DEFINE S == Head(steps).pieces
  <2>2. S \subseteq Pieces
    BY <2>1 DEF Steps
  <2>3. Tail(steps) \in Seq(Steps)
    BY <2>1 DEF LoopType
  <2>4. \/ steps' = Tail(steps)
        \/ \E p \in S : steps' = <<Insert(IncompleteBlocks(p)), Queue(S \ {p})>> \o Tail(steps)
    BY <1>3 DEF QueueStep, Proceed
  <2>5. ASSUME NEW p \in S, steps' = <<Insert(IncompleteBlocks(p)), Queue(S \ {p})>> \o Tail(steps)
        PROVE  steps' \in Seq(Steps)
    <3>1. IncompleteBlocks(p) \subseteq Blocks
      BY DEF IncompleteBlocks
    <3>2. Insert(IncompleteBlocks(p)) \in Steps /\ Queue(S \ {p}) \in Steps
      BY <2>2, <3>1, StepTypes
    <3>3. <<Insert(IncompleteBlocks(p)), Queue(S \ {p})>> \in Seq(Steps)
      BY <3>2, ShortSequences
    <3> QED  BY <2>3, <2>5, <3>3
  <2>6. steps' \in Seq(Steps)
    BY <2>3, <2>4, <2>5
  <2>7. UNCHANGED <<connVars, loop, blocked, ipcVars, writerVars, outsideVars>>
    BY <1>3 DEF QueueStep, Proceed
  <2>8. LoopType'
    BY <2>6, <2>7 DEF LoopType
  <2> QED  BY <2>7, <2>8, Frames DEF connVars
<1>4. CASE InsertStep
  <2>1. steps # <<>> /\ Head(steps) \in Steps /\ Head(steps).op = "insert"
    BY <1>4, <1>h DEF InsertStep
  <2>2. Head(steps).blocks \subseteq Blocks
    BY <2>1 DEF Steps
  <2>3. MeType'
    BY <1>4, <2>2 DEF InsertStep, MeType, Inserted, meVars
  <2> QED  BY <1>4, <2>1, <2>3, <1>l, <1>b, Frames DEF InsertStep
<1>5. CASE InterestUnchanged
  BY <1>5, <1>h, <1>l, <1>b, Frames DEF InterestUnchanged, connVars
<1>6. CASE InterestChanges
  <2>1. Signal(IF AmInterested THEN "Interested" ELSE "NotInterested") \in Messages
    BY MessageTypes
  <2>2. MeType'
    BY <1>6 DEF InterestChanges, MeType, AmInterested
  <2> QED  BY <1>6, <2>1, <2>2, <1>h, <1>l, <1>w, Frames DEF InterestChanges
<1>7. ASSUME NEW b \in Blocks, RequestOne(b) PROVE Types'
  <2>1. MeType'
    BY <1>7 DEF RequestOne, MeType
  <2>2. OfBlock("Request", b) \in Messages
    BY MessageTypes
  <2>3. WriterType' /\ blocked' \in BOOLEAN
    BY <1>7, <2>2, <1>w, <1>b, Frames DEF RequestOne
  <2>4. LoopType'
    BY <1>7, <2>3 DEF RequestOne, LoopType
  <2> QED  BY <1>7, <2>1, <2>3, <2>4, Frames DEF RequestOne
<1>8. CASE RequestsDone
  BY <1>8, <1>h, <1>l, <1>b, Frames DEF RequestsDone, connVars
<1>9. CASE UploadNext
  <2>1. heRequests \in Seq(Blocks) /\ heRequests # <<>>
    BY <1>9 DEF UploadNext, CanUpload, HeType
  <2>2. Head(heRequests) \in Blocks /\ Tail(heRequests) \in Seq(Blocks)
    BY <2>1
  <2>3. OfBlock("Piece", Head(heRequests)) \in Messages
    BY <2>2, MessageTypes
  <2>4. HeType'
    BY <1>9, <2>2 DEF UploadNext, HeType
  <2>5. WriterType' /\ LoopType'
    BY <1>9, <2>3, <1>h, <1>l, <1>w DEF UploadNext
  <2> QED  BY <1>9, <2>4, <2>5, Frames DEF UploadNext
<1>10. CASE UploadOfMissing
  BY <1>10, EndLoopType, Frames DEF UploadOfMissing, connVars
<1>11. CASE NothingToUpload
  BY <1>11, <1>h, <1>l, <1>b, Frames DEF NothingToUpload, connVars
<1>12. CASE SendFails
  BY <1>12, EndLoopType, Frames DEF SendFails, connVars
<1>13. CASE DownloadIsGone
  BY <1>13, EndLoopType, Frames DEF DownloadIsGone, connVars
<1> QED  BY <1>1, <1>2, <1>3, <1>4, <1>5, <1>6, <1>7, <1>8, <1>9, <1>10, <1>11, <1>12, <1>13
         DEF HandlerStep

LEMMA OtherTypeStep ==
  ASSUME MeType, HeType, LoopType, IpcType, WriterType, OutsideType,
         \/ LeaveLoop \/ FinishLoop \/ WriteLoop \/ ReadLoop
         \/ (\E b \in Blocks : StoreBlock(b)) \/ ManagerSends
  PROVE  MeType' /\ HeType' /\ LoopType' /\ IpcType' /\ WriterType' /\ OutsideType'
<1> DEFINE Types == MeType /\ HeType /\ LoopType /\ IpcType /\ WriterType /\ OutsideType
<1>1. CASE LeaveLoop
  <2>1. LoopType'
    BY <1>1 DEF LeaveLoop, LoopType
  <2> QED  BY <1>1, <2>1, Frames DEF LeaveLoop, connVars
<1>2. CASE FinishLoop
  BY <1>2, EndLoopType, Frames DEF FinishLoop, connVars
<1>3. CASE WriterTakes
  <2>1. writer \in Seq(Messages) /\ writer # <<>>
    BY <1>3 DEF WriterTakes, WriterType
  <2>2. WriterType'
    BY <1>3, <2>1 DEF WriterTakes, WriterType
  <2>3. LoopType'
    BY <1>3 DEF WriterTakes, LoopType
  <2> QED  BY <1>3, <2>2, <2>3, Frames DEF WriterTakes, connVars
<1>4. CASE WriterWrites
  <2>1. WriterType'
    BY <1>4 DEF WriterWrites, WriterType
  <2>2. OutsideType'
    <3>1. Tells(held) \subseteq Pieces
      BY DEF WriterType, Messages, Tells
    <3> QED  BY <1>4, <3>1 DEF WriterWrites, OutsideType
  <2> QED  BY <1>4, <2>1, <2>2, Frames DEF WriterWrites, connVars
<1>5. CASE WriterNotifies
  <2>1. IpcType'
    BY <1>5, IpcTypes, SendIpcType DEF WriterNotifies, Tasks
  <2>2. WriterType'
    BY <1>5 DEF WriterNotifies, WriterType
  <2> QED  BY <1>5, <2>1, <2>2, Frames DEF WriterNotifies, connVars
<1>6. CASE WriterFails \/ WriterEnds
  <2>1. EndWriteLoop
    BY <1>6 DEF WriterFails, WriterEnds
  <2>2. WriterType'
    BY <2>1, ShortSequences DEF EndWriteLoop, WriterType
  <2>3. LoopType'
    BY <2>1 DEF EndWriteLoop, LoopType
  <2> QED  BY <2>1, <2>2, <2>3, Frames DEF EndWriteLoop, connVars
<1>7. ASSUME NEW m \in RemoteMessages, ReaderSends(m) PROVE Types'
  <2>1. m \in IPC
    BY PeerConnectionAssumption, IpcTypes
  <2>2. IpcType'
    BY <1>7, <2>1, SendIpcType DEF ReaderSends, Tasks
  <2>3. OutsideType'
    BY <1>7, PeerConnectionAssumption DEF ReaderSends, OutsideType
  <2> QED  BY <1>7, <2>2, <2>3, Frames DEF ReaderSends, connVars
<1>8. CASE ReaderEnds
  <2>1. OutsideType'
    BY <1>8 DEF ReaderEnds, OutsideType
  <2> QED  BY <1>8, <2>1, Frames DEF ReaderEnds, connVars
<1>9. ASSUME NEW b \in Blocks, StoreBlock(b) PROVE Types'
  <2>1. Announcement(b) \in Seq(Broadcasts)
    BY AnnouncementType
  <2>2. OutsideType'
    BY <1>9, <2>1 DEF StoreBlock, OutsideType
  <2> QED  BY <1>9, <2>2, Frames DEF StoreBlock, connVars
<1>10. CASE ManagerSends
  <2>1. pending \in Seq(Broadcasts) /\ pending # <<>>
    BY <1>10 DEF ManagerSends, OutsideType
  <2>2. Head(pending) \in IPC /\ Tail(pending) \in Seq(Broadcasts)
    BY <2>1, IpcTypes
  <2>3. IpcType'
    BY <1>10, <2>2, SendIpcType DEF ManagerSends, Tasks
  <2>4. OutsideType'
    BY <1>10, <2>2 DEF ManagerSends, OutsideType
  <2> QED  BY <1>10, <2>3, <2>4, Frames DEF ManagerSends, connVars
<1> QED  BY <1>1, <1>2, <1>3, <1>4, <1>5, <1>6, <1>7, <1>8, <1>9, <1>10
         DEF WriteLoop, ReadLoop

LEMMA TypeStep == TypeOK /\ [Next]_vars => TypeOK'
<1> SUFFICES ASSUME TypeOK, [Next]_vars PROVE TypeOK'
  OBVIOUS
<1>1. MeType /\ HeType /\ LoopType /\ IpcType /\ WriterType /\ OutsideType
  BY TypeParts
<1>2. MeType' /\ HeType' /\ LoopType' /\ IpcType' /\ WriterType' /\ OutsideType'
  <2>1. CASE UNCHANGED vars
    BY <1>1, <2>1, Frames DEF vars, connVars
  <2>2. CASE ProcessMessage \/ ProcessBroadcast
    BY <1>1, <2>2, MessageTypeStep
  <2>3. CASE HandlerStep
    BY <1>1, <2>3, HandlerTypeStep
  <2>4. CASE \/ LeaveLoop \/ FinishLoop \/ WriteLoop \/ ReadLoop
             \/ (\E b \in Blocks : StoreBlock(b)) \/ ManagerSends
    BY <1>1, <2>4, OtherTypeStep
  <2> QED  BY <2>1, <2>2, <2>3, <2>4 DEF Next, PeerLoop
<1> QED  BY <1>2, TypeParts DEF TypeOK, MeType, HeType, LoopType, IpcType, WriterType, OutsideType, Tasks

(* Requests, channels and the loops of a connection keep their types.       *)
THEOREM TypeCorrect == Spec => []TypeOK
  BY InitType, TypeStep, PTL DEF Spec

-----------------------------------------------------------------------------
(* The request pipeline.                                                    *)
Pipeline == RequestsDisjoint /\ IsFiniteSet(meRequests) /\ RequestsBounded

(* All that steps do to it.                                                 *)
LEMMA PipelineEffects ==
  ASSUME [Next]_vars
  PROVE  \/ UNCHANGED <<toRequest, meRequests>>
         \/ \E b \in Blocks : meRequests' = meRequests \ {b} /\ toRequest' \subseteq toRequest
         \/ toRequest' \cap meRequests \subseteq toRequest /\ meRequests' = meRequests
         \/ \E b \in Blocks :
              /\ b \in toRequest /\ Cardinality(meRequests) < MaxRequests
              /\ toRequest' = toRequest \ {b} /\ meRequests' = meRequests \cup {b}
<1> DEFINE Effect == \/ UNCHANGED <<toRequest, meRequests>>
                     \/ \E b \in Blocks : /\ meRequests' = meRequests \ {b}
                                          /\ toRequest' \subseteq toRequest
                     \/ toRequest' \cap meRequests \subseteq toRequest /\ meRequests' = meRequests
                     \/ \E b \in Blocks :
                          /\ b \in toRequest /\ Cardinality(meRequests) < MaxRequests
                          /\ toRequest' = toRequest \ {b} /\ meRequests' = meRequests \cup {b}
<1>1. CASE UNCHANGED vars
  BY <1>1 DEF vars, connVars, meVars
<1>2. CASE ProcessMessage
  BY <1>2 DEF ProcessMessage, ReceiveKeepAlive, ReceivePort, ReceiveChoke, ReceiveUnChoke,
              ReceiveInterested, ReceiveNotInterested, ReceiveHave, ReceiveBitfield,
              ReceiveRequest, ReceivePiece, ReceiveCancel, connVars, meVars
<1>3. CASE ProcessBroadcast
  BY <1>3 DEF ProcessBroadcast, ReceiveBlockCompleted, ReceivePieceCompleted,
              ReceiveDownloadCompleted, ReceiveBlockUploaded, connVars, meVars
<1>4. CASE HandlerStep
  <2>1. CASE InsertStep
    BY <2>1 DEF InsertStep, Inserted, meVars
  <2>2. ASSUME NEW b \in Blocks, RequestOne(b) PROVE Effect
    BY <2>2 DEF RequestOne, CanRequest
  <2>3. CASE \/ SayMessage \/ StoreStep \/ QueueStep \/ InterestUnchanged \/ InterestChanges
             \/ RequestsDone \/ UploadNext \/ UploadOfMissing \/ NothingToUpload
             \/ SendFails \/ DownloadIsGone
    BY <2>3 DEF SayMessage, StoreStep, QueueStep, InterestUnchanged, InterestChanges,
                RequestsDone, UploadNext, UploadOfMissing, NothingToUpload, SendFails,
                DownloadIsGone, connVars, meVars
  <2> QED  BY <1>4, <2>1, <2>2, <2>3 DEF HandlerStep
<1>5. CASE \/ LeaveLoop \/ FinishLoop \/ WriteLoop \/ ReadLoop
           \/ (\E b \in Blocks : StoreBlock(b)) \/ ManagerSends
  BY <1>5 DEF LeaveLoop, FinishLoop, WriteLoop, WriterTakes, WriterWrites, WriterNotifies,
              WriterFails, WriterEnds, EndWriteLoop, ReadLoop, ReaderSends, ReaderEnds,
              StoreBlock, ManagerSends, connVars, meVars
<1> QED  BY <1>1, <1>2, <1>3, <1>4, <1>5 DEF Next, PeerLoop

LEMMA PipelineStep == Pipeline /\ [Next]_vars => Pipeline'
<1> SUFFICES ASSUME Pipeline, [Next]_vars PROVE Pipeline'
  OBVIOUS
<1> USE DEF Pipeline, RequestsDisjoint, RequestsBounded
<1>m. MaxRequests \in Nat /\ Cardinality(meRequests) \in Nat
  BY PeerConnectionAssumption, FS_CardinalityType
<1>1. CASE UNCHANGED <<toRequest, meRequests>>
  BY <1>1
<1>2. ASSUME NEW b \in Blocks, meRequests' = meRequests \ {b}, toRequest' \subseteq toRequest
      PROVE  Pipeline'
  <2>1. meRequests' \subseteq meRequests
    BY <1>2
  <2>2. /\ IsFiniteSet(meRequests') /\ Cardinality(meRequests') <= Cardinality(meRequests)
        /\ Cardinality(meRequests') \in Nat
    BY <2>1, FS_Subset, FS_CardinalityType
  <2> QED  BY <1>2, <2>2, <1>m
<1>3. CASE toRequest' \cap meRequests \subseteq toRequest /\ meRequests' = meRequests
  BY <1>3
<1>4. ASSUME NEW b \in Blocks, b \in toRequest, Cardinality(meRequests) < MaxRequests,
             toRequest' = toRequest \ {b}, meRequests' = meRequests \cup {b}
      PROVE  Pipeline'
  <2>1. b \notin meRequests
    BY <1>4
  <2>2. IsFiniteSet(meRequests') /\ Cardinality(meRequests') = Cardinality(meRequests) + 1
    BY <1>4, <2>1, FS_AddElement
  <2> QED  BY <1>4, <2>2, <1>m
<1> QED  BY <1>1, <1>2, <1>3, <1>4, PipelineEffects

(* A block is never both requested and to be requested, and no more than    *)
(* MAX_CONCURRENT_REQUESTS are out, whatever the remote side, the manager   *)
(* and the download task send and in whichever order.                       *)
THEOREM PipelineHolds == Spec => []PipelineIsSound
<1>1. Init => Pipeline
  BY FS_EmptySet, PeerConnectionAssumption DEF Init, Pipeline, RequestsDisjoint, RequestsBounded
<1>2. Pipeline => PipelineIsSound
  BY DEF Pipeline, PipelineIsSound
<1> QED  BY <1>1, <1>2, PipelineStep, PTL DEF Spec

-----------------------------------------------------------------------------
(* Interest.  A handler that queues or inserts blocks ends with the update  *)
(* of the interest and the requests.                                        *)
Ends(s) == Len(s) >= 2 /\ s[Len(s) - 1] = Do("interest") /\ s[Len(s)] = Do("request")

Shaped(s) ==
  \A k \in DOMAIN s : s[k].op \in {"queue", "insert"} => k < Len(s) - 1 /\ Ends(s)

Wanting == loop = "running" /\ AmInterested /\ ~meInterested => Ends(steps)

LEMMA StepOps ==
  /\ \A op : Do(op).op = op
  /\ \A S : Queue(S).op = "queue" /\ Queue(S).pieces = S
  /\ \A B : Insert(B).op = "insert" /\ Insert(B).blocks = B
  /\ \A m : Say(m).op = "say" /\ Say(m).message = m
  BY DEF Do, Queue, Insert, Say

LEMMA ShapedShort ==
  /\ Shaped(<<>>)
  /\ \A a : a.op \notin {"queue", "insert"} => Shaped(<<a>>)
  /\ \A a, b : a.op \notin {"queue", "insert"} /\ b.op \notin {"queue", "insert"} =>
       Shaped(<<a, b>>)
  /\ \A a : LET s == <<a, Do("interest"), Do("request")>> IN Shaped(s) /\ Ends(s)
<1>1. ASSUME NEW a PROVE LET s == <<a, Do("interest"), Do("request")>> IN Shaped(s) /\ Ends(s)
  <2> DEFINE s == <<a, Do("interest"), Do("request")>>
  <2>1. Len(s) = 3 /\ DOMAIN s = 1..3 /\ s[2] = Do("interest") /\ s[3] = Do("request")
    OBVIOUS
  <2> HIDE DEF s
  <2>2. Ends(s)
    BY <2>1 DEF Ends
  <2>3. Shaped(s)
    BY <2>1, <2>2, StepOps DEF Shaped
  <2> QED  BY <2>2, <2>3 DEF s
<1>2. Shaped(<<>>)
  BY DEF Shaped
<1>3. ASSUME NEW a, a.op \notin {"queue", "insert"} PROVE Shaped(<<a>>)
  BY <1>3 DEF Shaped
<1>4. ASSUME NEW a, NEW b, a.op \notin {"queue", "insert"}, b.op \notin {"queue", "insert"}
      PROVE  Shaped(<<a, b>>)
  BY <1>4 DEF Shaped
<1> QED  BY <1>1, <1>2, <1>3, <1>4

LEMMA ShapedTail ==
  ASSUME NEW s \in Seq(Steps), s # <<>>, Shaped(s)
  PROVE  /\ Shaped(Tail(s))
         /\ Ends(s) /\ Head(s).op # "interest" => Ends(Tail(s))
<1>1. /\ Len(s) \in Nat \ {0} /\ DOMAIN s = 1..Len(s) /\ Head(s) = s[1]
      /\ Len(Tail(s)) = Len(s) - 1 /\ DOMAIN Tail(s) = 1..(Len(s) - 1)
      /\ \A k \in 1..(Len(s) - 1) : Tail(s)[k] = s[k + 1]
  OBVIOUS
<1> DEFINE r == Tail(s)
<1> HIDE DEF r
<1>2. Len(s) > 2 /\ Ends(s) => Ends(r)
  BY <1>1 DEF Ends, r
<1>3. Shaped(r)
  BY <1>1, <1>2 DEF Shaped, r
<1>4. Ends(s) /\ Head(s).op # "interest" => Len(s) > 2
  BY <1>1, StepOps DEF Ends
<1> QED  BY <1>2, <1>3, <1>4 DEF r

LEMMA ShapedQueue ==
  ASSUME NEW s \in Seq(Steps), s # <<>>, Shaped(s), Head(s).op = "queue",
         NEW a \in Steps, NEW b \in Steps
  PROVE  LET r == <<a, b>> \o Tail(s) IN Shaped(r) /\ Ends(r)
<1> DEFINE r == <<a, b>> \o Tail(s)
<1>1. /\ Len(s) \in Nat /\ Len(s) > 2 /\ Ends(s) /\ DOMAIN s = 1..Len(s)
  BY DEF Shaped
<1>2. /\ Len(r) = Len(s) + 1 /\ DOMAIN r = 1..(Len(s) + 1)
      /\ \A k \in 3..(Len(s) + 1) : r[k] = s[k - 1]
  BY <1>1
<1> HIDE DEF r
<1>3. Ends(r)
  BY <1>1, <1>2 DEF Ends
<1>4. Shaped(r)
  <2> SUFFICES ASSUME NEW k \in DOMAIN r, r[k].op \in {"queue", "insert"}
               PROVE  k < Len(r) - 1
    BY <1>3 DEF Shaped
  <2>1. CASE k \in 1..2
    BY <2>1, <1>1, <1>2
  <2>2. CASE k \in 3..(Len(s) + 1)
    BY <2>2, <1>1, <1>2 DEF Shaped
  <2> QED  BY <2>1, <2>2, <1>2
<1> QED  BY <1>3, <1>4 DEF r

LEMMA RunningIsNotResumed == [Next]_vars /\ loop' = "running" => loop = "running"
<1> SUFFICES ASSUME [Next]_vars, loop' = "running" PROVE loop = "running"
  OBVIOUS
<1>1. CASE UNCHANGED vars
  BY <1>1 DEF vars, loopVars
<1>2. CASE ProcessMessage \/ ProcessBroadcast
  BY <1>2 DEF ProcessMessage, ReceiveKeepAlive, ReceivePort, ReceiveChoke, ReceiveUnChoke,
              ReceiveInterested, ReceiveNotInterested, ReceiveHave, ReceiveBitfield,
              ReceiveRequest, ReceivePiece, ReceiveCancel, ProcessBroadcast,
              ReceiveBlockCompleted, ReceivePieceCompleted, ReceiveDownloadCompleted,
              ReceiveBlockUploaded, Takes, InSelect, Active
<1>3. CASE HandlerStep
  BY <1>3 DEF HandlerStep, SayMessage, StoreStep, QueueStep, InsertStep, InterestUnchanged,
              InterestChanges, RequestOne, RequestsDone, UploadNext, UploadOfMissing,
              NothingToUpload, SendFails, DownloadIsGone, WouldSend, At, Active
<1>4. CASE \/ LeaveLoop \/ FinishLoop \/ WriteLoop \/ ReadLoop
           \/ (\E b \in Blocks : StoreBlock(b)) \/ ManagerSends
  BY <1>4 DEF LeaveLoop, FinishLoop, EndLoop, WriteLoop, WriterTakes, WriterWrites,
              WriterNotifies, WriterFails, WriterEnds, EndWriteLoop, ReadLoop, ReaderSends,
              ReaderEnds, StoreBlock, ManagerSends, loopVars
<1> QED  BY <1>1, <1>2, <1>3, <1>4 DEF Next, PeerLoop

Interest == Shaped(steps) /\ Wanting

LEMMA TakesInSelect == \A i : Takes(i) => InSelect /\ steps = <<>> /\ loop' = loop
  BY DEF Takes, InSelect

(* In select, a connection that wants blocks is interested.                 *)
LEMMA NotWanting == Interest /\ InSelect => (AmInterested => meInterested)
<1> SUFFICES ASSUME Wanting, InSelect, AmInterested PROVE meInterested
  BY DEF Interest
<1>1. Len(steps) = 0 /\ loop = "running"
  BY DEF InSelect, Active
<1> QED  BY <1>1 DEF Wanting, Ends

LEMMA InterestMessageStep ==
  ASSUME Interest, ProcessMessage \/ ProcessBroadcast
  PROVE  Interest'
<1> USE DEF Interest
<1>s. ASSUME InSelect, Shaped(steps)', UNCHANGED meInterested, AmInterested' => AmInterested
      PROVE  Interest'
  BY <1>s, NotWanting DEF Wanting
<1>n. ASSUME NEW op \in {"store", "interest", "request", "upload"}
      PROVE  Do(op).op = op
  BY StepOps
<1>1. CASE ReceiveKeepAlive \/ ReceiveChoke \/ ReceiveNotInterested
           \/ (\E b \in Blocks : ReceiveCancel(b))
  BY <1>1, <1>s, TakesInSelect
     DEF ReceiveKeepAlive, ReceiveChoke, ReceiveNotInterested, ReceiveCancel, connVars, meVars,
         AmInterested
<1>2. CASE ReceivePort
  <2>1. loop' = "ended" /\ steps' = <<>>
    BY <1>2 DEF ReceivePort, EndLoop
  <2> QED  BY <2>1, ShapedShort DEF Wanting
<1>3. CASE ReceiveUnChoke \/ (\E b \in Blocks : ReceiveRequest(b)) \/ ReceiveDownloadCompleted
           \/ ReceiveBlockUploaded
  <2>1. Shaped(steps)'
    BY <1>3, <1>n, ShapedShort
       DEF ReceiveUnChoke, ReceiveRequest, ReceiveDownloadCompleted, ReceiveBlockUploaded
  <2> QED  BY <1>3, <2>1, <1>s, TakesInSelect
            DEF ReceiveUnChoke, ReceiveRequest, ReceiveDownloadCompleted, ReceiveBlockUploaded,
                connVars, meVars, AmInterested
<1>4. CASE ReceiveInterested
  <2>1. Shaped(steps)'
    BY <1>4, StepOps, ShapedShort DEF ReceiveInterested
  <2> QED  BY <1>4, <2>1, <1>s, TakesInSelect DEF ReceiveInterested, meVars, AmInterested
<1>5. CASE \/ \E p \in Pieces : ReceiveHave(p)
           \/ \E S \in SUBSET Pieces : ReceiveBitfield(S)
           \/ \E b \in Blocks : ReceivePiece(b)
  <2>1. Shaped(steps)' /\ Ends(steps)'
    BY <1>5, ShapedShort DEF ReceiveHave, ReceiveBitfield, ReceivePiece
  <2> QED  BY <2>1 DEF Wanting
<1>6. ASSUME NEW b \in Blocks, ReceiveBlockCompleted(b) PROVE Interest'
  <2>1. Shaped(steps)'
    BY <1>6, StepOps, ShapedShort DEF ReceiveBlockCompleted
  <2> QED  BY <1>6, <2>1, <1>s, TakesInSelect DEF ReceiveBlockCompleted, AmInterested
<1>7. ASSUME NEW p \in Pieces, ReceivePieceCompleted(p) PROVE Interest'
  <2>1. Shaped(steps)'
    BY <1>7, StepOps, ShapedShort DEF ReceivePieceCompleted
  <2> QED  BY <1>7, <2>1, <1>s, TakesInSelect DEF ReceivePieceCompleted, AmInterested
<1> QED  BY <1>1, <1>2, <1>3, <1>4, <1>5, <1>6, <1>7 DEF ProcessMessage, ProcessBroadcast

LEMMA InterestHandlerStep ==
  ASSUME LoopType, Interest, HandlerStep
  PROVE  Interest'
<1> USE DEF Interest
<1>q. steps \in Seq(Steps)
  BY DEF LoopType
<1>p. ASSUME NEW op, At(op), op # "interest", Proceed,
             AmInterested' => AmInterested \/ Ends(Tail(steps)), UNCHANGED meInterested
      PROVE  Interest'
  <2>1. steps # <<>> /\ Head(steps).op # "interest" /\ steps' = Tail(steps) /\ loop' = loop
    BY <1>p DEF At, Proceed
  <2> QED  BY <1>p, <1>q, <2>1, ShapedTail DEF Wanting
<1>i. ASSUME At("interest"), Proceed, AmInterested' => meInterested' PROVE Interest'
  <2>1. steps # <<>> /\ steps' = Tail(steps)
    BY <1>i DEF At, Proceed
  <2> QED  BY <1>i, <1>q, <2>1, ShapedTail DEF Wanting
<1>e. ASSUME EndLoop PROVE Interest'
  BY <1>e, ShapedShort DEF EndLoop, Wanting
<1>1. CASE SayMessage \/ StoreStep \/ RequestsDone \/ UploadNext \/ NothingToUpload
  BY <1>1, <1>p DEF SayMessage, StoreStep, RequestsDone, UploadNext, NothingToUpload, connVars,
                    meVars, AmInterested
<1>2. CASE QueueStep
  <2>1. /\ At("queue") /\ steps # <<>> /\ Head(steps).op = "queue"
        /\ UNCHANGED <<connVars, loop>>
    BY <1>2 DEF QueueStep, At, Proceed
  <2>2. CASE Proceed
    BY <2>1, <2>2, <1>p DEF connVars, meVars, AmInterested
  <2>3. ASSUME NEW p \in Head(steps).pieces,
               steps' = <<Insert(IncompleteBlocks(p)), Queue(Head(steps).pieces \ {p})>> \o Tail(steps)
        PROVE  Interest'
    <3>1. Insert(IncompleteBlocks(p)) \in Steps
      <4>1. IncompleteBlocks(p) \subseteq Blocks
        BY DEF IncompleteBlocks
      <4> QED  BY <4>1, StepTypes
    <3>2. Queue(Head(steps).pieces \ {p}) \in Steps
      <4>1. Head(steps) \in Steps
        BY <1>q, <2>1
      <4>2. Head(steps).pieces \subseteq Pieces
        BY <2>1, <4>1 DEF Steps
      <4> QED  BY <4>2, StepTypes
    <3>3. Shaped(steps)' /\ Ends(steps)'
      BY <1>q, <2>1, <2>3, <3>1, <3>2, ShapedQueue
    <3> QED  BY <3>3 DEF Wanting
  <2> QED  BY <1>2, <2>2, <2>3 DEF QueueStep, Proceed
<1>3. CASE InsertStep
  <2>1. At("insert") /\ Proceed /\ UNCHANGED meInterested
    BY <1>3 DEF InsertStep, meVars
  <2>2. steps # <<>> /\ Head(steps).op = "insert" /\ Ends(steps)
    BY <2>1, <1>q DEF At, Shaped
  <2>3. Ends(Tail(steps))
    BY <1>q, <2>2, ShapedTail
  <2> QED  BY <2>1, <2>3, <1>p
<1>4. CASE InterestUnchanged \/ InterestChanges
  <2>1. At("interest") /\ Proceed /\ UNCHANGED <<meRequests, toRequest>>
    BY <1>4 DEF InterestUnchanged, InterestChanges, connVars, meVars
  <2>2. meInterested' = AmInterested
    BY <1>4 DEF InterestUnchanged, InterestChanges, connVars, meVars
  <2>3. AmInterested' <=> AmInterested
    BY <2>1 DEF AmInterested
  <2> QED  BY <2>1, <2>2, <2>3, <1>i
<1>5. ASSUME NEW b \in Blocks, RequestOne(b) PROVE Interest'
  BY <1>5 DEF RequestOne, Wanting, AmInterested
<1>6. CASE UploadOfMissing \/ SendFails \/ DownloadIsGone
  BY <1>6, <1>e DEF UploadOfMissing, SendFails, DownloadIsGone
<1> QED  BY <1>1, <1>2, <1>3, <1>4, <1>5, <1>6 DEF HandlerStep

LEMMA InterestStep == TypeOK /\ Interest /\ [Next]_vars => Interest'
<1> SUFFICES ASSUME LoopType, Interest, [Next]_vars PROVE Interest'
  BY TypeParts
<1>1. CASE UNCHANGED vars
  BY <1>1 DEF vars, loopVars, connVars, meVars, Interest, Wanting, AmInterested
<1>2. CASE ProcessMessage \/ ProcessBroadcast
  BY <1>2, InterestMessageStep
<1>3. CASE HandlerStep
  BY <1>3, InterestHandlerStep
<1>4. CASE LeaveLoop \/ FinishLoop
  <2>1. Shaped(steps)'
    BY <1>4, ShapedShort DEF LeaveLoop, FinishLoop, EndLoop, Interest
  <2>2. loop' # "running"
    BY <1>4 DEF LeaveLoop, FinishLoop, EndLoop
  <2> QED  BY <2>1, <2>2 DEF Interest, Wanting
<1>5. CASE WriteLoop \/ ReadLoop \/ (\E b \in Blocks : StoreBlock(b)) \/ ManagerSends
  BY <1>5 DEF WriteLoop, WriterTakes, WriterWrites, WriterNotifies, WriterFails, WriterEnds,
              EndWriteLoop, ReadLoop, ReaderSends, ReaderEnds, StoreBlock, ManagerSends,
              loopVars, connVars, meVars, Interest, Wanting, AmInterested
<1> QED  BY <1>1, <1>2, <1>3, <1>4, <1>5 DEF Next, PeerLoop

LEMMA InitInterest == Init => Interest
<1> SUFFICES ASSUME Init PROVE Interest
  OBVIOUS
<1>1. Shaped(steps)
  BY ShapedShort, StepOps DEF Init
<1>2. ~AmInterested
  BY DEF Init, AmInterested
<1> QED  BY <1>1, <1>2 DEF Interest, Wanting

(* A connection with blocks to request or requested has signalled its       *)
(* interest whenever it takes the next message.                             *)
THEOREM InterestHolds == Spec => []WantingIsInterested
<1>1. Interest => WantingIsInterested
  BY NotWanting DEF WantingIsInterested
<1> QED  BY <1>1, InitType, TypeStep, InitInterest, InterestStep, PTL DEF Spec

LEMMA OnTail ==
  ASSUME NEW S, NEW s \in Seq(S), s # <<>>
  PROVE  /\ \A i : On(s, i) => i = Head(s) \/ On(Tail(s), i)
         /\ \A i : On(Tail(s), i) => On(s, i)
         /\ On(s, Head(s))
<1>1. /\ Len(s) \in Nat \ {0} /\ DOMAIN s = 1..Len(s) /\ Head(s) = s[1]
      /\ DOMAIN Tail(s) = 1..(Len(s) - 1)
      /\ \A k \in 1..(Len(s) - 1) : Tail(s)[k] = s[k + 1]
  OBVIOUS
<1> DEFINE r == Tail(s)
<1> HIDE DEF r
<1>2. ASSUME NEW i, On(s, i) PROVE i = Head(s) \/ On(r, i)
  <2>1. PICK k \in 1..Len(s) : s[k] = i
    BY <1>1, <1>2 DEF On
  <2>2. CASE k = 1
    BY <2>1, <2>2, <1>1
  <2>3. CASE k # 1
    <3>1. k - 1 \in DOMAIN r /\ r[k - 1] = i
      BY <2>1, <2>3, <1>1 DEF r
    <3> QED  BY <3>1 DEF On
  <2> QED  BY <2>2, <2>3
<1>3. ASSUME NEW i, On(r, i) PROVE On(s, i)
  <2>1. PICK k \in 1..(Len(s) - 1) : r[k] = i
    BY <1>1, <1>3 DEF On, r
  <2> QED  BY <2>1, <1>1 DEF On, r
<1>4. On(s, Head(s))
  BY <1>1 DEF On
<1> QED  BY <1>2, <1>3, <1>4 DEF r

LEMMA OnAppend ==
  ASSUME NEW S, NEW s \in Seq(S), NEW e \in S
  PROVE  \A i : On(Append(s, e), i) <=> On(s, i) \/ i = e
<1> DEFINE r == Append(s, e)
<1>1. /\ Len(s) \in Nat /\ DOMAIN s = 1..Len(s) /\ DOMAIN r = 1..(Len(s) + 1)
      /\ \A k \in 1..Len(s) : r[k] = s[k]
      /\ r[Len(s) + 1] = e
  OBVIOUS
<1> HIDE DEF r
<1> QED  BY <1>1 DEF On, r

LEMMA OnConcat ==
  ASSUME NEW S, NEW s \in Seq(S), NEW t \in Seq(S)
  PROVE  \A i : On(s \o t, i) <=> On(s, i) \/ On(t, i)
<1> DEFINE r == s \o t
<1>1. /\ Len(s) \in Nat /\ DOMAIN s = 1..Len(s) /\ Len(t) \in Nat /\ DOMAIN t = 1..Len(t)
      /\ DOMAIN r = 1..(Len(s) + Len(t))
      /\ \A k \in 1..Len(s) : r[k] = s[k]
      /\ \A k \in 1..Len(t) : r[Len(s) + k] = t[k]
  OBVIOUS
<1>2. \A k \in DOMAIN r : k \in 1..Len(s) \/ (k - Len(s) \in 1..Len(t) /\ r[k] = t[k - Len(s)])
  BY <1>1
<1> HIDE DEF r
<1>3. ASSUME NEW i PROVE On(r, i) => On(s, i) \/ On(t, i)
  BY <1>1, <1>2 DEF On
<1>4. ASSUME NEW i PROVE On(s, i) => On(r, i)
  <2>1. \A k \in DOMAIN s : k \in DOMAIN r /\ r[k] = s[k]
    BY <1>1
  <2> QED  BY <2>1 DEF On
<1>5. ASSUME NEW i PROVE On(t, i) => On(r, i)
  <2>1. \A k \in DOMAIN t : Len(s) + k \in DOMAIN r /\ r[Len(s) + k] = t[k]
    BY <1>1
  <2> QED  BY <2>1 DEF On
<1> QED  BY <1>3, <1>4, <1>5 DEF r

LEMMA OnShort ==
  /\ \A i : ~On(<<>>, i)
  /\ \A a, i : On(<<a>>, i) <=> i = a
  /\ \A a, b, i : On(<<a, b>>, i) <=> i \in {a, b}
  /\ \A a, b, c, i : On(<<a, b, c>>, i) <=> i \in {a, b, c}
<1>1. \A i : ~On(<<>>, i)
  BY DEF On
<1>2. \A a, i : On(<<a>>, i) <=> i = a
  BY DEF On
<1>3. ASSUME NEW a, NEW b, NEW i PROVE On(<<a, b>>, i) <=> i \in {a, b}
  <2>1. DOMAIN <<a, b>> = {1, 2} /\ <<a, b>>[1] = a /\ <<a, b>>[2] = b
    OBVIOUS
  <2> QED  BY <2>1 DEF On
<1>4. ASSUME NEW a, NEW b, NEW c, NEW i PROVE On(<<a, b, c>>, i) <=> i \in {a, b, c}
  <2>1. /\ DOMAIN <<a, b, c>> = {1, 2, 3}
        /\ <<a, b, c>>[1] = a /\ <<a, b, c>>[2] = b /\ <<a, b, c>>[3] = c
    OBVIOUS
  <2> QED  BY <2>1 DEF On
<1> QED  BY <1>1, <1>2, <1>3, <1>4

(* A handler that goes on keeps what it has still to do.                    *)
LEMMA ProceedKeeps ==
  ASSUME LoopType, NEW op, At(op), Proceed
  PROVE  /\ steps \in Seq(Steps) /\ steps # <<>> /\ steps' = Tail(steps)
         /\ Head(steps) \in Steps /\ Head(steps).op = op
         /\ \A i : On(steps, i) => i = Head(steps) \/ On(steps', i)
         /\ \A i : On(steps', i) => On(steps, i)
<1>1. steps \in Seq(Steps) /\ steps # <<>> /\ steps' = Tail(steps) /\ Head(steps).op = op
  BY DEF LoopType, At, Proceed
<1> QED  BY <1>1, OnTail

(* The requests are filled up.                                              *)
LEMMA EndsOnRequest ==
  ASSUME LoopType, Ends(steps)
  PROVE  On(Tail(steps), Do("request"))
<1>1. steps \in Seq(Steps) /\ Len(steps) >= 2 /\ steps[Len(steps)] = Do("request")
  BY DEF LoopType, Ends
<1>2. Len(steps) - 1 \in DOMAIN Tail(steps) /\ Tail(steps)[Len(steps) - 1] = Do("request")
  BY <1>1
<1> QED  BY <1>2 DEF On

LEMMA FilledMessageStep ==
  ASSUME ProcessMessage \/ ProcessBroadcast, RunsShort'
  PROVE  RunsShort \/ CancelsRequest
<1>s. ASSUME InSelect, CanRequest' => CanRequest PROVE RunsShort
  <2>1. loop = "running" /\ ~On(steps, Do("request"))
    BY <1>s, OnShort DEF InSelect, Active
  <2> QED  BY <1>s, <2>1 DEF RunsShort
<1>1. CASE \/ ReceiveKeepAlive \/ ReceiveInterested \/ ReceiveNotInterested
           \/ (\E b \in Blocks : ReceiveRequest(b) \/ ReceiveCancel(b))
           \/ (\E p \in Pieces : ReceivePieceCompleted(p))
           \/ ReceiveDownloadCompleted \/ ReceiveBlockUploaded
  BY <1>1, <1>s, TakesInSelect
     DEF ReceiveKeepAlive, ReceiveInterested, ReceiveNotInterested, ReceiveRequest,
         ReceiveCancel, ReceivePieceCompleted, ReceiveDownloadCompleted, ReceiveBlockUploaded,
         connVars, meVars, CanRequest
<1>2. CASE ReceivePort
  BY <1>2 DEF ReceivePort, EndLoop, RunsShort
<1>3. CASE ReceiveChoke
  BY <1>3 DEF ReceiveChoke, RunsShort, CanRequest
<1>4. CASE ReceiveUnChoke
  <2>1. CASE meChoked
    BY <1>4, <2>1, OnShort DEF ReceiveUnChoke, RunsShort
  <2>2. CASE ~meChoked
    BY <1>4, <2>2, <1>s, TakesInSelect DEF ReceiveUnChoke, CanRequest
  <2> QED  BY <2>1, <2>2
<1>5. CASE \/ \E p \in Pieces : ReceiveHave(p)
           \/ \E S \in SUBSET Pieces : ReceiveBitfield(S)
           \/ \E b \in Blocks : ReceivePiece(b)
  <2>1. \E a : steps' = <<a, Do("interest"), Do("request")>>
    BY <1>5 DEF ReceiveHave, ReceiveBitfield, ReceivePiece
  <2>2. On(steps', Do("request"))
    BY <2>1, OnShort
  <2> QED  BY <2>2 DEF RunsShort
<1>6. ASSUME NEW b \in Blocks, ReceiveBlockCompleted(b) PROVE RunsShort \/ CancelsRequest
  <2>1. CASE b \in meRequests
    BY <1>6, <2>1 DEF ReceiveBlockCompleted, Takes, CancelsRequest
  <2>2. CASE b \notin meRequests
    <3>1. meRequests' = meRequests
      BY <1>6, <2>2 DEF ReceiveBlockCompleted
    <3> QED  BY <1>6, <3>1, <1>s, TakesInSelect DEF ReceiveBlockCompleted, CanRequest
  <2> QED  BY <2>1, <2>2
<1> QED  BY <1>1, <1>2, <1>3, <1>4, <1>5, <1>6 DEF ProcessMessage, ProcessBroadcast

LEMMA FilledHandlerStep ==
  ASSUME LoopType, Interest, HandlerStep, RunsShort'
  PROVE  RunsShort
<1>p. ASSUME NEW op, At(op), op # "request", Proceed, CanRequest' => CanRequest
      PROVE  RunsShort
  <2>1. loop = "running"
    BY <1>p DEF At, Active
  <2>2. Head(steps) # Do("request")
    BY <1>p, ProceedKeeps, StepOps
  <2>3. ~On(steps, Do("request"))
    BY <1>p, <2>2, ProceedKeeps DEF RunsShort
  <2> QED  BY <1>p, <2>1, <2>3 DEF RunsShort
<1>1. CASE SayMessage \/ StoreStep \/ InterestUnchanged \/ UploadNext \/ NothingToUpload
  BY <1>1, <1>p DEF SayMessage, StoreStep, InterestUnchanged, UploadNext, NothingToUpload,
                    connVars, meVars, CanRequest
<1>2. CASE QueueStep
  <2>1. /\ At("queue") /\ steps # <<>> /\ Head(steps).op = "queue" /\ steps \in Seq(Steps)
        /\ UNCHANGED <<connVars, loop>>
    BY <1>2 DEF QueueStep, At, Proceed, LoopType
  <2>2. CASE Proceed
    BY <2>1, <2>2, <1>p DEF connVars, meVars, CanRequest
  <2>3. ASSUME NEW a \in Steps, NEW b \in Steps, steps' = <<a, b>> \o Tail(steps)
        PROVE  RunsShort
    <3>1. Tail(steps) \in Seq(Steps) /\ <<a, b>> \in Seq(Steps)
      BY <2>1, ShortSequences
    <3>2. \A i : On(Tail(steps), i) => On(steps', i)
      BY <2>3, <3>1, OnConcat
    <3>3. Do("request") # Head(steps)
      BY <2>1, StepOps
    <3>4. On(steps, Do("request")) => On(steps', Do("request"))
      BY <2>1, <3>2, <3>3, OnTail
    <3> QED  BY <2>1, <3>4 DEF RunsShort, CanRequest, connVars, meVars
  <2>4. ASSUME NEW p \in Head(steps).pieces
        PROVE  Insert(IncompleteBlocks(p)) \in Steps /\ Queue(Head(steps).pieces \ {p}) \in Steps
    <3>1. IncompleteBlocks(p) \subseteq Blocks
      BY DEF IncompleteBlocks
    <3>2. Head(steps) \in Steps
      BY <2>1
    <3>3. Head(steps).pieces \subseteq Pieces
      BY <2>1, <3>2 DEF Steps
    <3> QED  BY <3>1, <3>3, StepTypes
  <2> QED  BY <1>2, <2>2, <2>3, <2>4 DEF QueueStep, Proceed
<1>3. CASE InsertStep
  <2>1. steps # <<>> /\ Head(steps).op = "insert" /\ steps' = Tail(steps) /\ steps \in Seq(Steps)
    BY <1>3 DEF InsertStep, At, Proceed, LoopType
  <2>2. Ends(steps)
    BY <2>1 DEF Interest, Shaped
  <2> QED  BY <2>1, <2>2, EndsOnRequest DEF RunsShort
<1>4. CASE InterestChanges
  <2>1. CASE AmInterested
    <3>1. loop = "running" /\ steps' = Tail(steps) /\ meInterested # AmInterested
      BY <1>4 DEF InterestChanges, At, Active, Proceed
    <3>2. CASE meInterested
      BY <1>4, <2>1, <3>2, <1>p DEF InterestChanges, CanRequest
    <3>3. CASE ~meInterested
      <4>1. Ends(steps)
        BY <2>1, <3>1, <3>3 DEF Interest, Wanting
      <4> QED  BY <3>1, <4>1, EndsOnRequest DEF RunsShort
    <3> QED  BY <3>2, <3>3
  <2>2. CASE ~AmInterested
    BY <1>4, <2>2 DEF InterestChanges, RunsShort, CanRequest, AmInterested
  <2> QED  BY <2>1, <2>2
<1>5. CASE RequestsDone
  BY <1>5 DEF RequestsDone, RunsShort, CanRequest, connVars, meVars
<1>6. ASSUME NEW b \in Blocks, RequestOne(b) PROVE RunsShort
  <2>1. /\ steps \in Seq(Steps) /\ steps # <<>> /\ Head(steps).op = "request" /\ steps' = steps
        /\ Head(steps) \in Steps
    BY <1>6 DEF RequestOne, At, LoopType
  <2>2. Head(steps) = Do("request")
    BY <2>1 DEF Steps, Do
  <2>3. On(steps', Do("request"))
    BY <2>1, <2>2, OnTail
  <2> QED  BY <2>3 DEF RunsShort
<1>7. CASE UploadOfMissing \/ SendFails \/ DownloadIsGone
  BY <1>7 DEF UploadOfMissing, SendFails, DownloadIsGone, EndLoop, RunsShort
<1> QED  BY <1>1, <1>2, <1>3, <1>4, <1>5, <1>6, <1>7 DEF HandlerStep

(* No handler but that of BlockCompleted leaves blocks that may be          *)
(* requested at once and are not.                                           *)
THEOREM RequestsAreFilledUp == Spec => PipelineIsFilled
<1>1. ASSUME TypeOK, Interest, [Next]_vars, RunsShort' PROVE RunsShort \/ CancelsRequest
  <2>t. LoopType
    BY <1>1, TypeParts
  <2>1. CASE ProcessMessage \/ ProcessBroadcast
    BY <1>1, <2>1, FilledMessageStep
  <2>2. CASE HandlerStep
    BY <1>1, <2>t, <2>2, FilledHandlerStep
  <2>3. CASE LeaveLoop \/ FinishLoop
    BY <1>1, <2>3 DEF LeaveLoop, FinishLoop, EndLoop, RunsShort
  <2>4. CASE \/ UNCHANGED vars \/ WriteLoop \/ ReadLoop \/ (\E b \in Blocks : StoreBlock(b))
             \/ ManagerSends
    BY <1>1, <2>4
       DEF WriteLoop, WriterTakes, WriterWrites, WriterNotifies, WriterFails, WriterEnds,
           EndWriteLoop, ReadLoop, ReaderSends, ReaderEnds, StoreBlock, ManagerSends, vars,
           loopVars, connVars, meVars, RunsShort, CanRequest
  <2> QED  BY <1>1, <2>1, <2>2, <2>3, <2>4 DEF Next, PeerLoop
<1>2. TypeOK /\ Interest /\ [Next]_vars => [RunsShort' => RunsShort \/ CancelsRequest]_vars
  BY <1>1
<1> QED  BY <1>2, InitType, TypeStep, InitInterest, InterestStep, PTL DEF Spec, PipelineIsFilled

-----------------------------------------------------------------------------
(* The broadcasts on their way.  Only the peer loop takes them.             *)
LEMMA WayKept ==
  ASSUME TypeOK, [Next]_vars, loop' = "running", NEW j, OnItsWay(j)
  PROVE  OnItsWay(j)' \/ (Takes(j) /\ (ProcessMessage \/ ProcessBroadcast))
<1>t. pending \in Seq(Broadcasts) /\ ipc \in Seq(IPC)
  BY DEF TypeOK
<1>s. ASSUME NEW task, NEW i \in IPC, SendIpc(task, i), UNCHANGED pending PROVE OnItsWay(j)'
  <2>1. On(ipc, j) => On(ipc', j)
    BY <1>s, <1>t, OnAppend DEF SendIpc
  <2> QED  BY <1>s, <2>1 DEF OnItsWay
<1>1. CASE UNCHANGED <<pending, ipc>>
  BY <1>1 DEF OnItsWay
<1>2. ASSUME NEW i, Takes(i) PROVE OnItsWay(j)' \/ Takes(j)
  <2>1. ipc # <<>> /\ Head(ipc) = i /\ ipc' = Tail(ipc) /\ pending' = pending
    BY <1>2 DEF Takes, outsideVars
  <2>2. On(ipc, j) => j = i \/ On(ipc', j)
    BY <2>1, <1>t, OnTail
  <2> QED  BY <1>2, <2>1, <2>2 DEF OnItsWay
<1>3. CASE EndLoop
  BY <1>3 DEF EndLoop
<1>4. CASE WriterNotifies
  BY <1>4, <1>s, IpcTypes DEF WriterNotifies, outsideVars
<1>5. ASSUME NEW m \in RemoteMessages, ReaderSends(m) PROVE OnItsWay(j)'
  <2>1. m \in IPC
    BY PeerConnectionAssumption, IpcTypes
  <2> QED  BY <1>5, <2>1, <1>s DEF ReaderSends
<1>6. ASSUME NEW b \in Blocks, StoreBlock(b) PROVE OnItsWay(j)'
  <2>1. pending' = pending \o Announcement(b) /\ Announcement(b) \in Seq(Broadcasts) /\ ipc' = ipc
    BY <1>6, AnnouncementType DEF StoreBlock, ipcVars
  <2>2. On(pending, j) => On(pending', j)
    BY <2>1, <1>t, OnConcat
  <2> QED  BY <2>1, <2>2 DEF OnItsWay
<1>7. CASE ManagerSends
  <2>1. /\ pending # <<>> /\ pending' = Tail(pending) /\ ipc' = Append(ipc, Head(pending))
    BY <1>7 DEF ManagerSends, SendIpc
  <2>2. Head(pending) \in IPC
    BY <2>1, <1>t, IpcTypes
  <2>3. On(pending, j) => j = Head(pending) \/ On(pending', j)
    BY <2>1, <1>t, OnTail
  <2>4. On(ipc, j) \/ j = Head(pending) => On(ipc', j)
    BY <2>1, <2>2, <1>t, OnAppend
  <2> QED  BY <2>3, <2>4 DEF OnItsWay
<1>8. CASE UNCHANGED vars
  BY <1>8, <1>1 DEF vars, ipcVars, outsideVars
<1>9. CASE ProcessMessage \/ ProcessBroadcast
  BY <1>9, <1>2, <1>3
     DEF ProcessMessage, ReceiveKeepAlive, ReceivePort, ReceiveChoke, ReceiveUnChoke,
         ReceiveInterested, ReceiveNotInterested, ReceiveHave, ReceiveBitfield,
         ReceiveRequest, ReceivePiece, ReceiveCancel, ProcessBroadcast,
         ReceiveBlockCompleted, ReceivePieceCompleted, ReceiveDownloadCompleted,
         ReceiveBlockUploaded
<1>10. CASE HandlerStep
  BY <1>10, <1>1, <1>3
     DEF HandlerStep, SayMessage, StoreStep, QueueStep, InsertStep, InterestUnchanged,
         InterestChanges, RequestOne, RequestsDone, UploadNext, UploadOfMissing,
         NothingToUpload, SendFails, DownloadIsGone, ipcVars, outsideVars
<1>11. CASE LeaveLoop \/ FinishLoop
  BY <1>11, <1>3 DEF LeaveLoop, FinishLoop
<1>12. CASE WriteLoop
  BY <1>12, <1>1, <1>4 DEF WriteLoop, WriterTakes, WriterWrites, WriterFails, WriterEnds,
                           EndWriteLoop, ipcVars, outsideVars
<1>13. CASE ReadLoop
  BY <1>13, <1>1, <1>5 DEF ReadLoop, ReaderEnds, ipcVars
<1> QED  BY <1>6, <1>7, <1>8, <1>9, <1>10, <1>11, <1>12, <1>13 DEF Next, PeerLoop

(* What the download task has stored; only StoreBlock changes it.           *)
LEMMA StoredGrows ==
  ASSUME [Next]_vars
  PROVE  \/ UNCHANGED stored
         \/ \E b \in Blocks : StoreBlock(b)
<1>1. CASE UNCHANGED vars
  BY <1>1 DEF vars, outsideVars
<1>2. CASE ProcessMessage \/ ProcessBroadcast
  BY <1>2 DEF ProcessMessage, ReceiveKeepAlive, ReceivePort, ReceiveChoke, ReceiveUnChoke,
              ReceiveInterested, ReceiveNotInterested, ReceiveHave, ReceiveBitfield,
              ReceiveRequest, ReceivePiece, ReceiveCancel, ProcessBroadcast,
              ReceiveBlockCompleted, ReceivePieceCompleted, ReceiveDownloadCompleted,
              ReceiveBlockUploaded, Takes, outsideVars
<1>3. CASE HandlerStep
  BY <1>3 DEF HandlerStep, SayMessage, StoreStep, QueueStep, InsertStep, InterestUnchanged,
              InterestChanges, RequestOne, RequestsDone, UploadNext, UploadOfMissing,
              NothingToUpload, SendFails, DownloadIsGone, outsideVars
<1>4. CASE LeaveLoop \/ FinishLoop \/ WriteLoop \/ ReadLoop \/ ManagerSends
  BY <1>4 DEF LeaveLoop, FinishLoop, WriteLoop, WriterTakes, WriterWrites, WriterNotifies,
              WriterFails, WriterEnds, EndWriteLoop, ReadLoop, ReaderSends, ReaderEnds,
              ManagerSends, outsideVars
<1> QED  BY <1>1, <1>2, <1>3, <1>4 DEF Next, PeerLoop

LEMMA AnnouncementSays ==
  \A b \in Blocks : /\ On(Announcement(b), OfBlock("BlockCompleted", b))
                   /\ On(Announcement(b), OfPiece("PieceCompleted", b[1]))
<1> TAKE b \in Blocks
<1> DEFINE two == <<OfBlock("BlockCompleted", b), OfPiece("PieceCompleted", b[1])>>
<1> DEFINE last == IF Pieces \subseteq Complete \cup {b[1]} THEN <<Signal("DownloadCompleted")>> ELSE <<>>
<1>1. OfBlock("BlockCompleted", b) \in Broadcasts /\ OfPiece("PieceCompleted", b[1]) \in Broadcasts
      /\ Signal("DownloadCompleted") \in Broadcasts
  BY BlockTypes, IpcTypes
<1>2. two \in Seq(Broadcasts) /\ last \in Seq(Broadcasts)
  BY <1>1, ShortSequences
<1>3. On(two, OfBlock("BlockCompleted", b)) /\ On(two, OfPiece("PieceCompleted", b[1]))
  BY OnShort
<1>4. Announcement(b) = two \o last
  BY DEF Announcement
<1> HIDE DEF two, last
<1> QED  BY <1>2, <1>3, <1>4, OnConcat

LEMMA StoreAnnounces ==
  ASSUME TypeOK, NEW b \in Blocks, StoreBlock(b)
  PROVE  /\ OnItsWay(OfBlock("BlockCompleted", b))'
         /\ OnItsWay(OfPiece("PieceCompleted", b[1]))'
         /\ stored' = stored \cup {b} /\ Complete' = Complete \cup {b[1]}
<1>1. /\ pending \in Seq(Broadcasts) /\ Announcement(b) \in Seq(Broadcasts)
      /\ pending' = pending \o Announcement(b) /\ stored' = stored \cup {b}
  BY AnnouncementType DEF TypeOK, StoreBlock
<1>2. \A i : On(Announcement(b), i) => On(pending', i)
  BY <1>1, OnConcat
<1>3. Complete' = Complete \cup {b[1]}
  BY <1>1 DEF Complete
<1> QED  BY <1>1, <1>2, <1>3, AnnouncementSays DEF OnItsWay

(* The news of a stored block or piece is taken by the handler for it.      *)
LEMMA NewsTaken ==
  ASSUME ProcessMessage \/ ProcessBroadcast
  PROVE  /\ \A b \in Blocks : Takes(OfBlock("BlockCompleted", b)) => ReceiveBlockCompleted(b)
         /\ \A p \in Pieces : Takes(OfPiece("PieceCompleted", p)) => ReceivePieceCompleted(p)
<1>1. ASSUME NEW i, NEW j, Takes(i), Takes(j) PROVE i = j
  BY <1>1 DEF Takes
<1>2. ASSUME NEW j, Takes(j), j.type \in {"BlockCompleted", "PieceCompleted"}
      PROVE  \/ \E b \in Blocks : ReceiveBlockCompleted(b) /\ j = OfBlock("BlockCompleted", b)
             \/ \E p \in Pieces : ReceivePieceCompleted(p) /\ j = OfPiece("PieceCompleted", p)
  <2>t. /\ \A t : Signal(t).type = t
        /\ \A t, p : OfPiece(t, p).type = t
        /\ \A t, b : OfBlock(t, b).type = t
        /\ \A S : Bitfield(S).type = "Bitfield"
    BY DEF Signal, OfPiece, OfBlock, Bitfield
  <2>h. Head(ipc) = j
    BY <1>2 DEF Takes
  <2>1. ~ProcessMessage
    <3>1. ~ReceivePort
      BY <1>2, <2>t, <2>h DEF ReceivePort
    <3>2. /\ ~ReceiveKeepAlive /\ ~ReceiveChoke /\ ~ReceiveUnChoke /\ ~ReceiveInterested
          /\ ~ReceiveNotInterested
      BY <1>1, <1>2, <2>t DEF ReceiveKeepAlive, ReceiveChoke, ReceiveUnChoke, ReceiveInterested,
                              ReceiveNotInterested
    <3>3. \A p : ~ReceiveHave(p)
      BY <1>1, <1>2, <2>t DEF ReceiveHave
    <3>4. \A S : ~ReceiveBitfield(S)
      BY <1>1, <1>2, <2>t DEF ReceiveBitfield
    <3>5. \A b : ~ReceiveRequest(b) /\ ~ReceivePiece(b) /\ ~ReceiveCancel(b)
      BY <1>1, <1>2, <2>t DEF ReceiveRequest, ReceivePiece, ReceiveCancel
    <3> QED  BY <3>1, <3>2, <3>3, <3>4, <3>5 DEF ProcessMessage
  <2>2. ~ReceiveDownloadCompleted /\ ~ReceiveBlockUploaded
    BY <1>1, <1>2 DEF ReceiveDownloadCompleted, ReceiveBlockUploaded, Signal
  <2> QED  BY <1>1, <1>2, <2>1, <2>2 DEF ProcessBroadcast, ReceiveBlockCompleted,
                                         ReceivePieceCompleted
<1>3. ASSUME NEW b \in Blocks, Takes(OfBlock("BlockCompleted", b)) PROVE ReceiveBlockCompleted(b)
  <2>1. \A c : OfBlock("BlockCompleted", b) = OfBlock("BlockCompleted", c) => b = c
    BY DEF OfBlock
  <2>2. OfBlock("BlockCompleted", b).type = "BlockCompleted"
    BY DEF OfBlock
  <2>3. \A p : OfBlock("BlockCompleted", b) # OfPiece("PieceCompleted", p)
    BY DEF OfBlock, OfPiece
  <2> QED  BY <1>2, <1>3, <2>1, <2>2, <2>3
<1>4. ASSUME NEW p \in Pieces, Takes(OfPiece("PieceCompleted", p)) PROVE ReceivePieceCompleted(p)
  <2>1. \A q : OfPiece("PieceCompleted", p) = OfPiece("PieceCompleted", q) => p = q
    BY DEF OfPiece
  <2>2. OfPiece("PieceCompleted", p).type = "PieceCompleted"
    BY DEF OfPiece
  <2>3. \A b : OfPiece("PieceCompleted", p) # OfBlock("BlockCompleted", b)
    BY DEF OfBlock, OfPiece
  <2> QED  BY <1>2, <1>4, <2>1, <2>2, <2>3
<1> QED  BY <1>3, <1>4

(* A block is sought if it is to be requested, is requested, or is in a     *)
(* reply of the download task that is yet to be inserted.                   *)
BeingInserted(b) == \E B \in SUBSET Blocks : b \in B /\ On(steps, Insert(B))
Sought(b) == b \in toRequest \cup meRequests \/ BeingInserted(b)

SoughtAreTakenOut ==
  loop = "running" =>
    \A b \in stored : Sought(b) => OnItsWay(OfBlock("BlockCompleted", b))

LEMMA SoughtMessageStep ==
  ASSUME ProcessMessage \/ ProcessBroadcast, loop' = "running", NEW b, Sought(b)'
  PROVE  b \in toRequest \cup meRequests /\ ~ReceiveBlockCompleted(b)
<1>n. ASSUME \/ steps' = <<>>
             \/ \E x : steps' = <<x>> /\ x.op # "insert"
             \/ \E x, y : steps' = <<x, y>> /\ x.op # "insert" /\ y.op # "insert"
             \/ \E x, y, z : /\ steps' = <<x, y, z>>
                             /\ x.op # "insert" /\ y.op # "insert" /\ z.op # "insert"
      PROVE  ~BeingInserted(b)'
  BY <1>n, OnShort, StepOps DEF BeingInserted
<1>1. ~BeingInserted(b)'
  <2>1. CASE \/ ReceiveKeepAlive \/ ReceiveChoke \/ ReceiveNotInterested
             \/ \E c \in Blocks : ReceiveCancel(c)
    <3>1. steps' = <<>>
      BY <2>1, TakesInSelect DEF ReceiveKeepAlive, ReceiveChoke, ReceiveNotInterested,
                                 ReceiveCancel
    <3> QED  BY <3>1, <1>n
  <2>2. CASE ReceivePort
    BY <2>2 DEF ReceivePort, EndLoop
  <2>3. CASE ReceiveUnChoke \/ ReceiveBlockUploaded \/ ReceiveDownloadCompleted
             \/ (\E c \in Blocks : ReceiveRequest(c) \/ ReceiveBlockCompleted(c))
    <3>1. steps' = <<>> \/ \E x : steps' = <<x>> /\ x.op # "insert"
      BY <2>3, StepOps DEF ReceiveUnChoke, ReceiveBlockUploaded, ReceiveDownloadCompleted,
                           ReceiveRequest, ReceiveBlockCompleted
    <3> QED  BY <3>1, <1>n
  <2>4. CASE ReceiveInterested \/ \E p \in Pieces : ReceivePieceCompleted(p)
    <3>1. steps' = <<>> \/ \E x, y : steps' = <<x, y>> /\ x.op # "insert" /\ y.op # "insert"
      BY <2>4, StepOps DEF ReceiveInterested, ReceivePieceCompleted
    <3> QED  BY <3>1, <1>n
  <2>5. CASE \/ \E p \in Pieces : ReceiveHave(p)
             \/ \E S \in SUBSET Pieces : ReceiveBitfield(S)
             \/ \E c \in Blocks : ReceivePiece(c)
    <3>o. /\ \A op : Do(op).op = op
          /\ \A S : Queue(S).op = "queue"
      BY StepOps
    <3>1. \E x : x.op # "insert" /\ steps' = <<x, Do("interest"), Do("request")>>
      <4>1. ASSUME NEW c, ReceivePiece(c)
            PROVE  steps' = <<Do("store"), Do("interest"), Do("request")>>
        BY <4>1 DEF ReceivePiece
      <4>2. ASSUME NEW S, ReceiveBitfield(S)
            PROVE  steps' = <<Queue(S), Do("interest"), Do("request")>>
        BY <4>2 DEF ReceiveBitfield
      <4>3. ASSUME NEW p, ReceiveHave(p)
            PROVE  steps' = <<Queue({p}), Do("interest"), Do("request")>>
        BY <4>3 DEF ReceiveHave
      <4> QED  BY <2>5, <4>1, <4>2, <4>3, <3>o
    <3> PICK x : x.op # "insert" /\ steps' = <<x, Do("interest"), Do("request")>>
      BY <3>1
    <3>2. Do("interest").op # "insert" /\ Do("request").op # "insert"
      BY <3>o
    <3> QED  BY <3>2, <1>n
  <2> QED  BY <2>1, <2>2, <2>3, <2>4, <2>5 DEF ProcessMessage, ProcessBroadcast
<1>2. b \in (toRequest \cup meRequests)'
  BY <1>1 DEF Sought
<1>3. (toRequest \cup meRequests)' \subseteq toRequest \cup meRequests
  BY DEF ProcessMessage, ReceiveKeepAlive, ReceivePort, ReceiveChoke, ReceiveUnChoke,
         ReceiveInterested, ReceiveNotInterested, ReceiveHave, ReceiveBitfield,
         ReceiveRequest, ReceivePiece, ReceiveCancel, ProcessBroadcast,
         ReceiveBlockCompleted, ReceivePieceCompleted, ReceiveDownloadCompleted,
         ReceiveBlockUploaded, connVars, meVars
<1>4. ReceiveBlockCompleted(b) => b \notin (toRequest \cup meRequests)'
  BY DEF ReceiveBlockCompleted
<1> QED  BY <1>2, <1>3, <1>4

LEMMA SoughtHandlerStep ==
  ASSUME LoopType, HandlerStep, loop' = "running", NEW b, Sought(b)'
  PROVE  Sought(b) \/ b \notin stored
<1>p. ASSUME NEW op, At(op), Proceed, UNCHANGED <<toRequest, meRequests>> PROVE Sought(b)
  <2>1. BeingInserted(b)' => BeingInserted(b)
    BY <1>p, ProceedKeeps DEF BeingInserted
  <2> QED  BY <1>p, <2>1 DEF Sought
<1>1. CASE \/ SayMessage \/ StoreStep \/ InterestUnchanged \/ InterestChanges \/ RequestsDone
           \/ UploadNext \/ NothingToUpload
  BY <1>1, <1>p DEF SayMessage, StoreStep, InterestUnchanged, InterestChanges, RequestsDone,
                    UploadNext, NothingToUpload, connVars, meVars
<1>2. CASE QueueStep
  <2>1. /\ At("queue") /\ steps # <<>> /\ Head(steps).op = "queue" /\ steps \in Seq(Steps)
        /\ UNCHANGED connVars
    BY <1>2 DEF QueueStep, At, LoopType
  <2>2. CASE Proceed
    BY <2>1, <2>2, <1>p DEF connVars, meVars
  <2>3. ASSUME NEW p \in Head(steps).pieces,
               steps' = <<Insert(IncompleteBlocks(p)), Queue(Head(steps).pieces \ {p})>> \o Tail(steps)
        PROVE  Sought(b) \/ b \notin stored
    <3>1. Tail(steps) \in Seq(Steps) /\ Head(steps) \in Steps
      BY <2>1
    <3>2. Head(steps).pieces \subseteq Pieces /\ IncompleteBlocks(p) \subseteq Blocks
      BY <2>1, <3>1 DEF Steps, IncompleteBlocks
    <3>3. /\ Insert(IncompleteBlocks(p)) \in Steps
          /\ Queue(Head(steps).pieces \ {p}) \in Steps
      BY <3>2, StepTypes
    <3> DEFINE x == Insert(IncompleteBlocks(p))
    <3> DEFINE y == Queue(Head(steps).pieces \ {p})
    <3> DEFINE two == <<x, y>>
    <3>6. steps' = two \o Tail(steps)
      BY <2>3
    <3>9. x.op # y.op /\ x.blocks = IncompleteBlocks(p)
      BY StepOps
    <3> HIDE DEF x, y
    <3>4. two \in Seq(Steps)
      BY <3>3, ShortSequences DEF x, y
    <3>5. \A i : On(two, i) => i = x \/ i = y
      BY OnShort
    <3> HIDE DEF two
    <3>7. ASSUME NEW B \in SUBSET Blocks, b \in B, On(steps', Insert(B))
          PROVE  Sought(b) \/ b \notin stored
      <4>1. On(two, Insert(B)) \/ On(Tail(steps), Insert(B))
        BY <3>1, <3>4, <3>6, <3>7, OnConcat
      <4>2. CASE On(Tail(steps), Insert(B))
        BY <2>1, <3>7, <4>2, OnTail DEF Sought, BeingInserted
      <4>3. CASE On(two, Insert(B))
        <5>1. B = IncompleteBlocks(p)
          <6>1. Insert(B) = x
            BY <3>5, <4>3, StepOps DEF y
          <6> QED  BY <6>1, <3>9, StepOps
        <5>2. b[1] \notin Complete
          BY <3>7, <5>1 DEF IncompleteBlocks
        <5> QED  BY <5>2 DEF Complete
      <4> QED  BY <4>1, <4>2, <4>3
    <3>8. b \in (toRequest \cup meRequests)' => Sought(b)
      BY <2>1 DEF Sought, connVars, meVars
    <3> QED  BY <3>7, <3>8 DEF Sought, BeingInserted
  <2> QED  BY <1>2, <2>2, <2>3 DEF QueueStep
<1>3. CASE InsertStep
  <2>1. At("insert") /\ Proceed /\ meRequests' = meRequests
        /\ toRequest' = toRequest \cup Inserted(Head(steps).blocks)
    BY <1>3 DEF InsertStep, meVars
  <2>2. /\ steps \in Seq(Steps) /\ steps # <<>> /\ Head(steps) \in Steps
        /\ Head(steps).op = "insert" /\ \A i : On(steps', i) => On(steps, i)
    BY <2>1, ProceedKeeps
  <2>3. Head(steps).blocks \in SUBSET Blocks /\ Head(steps) = Insert(Head(steps).blocks)
    BY <2>2 DEF Steps, Insert
  <2>4. On(steps, Head(steps))
    BY <2>2, OnTail
  <2>5. \A c \in Head(steps).blocks : BeingInserted(c)
    BY <2>3, <2>4 DEF BeingInserted
  <2>6. BeingInserted(b)' => BeingInserted(b)
    BY <2>2 DEF BeingInserted
  <2> QED  BY <2>1, <2>5, <2>6 DEF Sought, Inserted
<1>4. ASSUME NEW c \in Blocks, RequestOne(c) PROVE Sought(b)
  BY <1>4 DEF RequestOne, Sought, BeingInserted
<1>5. CASE UploadOfMissing \/ SendFails \/ DownloadIsGone
  BY <1>5 DEF UploadOfMissing, SendFails, DownloadIsGone, EndLoop
<1> QED  BY <1>1, <1>2, <1>3, <1>4, <1>5 DEF HandlerStep

LEMMA SoughtStep == TypeOK /\ SoughtAreTakenOut /\ [Next]_vars => SoughtAreTakenOut'
<1> SUFFICES ASSUME TypeOK, SoughtAreTakenOut, [Next]_vars, loop' = "running",
                    NEW b \in stored', Sought(b)'
             PROVE  OnItsWay(OfBlock("BlockCompleted", b))'
  BY DEF SoughtAreTakenOut
<1>r. loop = "running" /\ LoopType
  BY RunningIsNotResumed, TypeParts
<1>k. ASSUME b \in stored, Sought(b)
      PROVE  \/ OnItsWay(OfBlock("BlockCompleted", b))'
             \/ /\ Takes(OfBlock("BlockCompleted", b))
                /\ ProcessMessage \/ ProcessBroadcast
  BY <1>r, <1>k, WayKept DEF SoughtAreTakenOut
<1>b. b \in stored => b \in Blocks
  BY DEF TypeOK
<1>1. CASE \E c \in Blocks : StoreBlock(c)
  <2> PICK c \in Blocks : StoreBlock(c)
    BY <1>1
  <2>1. CASE b = c
    BY <2>1, StoreAnnounces
  <2>2. CASE b # c
    <3>1. b \in stored /\ Sought(b)
      BY <2>2 DEF StoreBlock, Sought, BeingInserted, connVars, meVars, loopVars
    <3>2. ~Takes(OfBlock("BlockCompleted", b))
      <4>1. stored' # stored
        BY DEF StoreBlock, Complete
      <4> QED  BY <4>1 DEF Takes, outsideVars
    <3> QED  BY <1>k, <3>1, <3>2
  <2> QED  BY <2>1, <2>2
<1>2. CASE stored' = stored
  <2>1. CASE ProcessMessage \/ ProcessBroadcast
    <3>1. b \in toRequest \cup meRequests /\ ~ReceiveBlockCompleted(b)
      BY <2>1, SoughtMessageStep
    <3> QED  BY <1>2, <1>b, <1>k, <2>1, <3>1, NewsTaken DEF Sought
  <2>2. CASE HandlerStep
    <3>1. Sought(b)
      BY <1>2, <1>r, <2>2, SoughtHandlerStep
    <3>2. ~Takes(OfBlock("BlockCompleted", b))
      BY <2>2 DEF Takes, InSelect, HandlerStep, SayMessage, StoreStep, QueueStep, InsertStep,
                  InterestUnchanged, InterestChanges, RequestOne, RequestsDone, UploadNext,
                  UploadOfMissing, NothingToUpload, SendFails, DownloadIsGone, At, WouldSend
    <3> QED  BY <1>2, <1>k, <3>1, <3>2
  <2>3. CASE LeaveLoop \/ FinishLoop
    BY <2>3 DEF LeaveLoop, FinishLoop, EndLoop
  <2>4. CASE UNCHANGED vars \/ WriteLoop \/ ReadLoop \/ ManagerSends
    <3>1. UNCHANGED <<toRequest, meRequests, steps>>
      BY <2>4 DEF vars, connVars, meVars, loopVars, WriteLoop, WriterTakes, WriterWrites,
                  WriterNotifies, WriterFails, WriterEnds, EndWriteLoop, ReadLoop, ReaderSends,
                  ReaderEnds, ManagerSends
    <3>2. b \in stored /\ Sought(b)
      BY <1>2, <3>1 DEF Sought, BeingInserted
    <3>3. CASE Takes(OfBlock("BlockCompleted", b)) /\ (ProcessMessage \/ ProcessBroadcast)
      BY <3>3, <1>b, <3>2, <3>1, NewsTaken, SoughtMessageStep
    <3> QED  BY <1>k, <3>2, <3>3
  <2> QED  BY <2>1, <2>2, <2>3, <2>4, <1>1 DEF Next, PeerLoop
<1> QED  BY <1>1, <1>2, StoredGrows

(* Blocks that are stored leave the pipeline of every connection.           *)
THEOREM StoredLeave == Spec => []StoredLeaveThePipeline
<1>1. Init => SoughtAreTakenOut
  <2> SUFFICES ASSUME Init, NEW b, Sought(b) PROVE FALSE
    BY DEF SoughtAreTakenOut
  <2>1. b \notin toRequest \cup meRequests
    BY DEF Init
  <2>2. ~BeingInserted(b)
    BY OnShort, StepOps DEF Init, BeingInserted
  <2> QED  BY <2>1, <2>2 DEF Sought
<1>2. SoughtAreTakenOut => StoredLeaveThePipeline
  BY DEF SoughtAreTakenOut, StoredLeaveThePipeline, Sought
<1> QED  BY <1>1, <1>2, InitType, TypeStep, SoughtStep, PTL DEF Spec

-----------------------------------------------------------------------------
(* A message for the remote side stays on its way until it is written.      *)
LEMMA OutgoingKept ==
  ASSUME TypeOK, [Next]_vars, loop' = "running", writeLoop' # "ended",
         NEW m \in Messages, m.type # "Piece", Outgoing(m)
  PROVE  Outgoing(m)' \/ Tells(m) \subseteq announced'
<1>t. steps \in Seq(Steps) /\ writer \in Seq(Messages) /\ LoopType
  BY TypeParts DEF TypeOK
<1>w. ASSUME NEW n \in Messages, SendWriter(n)
      PROVE  /\ UNCHANGED <<writeLoop, held>>
             /\ \A o : On(writer', o) <=> On(writer, o) \/ o = n
  BY <1>t, <1>w, OnAppend DEF SendWriter
<1>p. ASSUME NEW op, At(op), op # "say", Proceed, On(steps, Say(m)) PROVE On(steps', Say(m))
  BY <1>t, <1>p, ProceedKeeps, StepOps
<1>u. ASSUME UNCHANGED <<steps, writerVars>> PROVE Outgoing(m)'
  BY <1>u DEF Outgoing, writerVars
<1>q. ASSUME NEW op, At(op), op # "say", Proceed, UNCHANGED writerVars PROVE Outgoing(m)'
  BY <1>q, <1>p DEF Outgoing, writerVars
<1>r. ASSUME NEW op, At(op), op # "say", Proceed, NEW n \in Messages, SendWriter(n)
      PROVE  Outgoing(m)'
  BY <1>r, <1>p, <1>w DEF Outgoing
<1>1. CASE ProcessMessage \/ ProcessBroadcast
  <2>1. steps = <<>> /\ UNCHANGED writerVars
    BY <1>1, TakesInSelect
       DEF ProcessMessage, ReceiveKeepAlive, ReceivePort, ReceiveChoke, ReceiveUnChoke,
           ReceiveInterested, ReceiveNotInterested, ReceiveHave, ReceiveBitfield,
           ReceiveRequest, ReceivePiece, ReceiveCancel, ProcessBroadcast,
           ReceiveBlockCompleted, ReceivePieceCompleted, ReceiveDownloadCompleted,
           ReceiveBlockUploaded, Takes, InSelect
  <2> QED  BY <2>1, OnShort DEF Outgoing, writerVars
<1>2. CASE HandlerStep
  <2>1. CASE SayMessage
    <3>1. /\ At("say") /\ Proceed /\ SendWriter(Head(steps).message)
      BY <2>1 DEF SayMessage
    <3>2. /\ Head(steps) \in Steps /\ Head(steps).op = "say"
          /\ On(steps, Say(m)) => Say(m) = Head(steps) \/ On(steps', Say(m))
      BY <1>t, <3>1, ProceedKeeps
    <3>3. Head(steps).message \in Messages
      BY <3>2 DEF Steps
    <3>4. Say(m) = Head(steps) => m = Head(steps).message
      BY StepOps
    <3> QED  BY <3>1, <3>2, <3>3, <3>4, <1>w DEF Outgoing
  <2>2. CASE StoreStep \/ InsertStep \/ InterestUnchanged \/ RequestsDone \/ NothingToUpload
    BY <2>2, <1>q DEF StoreStep, InsertStep, InterestUnchanged, RequestsDone, NothingToUpload
  <2>3. CASE QueueStep
    <3>1. /\ At("queue") /\ steps # <<>> /\ Head(steps).op = "queue" /\ UNCHANGED writerVars
      BY <2>3 DEF QueueStep, At
    <3>2. CASE Proceed
      BY <3>1, <3>2, <1>q
    <3>3. ASSUME NEW x \in Steps, NEW y \in Steps, steps' = <<x, y>> \o Tail(steps)
          PROVE  Outgoing(m)'
      <4>1. Tail(steps) \in Seq(Steps) /\ <<x, y>> \in Seq(Steps)
        BY <1>t, <3>1, ShortSequences
      <4>2. \A i : On(Tail(steps), i) => On(steps', i)
        BY <3>3, <4>1, OnConcat
      <4>3. Say(m) # Head(steps)
        BY <3>1, StepOps
      <4> QED  BY <1>t, <3>1, <4>2, <4>3, OnTail DEF Outgoing, writerVars
    <3>4. ASSUME NEW p \in Head(steps).pieces
          PROVE  Insert(IncompleteBlocks(p)) \in Steps /\ Queue(Head(steps).pieces \ {p}) \in Steps
      <4>1. IncompleteBlocks(p) \subseteq Blocks
        BY DEF IncompleteBlocks
      <4>2. Head(steps) \in Steps
        BY <1>t, <3>1
      <4>3. Head(steps).pieces \subseteq Pieces
        BY <3>1, <4>2 DEF Steps
      <4> QED  BY <4>1, <4>3, StepTypes
    <3> QED  BY <2>3, <3>2, <3>3, <3>4 DEF QueueStep
  <2>4. CASE InterestChanges
    <3>1. Signal(IF AmInterested THEN "Interested" ELSE "NotInterested") \in Messages
      BY MessageTypes
    <3> QED  BY <2>4, <3>1, <1>r DEF InterestChanges
  <2>5. ASSUME NEW b \in Blocks, RequestOne(b) PROVE Outgoing(m)'
    <3>1. OfBlock("Request", b) \in Messages
      BY MessageTypes
    <3> QED  BY <2>5, <3>1, <1>u, <1>w DEF RequestOne, Outgoing
  <2>6. CASE UploadNext
    <3>1. At("upload") /\ Proceed /\ SendWriter(OfBlock("Piece", Head(heRequests)))
          /\ heRequests # <<>>
      BY <2>6 DEF UploadNext, CanUpload
    <3>2. Head(heRequests) \in Blocks
      BY <3>1 DEF TypeOK
    <3>3. OfBlock("Piece", Head(heRequests)) \in Messages
      BY <3>2, MessageTypes
    <3> QED  BY <3>1, <3>3, <1>r
  <2>7. CASE UploadOfMissing \/ SendFails \/ DownloadIsGone
    BY <2>7 DEF UploadOfMissing, SendFails, DownloadIsGone, EndLoop
  <2> QED  BY <1>2, <2>1, <2>2, <2>3, <2>4, <2>5, <2>6, <2>7 DEF HandlerStep
<1>3. CASE WriterTakes
  <2>1. /\ writer # <<>> /\ held' = Head(writer) /\ writer' = Tail(writer)
        /\ writeLoop = "idle" /\ writeLoop' = "writing" /\ steps' = steps
    BY <1>3 DEF WriterTakes, WriterReady
  <2>2. On(writer, m) => m = Head(writer) \/ On(writer', m)
    BY <2>1, <1>t, OnTail
  <2> QED  BY <2>1, <2>2 DEF Outgoing
<1>4. CASE WriterWrites
  <2>1. /\ announced' = announced \cup Tells(held)
        /\ UNCHANGED <<steps, writer>>
    BY <1>4 DEF WriterWrites, loopVars
  <2> QED  BY <2>1 DEF Outgoing
<1>5. CASE WriterNotifies
  <2>1. held.type = "Piece" /\ UNCHANGED <<steps, writer>>
    BY <1>5 DEF WriterNotifies, loopVars
  <2> QED  BY <2>1 DEF Outgoing
<1>6. CASE WriterFails \/ WriterEnds
  BY <1>6 DEF WriterFails, WriterEnds, EndWriteLoop
<1>7. CASE LeaveLoop \/ FinishLoop
  BY <1>7 DEF LeaveLoop, FinishLoop, EndLoop
<1>8. CASE UNCHANGED vars \/ ReadLoop \/ (\E b \in Blocks : StoreBlock(b)) \/ ManagerSends
  BY <1>8, <1>u DEF vars, loopVars, ReadLoop, ReaderSends, ReaderEnds, StoreBlock, ManagerSends
<1> QED  BY <1>1, <1>2, <1>3, <1>4, <1>5, <1>6, <1>7, <1>8 DEF Next, PeerLoop, WriteLoop

LEMMA AnnouncedGrows == [Next]_vars => announced \subseteq announced'
<1> SUFFICES ASSUME [Next]_vars PROVE announced \subseteq announced'
  OBVIOUS
<1>1. CASE UNCHANGED vars
  BY <1>1 DEF vars, outsideVars
<1>2. CASE ProcessMessage \/ ProcessBroadcast
  BY <1>2 DEF ProcessMessage, ReceiveKeepAlive, ReceivePort, ReceiveChoke, ReceiveUnChoke,
              ReceiveInterested, ReceiveNotInterested, ReceiveHave, ReceiveBitfield,
              ReceiveRequest, ReceivePiece, ReceiveCancel, ProcessBroadcast,
              ReceiveBlockCompleted, ReceivePieceCompleted, ReceiveDownloadCompleted,
              ReceiveBlockUploaded, Takes, outsideVars
<1>3. CASE HandlerStep
  BY <1>3 DEF HandlerStep, SayMessage, StoreStep, QueueStep, InsertStep, InterestUnchanged,
              InterestChanges, RequestOne, RequestsDone, UploadNext, UploadOfMissing,
              NothingToUpload, SendFails, DownloadIsGone, outsideVars
<1>4. CASE \/ LeaveLoop \/ FinishLoop \/ WriteLoop \/ ReadLoop
           \/ (\E b \in Blocks : StoreBlock(b)) \/ ManagerSends
  BY <1>4 DEF LeaveLoop, FinishLoop, WriteLoop, WriterTakes, WriterWrites, WriterNotifies,
              WriterFails, WriterEnds, EndWriteLoop, ReadLoop, ReaderSends, ReaderEnds,
              StoreBlock, ManagerSends, outsideVars
<1> QED  BY <1>1, <1>2, <1>3, <1>4 DEF Next, PeerLoop

LEMMA WriterIsNotResumed == [Next]_vars /\ writeLoop' # "ended" => writeLoop # "ended"
<1> SUFFICES ASSUME [Next]_vars, writeLoop = "ended" PROVE writeLoop' = "ended"
  OBVIOUS
<1>1. CASE UNCHANGED vars
  BY <1>1 DEF vars, writerVars
<1>2. CASE ProcessMessage \/ ProcessBroadcast
  BY <1>2 DEF ProcessMessage, ReceiveKeepAlive, ReceivePort, ReceiveChoke, ReceiveUnChoke,
              ReceiveInterested, ReceiveNotInterested, ReceiveHave, ReceiveBitfield,
              ReceiveRequest, ReceivePiece, ReceiveCancel, ProcessBroadcast,
              ReceiveBlockCompleted, ReceivePieceCompleted, ReceiveDownloadCompleted,
              ReceiveBlockUploaded, Takes, writerVars
<1>3. CASE HandlerStep
  BY <1>3 DEF HandlerStep, SayMessage, StoreStep, QueueStep, InsertStep, InterestUnchanged,
              InterestChanges, RequestOne, RequestsDone, UploadNext, UploadOfMissing,
              NothingToUpload, SendFails, DownloadIsGone, SendWriter, writerVars
<1>4. CASE \/ LeaveLoop \/ FinishLoop \/ WriteLoop \/ ReadLoop
           \/ (\E b \in Blocks : StoreBlock(b)) \/ ManagerSends
  BY <1>4 DEF LeaveLoop, FinishLoop, WriteLoop, WriterTakes, WriterReady, WriterWrites,
              WriterNotifies, WriterFails, WriterEnds, EndWriteLoop, ReadLoop, ReaderSends,
              ReaderEnds, StoreBlock, ManagerSends, writerVars
<1> QED  BY <1>1, <1>2, <1>3, <1>4 DEF Next, PeerLoop

LEMMA NewsStep == TypeOK /\ NoLostHave /\ [Next]_vars => NoLostHave'
<1> SUFFICES ASSUME TypeOK, NoLostHave, [Next]_vars, loop' = "running", writeLoop' # "ended",
                    NEW p \in Complete'
             PROVE  \/ p \in announced'
                    \/ OnItsWay(OfPiece("PieceCompleted", p))'
                    \/ Outgoing(OfPiece("Have", p))'
                    \/ \E S \in SUBSET Pieces : p \in S /\ Outgoing(Bitfield(S))'
  BY DEF NoLostHave
<1>r. loop = "running" /\ writeLoop # "ended"
  BY RunningIsNotResumed, WriterIsNotResumed
<1>1. CASE p \notin Complete
  <2>1. PICK b \in Blocks : StoreBlock(b)
    BY <1>1, StoredGrows DEF Complete
  <2>2. p = b[1]
    BY <1>1, <2>1, StoreAnnounces
  <2> QED  BY <2>1, <2>2, StoreAnnounces
<1>2. CASE p \in announced
  BY <1>2, AnnouncedGrows
<1>3. CASE p \in Complete /\ OnItsWay(OfPiece("PieceCompleted", p))
  <2>1. CASE Takes(OfPiece("PieceCompleted", p)) /\ (ProcessMessage \/ ProcessBroadcast)
    <3>1. p \in Pieces
      BY <1>3, CompleteTypes, TypeParts
    <3>2. ReceivePieceCompleted(p)
      BY <2>1, <3>1, NewsTaken
    <3>3. steps' = <<Do("interest"), Say(OfPiece("Have", p))>>
      BY <3>2 DEF ReceivePieceCompleted
    <3>4. On(steps', Say(OfPiece("Have", p)))
      BY <3>3, OnShort
    <3> QED  BY <3>4 DEF Outgoing
  <2> QED  BY <1>3, <2>1, WayKept
<1>4. CASE p \in Complete /\ Outgoing(OfPiece("Have", p))
  <2>1. p \in Pieces
    BY <1>4, CompleteTypes, TypeParts
  <2> DEFINE m == OfPiece("Have", p)
  <2>2. m \in Messages /\ m.type # "Piece" /\ p \in Tells(m)
    BY <2>1, MessageTypes DEF OfPiece, Tells
  <2> HIDE DEF m
  <2>3. Outgoing(m)' \/ Tells(m) \subseteq announced'
    BY <1>4, <2>2, OutgoingKept DEF m
  <2> QED  BY <2>2, <2>3 DEF m
<1>5. ASSUME NEW S \in SUBSET Pieces, p \in S, Outgoing(Bitfield(S))
      PROVE  p \in announced' \/ Outgoing(Bitfield(S))'
  <2> DEFINE m == Bitfield(S)
  <2>1. m \in Messages /\ m.type # "Piece" /\ p \in Tells(m)
    BY <1>5, MessageTypes DEF Bitfield, Tells
  <2> HIDE DEF m
  <2>2. Outgoing(m)' \/ Tells(m) \subseteq announced'
    BY <1>5, <2>1, OutgoingKept DEF m
  <2> QED  BY <2>1, <2>2 DEF m
<1> QED  BY <1>r, <1>1, <1>2, <1>3, <1>4, <1>5 DEF NoLostHave

(* What is completed is told to the remote side, or on its way to it.       *)
THEOREM HavesAreNotLost == Spec => []NoLostHave
<1>1. Init => NoLostHave
  <2> SUFFICES ASSUME Init, NEW p \in Complete
               PROVE  \E S \in SUBSET Pieces : p \in S /\ Outgoing(Bitfield(S))
    BY DEF NoLostHave
  <2>1. PICK S \in SUBSET Pieces : stored = S \X {0} /\ meHas = S
    BY DEF Init
  <2>2. p \in S
    BY <2>1 DEF Complete
  <2>3. On(steps, Say(Bitfield(S)))
    BY <2>1, OnShort DEF Init
  <2> QED  BY <2>2, <2>3 DEF Outgoing
<1> QED  BY <1>1, InitType, TypeStep, NewsStep, PTL DEF Spec

-----------------------------------------------------------------------------
(* What the remote side is told of, and what it may therefore ask for.      *)
TellsCompleted == \A m \in Messages : Outgoing(m) => Tells(m) \subseteq Complete
HearsCompleted == \A p \in Pieces : OnItsWay(OfPiece("PieceCompleted", p)) => p \in Complete
AnnouncedIsComplete == announced \subseteq Complete
AskedIsComplete ==
  HonestRemote =>
    \A b \in Blocks : On(ipc, OfBlock("Request", b)) \/ On(heRequests, b) => b[1] \in Complete

Truthful == TellsCompleted /\ HearsCompleted /\ AnnouncedIsComplete /\ AskedIsComplete

LEMMA CompleteGrows == [Next]_vars => Complete \subseteq Complete'
  BY StoredGrows DEF StoreBlock, Complete

LEMMA TypeFields ==
  /\ \A t : Signal(t).type = t
  /\ \A t, p : OfPiece(t, p).type = t /\ OfPiece(t, p).piece = p
  /\ \A t, b : OfBlock(t, b).type = t /\ OfBlock(t, b).block = b
  /\ \A S : Bitfield(S).type = "Bitfield" /\ Bitfield(S).pieces = S
  BY DEF Signal, OfPiece, OfBlock, Bitfield

LEMMA TellingNothing == \A m : m.type \notin {"Have", "Bitfield"} => Tells(m) = {}
  BY DEF Tells

(* The handlers say UnChoke, Cancel and, for a completed piece, Have.       *)
LEMMA SaidMessageStep ==
  ASSUME ProcessMessage \/ ProcessBroadcast, NEW m, m.type \notin {"UnChoke", "Cancel"},
         On(steps', Say(m))
  PROVE  \E p \in Pieces : ReceivePieceCompleted(p) /\ m = OfPiece("Have", p)
<1>n. \A x : x.op # "say" => x # Say(m)
  BY StepOps
<1>o. \A b : Say(Signal("UnChoke")) # Say(m) /\ Say(OfBlock("Cancel", b)) # Say(m)
  <2> TAKE b
  <2>1. /\ Say(Signal("UnChoke")).message = Signal("UnChoke")
        /\ Say(OfBlock("Cancel", b)).message = OfBlock("Cancel", b)
        /\ Say(m).message = m
    BY StepOps
  <2> QED  BY <2>1, TypeFields
<1>d. \A op : op # "say" => Do(op) # Say(m)
  BY <1>n, StepOps
<1>1. CASE ReceiveKeepAlive \/ ReceiveChoke \/ ReceiveNotInterested \/ ReceivePort
           \/ \E c \in Blocks : ReceiveCancel(c)
  <2>1. steps' = <<>>
    BY <1>1, TakesInSelect DEF ReceiveKeepAlive, ReceiveChoke, ReceiveNotInterested,
                               ReceiveCancel, ReceivePort, EndLoop
  <2> QED  BY <2>1, OnShort
<1>2. CASE ReceiveUnChoke \/ ReceiveBlockUploaded \/ ReceiveDownloadCompleted
           \/ \E c \in Blocks : ReceiveRequest(c)
  <2>1. steps' = <<>> \/ \E op \in {"request", "upload", "interest"} : steps' = <<Do(op)>>
    BY <1>2 DEF ReceiveUnChoke, ReceiveBlockUploaded, ReceiveDownloadCompleted, ReceiveRequest
  <2> QED  BY <2>1, <1>d, OnShort
<1>3. ASSUME NEW c, ReceiveBlockCompleted(c) PROVE FALSE
  <2>1. steps' = <<>> \/ steps' = <<Say(OfBlock("Cancel", c))>>
    BY <1>3 DEF ReceiveBlockCompleted
  <2> QED  BY <2>1, <1>o, OnShort
<1>4. CASE ReceiveInterested
  <2>1. steps' = <<>> \/ steps' = <<Say(Signal("UnChoke")), Do("upload")>>
    BY <1>4 DEF ReceiveInterested
  <2>2. Say(m) \notin {Say(Signal("UnChoke")), Do("upload")}
    BY <1>o, <1>d
  <2>3. ~On(<<Say(Signal("UnChoke")), Do("upload")>>, Say(m))
    BY <2>2, OnShort
  <2> QED  BY <2>1, <2>3, OnShort
<1>5. ASSUME NEW p, ReceivePieceCompleted(p) PROVE m = OfPiece("Have", p)
  <2>1. steps' = <<Do("interest"), Say(OfPiece("Have", p))>>
    BY <1>5 DEF ReceivePieceCompleted
  <2>2. Say(m) = Say(OfPiece("Have", p))
    BY <2>1, <1>d, OnShort
  <2> QED  BY <2>2, StepOps
<1>6. ASSUME NEW x, x.op # "say", steps' = <<x, Do("interest"), Do("request")>> PROVE FALSE
  BY <1>6, <1>d, <1>n, OnShort
<1>7. ASSUME NEW p, ReceiveHave(p) PROVE FALSE
  <2>1. steps' = <<Queue({p}), Do("interest"), Do("request")>> /\ Queue({p}).op # "say"
    BY <1>7, StepOps DEF ReceiveHave
  <2> QED  BY <2>1, <1>6
<1>8. ASSUME NEW S, ReceiveBitfield(S) PROVE FALSE
  <2>1. steps' = <<Queue(S), Do("interest"), Do("request")>> /\ Queue(S).op # "say"
    BY <1>8, StepOps DEF ReceiveBitfield
  <2> QED  BY <2>1, <1>6
<1>9. ASSUME NEW c, ReceivePiece(c) PROVE FALSE
  <2>1. steps' = <<Do("store"), Do("interest"), Do("request")>> /\ Do("store").op # "say"
    BY <1>9, StepOps DEF ReceivePiece
  <2> QED  BY <2>1, <1>6
<1> QED  BY <1>1, <1>2, <1>3, <1>4, <1>5, <1>7, <1>8, <1>9 DEF ProcessMessage, ProcessBroadcast

LEMMA OutgoingNew ==
  ASSUME TypeOK, [Next]_vars, NEW m \in Messages, Tells(m) # {}, Outgoing(m)'
  PROVE  \/ Outgoing(m)
         \/ \E p \in Pieces : ReceivePieceCompleted(p) /\ m = OfPiece("Have", p)
<1>t. steps \in Seq(Steps) /\ writer \in Seq(Messages) /\ LoopType
  BY TypeParts DEF TypeOK
<1>n. m.type \in {"Have", "Bitfield"}
  BY TellingNothing
<1>w. ASSUME NEW n \in Messages, SendWriter(n)
      PROVE  /\ UNCHANGED <<writeLoop, held>>
             /\ \A o : On(writer', o) <=> On(writer, o) \/ o = n
  BY <1>t, <1>w, OnAppend DEF SendWriter
<1>u. ASSUME UNCHANGED writerVars, On(steps', Say(m)) => On(steps, Say(m)) PROVE Outgoing(m)
  BY <1>u DEF Outgoing, writerVars
<1>q. ASSUME NEW op, At(op), Proceed, UNCHANGED writerVars PROVE Outgoing(m)
  BY <1>t, <1>q, <1>u, ProceedKeeps
<1>r. ASSUME NEW op, At(op), Proceed, NEW n \in Messages, SendWriter(n),
             n.type \notin {"Have", "Bitfield"}
      PROVE  Outgoing(m)
  BY <1>t, <1>n, <1>r, <1>w, ProceedKeeps DEF Outgoing
<1>1. CASE ProcessMessage \/ ProcessBroadcast
  <2>1. UNCHANGED writerVars
    BY <1>1
       DEF ProcessMessage, ReceiveKeepAlive, ReceivePort, ReceiveChoke, ReceiveUnChoke,
           ReceiveInterested, ReceiveNotInterested, ReceiveHave, ReceiveBitfield,
           ReceiveRequest, ReceivePiece, ReceiveCancel, ProcessBroadcast,
           ReceiveBlockCompleted, ReceivePieceCompleted, ReceiveDownloadCompleted,
           ReceiveBlockUploaded, Takes
  <2> QED  BY <1>1, <1>n, <1>u, <2>1, SaidMessageStep
<1>2. CASE HandlerStep
  <2>1. CASE SayMessage
    <3>1. /\ At("say") /\ Proceed /\ SendWriter(Head(steps).message)
      BY <2>1 DEF SayMessage
    <3>2. /\ Head(steps) \in Steps /\ Head(steps).op = "say" /\ steps # <<>>
          /\ \A i : On(steps', i) => On(steps, i)
      BY <1>t, <3>1, ProceedKeeps
    <3>3. Head(steps).message \in Messages /\ Head(steps) = Say(Head(steps).message)
      BY <3>2 DEF Steps, Say
    <3>4. On(steps, Head(steps))
      BY <1>t, <3>2, OnTail
    <3> QED  BY <3>1, <3>2, <3>3, <3>4, <1>w DEF Outgoing
  <2>2. CASE StoreStep \/ InsertStep \/ InterestUnchanged \/ RequestsDone \/ NothingToUpload
    BY <2>2, <1>q DEF StoreStep, InsertStep, InterestUnchanged, RequestsDone, NothingToUpload
  <2>3. CASE QueueStep
    <3>1. /\ At("queue") /\ steps # <<>> /\ Head(steps).op = "queue" /\ UNCHANGED writerVars
      BY <2>3 DEF QueueStep, At
    <3>2. CASE Proceed
      BY <3>1, <3>2, <1>q
    <3>3. ASSUME NEW x \in Steps, NEW y \in Steps, steps' = <<x, y>> \o Tail(steps),
                 x.op # "say", y.op # "say"
          PROVE  Outgoing(m)
      <4>1. Tail(steps) \in Seq(Steps) /\ <<x, y>> \in Seq(Steps)
        BY <1>t, <3>1, ShortSequences
      <4>2. \A i : On(steps', i) => On(<<x, y>>, i) \/ On(Tail(steps), i)
        BY <3>3, <4>1, OnConcat
      <4>3. ~On(<<x, y>>, Say(m))
        BY <3>3, StepOps, OnShort
      <4>4. On(steps', Say(m)) => On(steps, Say(m))
        BY <1>t, <3>1, <4>2, <4>3, OnTail
      <4> QED  BY <3>1, <4>4, <1>u
    <3>4. ASSUME NEW p \in Head(steps).pieces
          PROVE  /\ Insert(IncompleteBlocks(p)) \in Steps
                 /\ Queue(Head(steps).pieces \ {p}) \in Steps
                 /\ Insert(IncompleteBlocks(p)).op # "say"
                 /\ Queue(Head(steps).pieces \ {p}).op # "say"
      <4>1. IncompleteBlocks(p) \subseteq Blocks
        BY DEF IncompleteBlocks
      <4>2. Head(steps) \in Steps
        BY <1>t, <3>1
      <4>3. Head(steps).pieces \subseteq Pieces
        BY <3>1, <4>2 DEF Steps
      <4> QED  BY <4>1, <4>3, StepTypes, StepOps
    <3> QED  BY <2>3, <3>2, <3>3, <3>4 DEF QueueStep
  <2>4. CASE InterestChanges
    <3> DEFINE n == Signal(IF AmInterested THEN "Interested" ELSE "NotInterested")
    <3>1. n \in Messages /\ n.type \notin {"Have", "Bitfield"}
      BY MessageTypes, TypeFields
    <3>2. At("interest") /\ Proceed /\ SendWriter(n)
      BY <2>4 DEF InterestChanges
    <3> HIDE DEF n
    <3> QED  BY <3>1, <3>2, <1>r
  <2>5. ASSUME NEW b \in Blocks, RequestOne(b) PROVE Outgoing(m)
    <3>1. OfBlock("Request", b) \in Messages /\ m # OfBlock("Request", b)
      BY <1>n, MessageTypes, TypeFields
    <3>2. CASE UNCHANGED writerVars
      BY <2>5, <3>2, <1>u DEF RequestOne
    <3>3. CASE SendWriter(OfBlock("Request", b))
      <4>1. UNCHANGED <<steps, writeLoop, held>> /\ (On(writer', m) <=> On(writer, m))
        BY <2>5, <3>1, <3>3, <1>w DEF RequestOne
      <4> QED  BY <4>1 DEF Outgoing
    <3> QED  BY <2>5, <3>2, <3>3 DEF RequestOne
  <2>6. CASE UploadNext
    <3>1. At("upload") /\ Proceed /\ SendWriter(OfBlock("Piece", Head(heRequests)))
          /\ heRequests # <<>>
      BY <2>6 DEF UploadNext, CanUpload
    <3>2. Head(heRequests) \in Blocks
      BY <3>1 DEF TypeOK
    <3>3. /\ OfBlock("Piece", Head(heRequests)) \in Messages
          /\ OfBlock("Piece", Head(heRequests)).type \notin {"Have", "Bitfield"}
      BY <3>2, MessageTypes, TypeFields
    <3> QED  BY <3>1, <3>3, <1>r
  <2>7. CASE UploadOfMissing \/ SendFails \/ DownloadIsGone
    BY <2>7, <1>u, OnShort DEF UploadOfMissing, SendFails, DownloadIsGone, EndLoop
  <2> QED  BY <1>2, <2>1, <2>2, <2>3, <2>4, <2>5, <2>6, <2>7 DEF HandlerStep
<1>3. CASE WriterTakes
  <2>1. /\ writer # <<>> /\ held' = Head(writer) /\ writer' = Tail(writer) /\ steps' = steps
    BY <1>3 DEF WriterTakes
  <2> QED  BY <2>1, <1>t, OnTail DEF Outgoing
<1>4. CASE WriterWrites \/ WriterNotifies
  BY <1>4 DEF WriterWrites, WriterNotifies, loopVars, Outgoing
<1>5. CASE WriterFails \/ WriterEnds
  BY <1>5, OnShort DEF WriterFails, WriterEnds, EndWriteLoop, Outgoing
<1>6. CASE LeaveLoop \/ FinishLoop
  BY <1>6, <1>u, OnShort DEF LeaveLoop, FinishLoop, EndLoop
<1>7. CASE UNCHANGED vars \/ ReadLoop \/ (\E b \in Blocks : StoreBlock(b)) \/ ManagerSends
  BY <1>7, <1>u DEF vars, loopVars, ReadLoop, ReaderSends, ReaderEnds, StoreBlock, ManagerSends
<1> QED  BY <1>1, <1>2, <1>3, <1>4, <1>5, <1>6, <1>7 DEF Next, PeerLoop, WriteLoop

(* What comes into the ipc channel.                                         *)
LEMMA IpcNew ==
  ASSUME TypeOK, [Next]_vars, NEW i, On(ipc', i)
  PROVE  \/ On(ipc, i)
         \/ i = Signal("BlockUploaded")
         \/ i \in RemoteMessages /\ ReaderSends(i)
         \/ i \in Broadcasts /\ On(pending, i)
<1>t. pending \in Seq(Broadcasts) /\ ipc \in Seq(IPC)
  BY DEF TypeOK
<1>s. ASSUME NEW task, NEW j \in IPC, SendIpc(task, j) PROVE On(ipc, i) \/ i = j
  BY <1>s, <1>t, OnAppend DEF SendIpc
<1>1. CASE ProcessMessage \/ ProcessBroadcast
  <2>1. ASSUME NEW j, Takes(j) PROVE On(ipc, i)
    <3>1. ipc # <<>> /\ ipc' = Tail(ipc)
      BY <2>1 DEF Takes
    <3> QED  BY <3>1, <1>t, OnTail
  <2>2. CASE EndLoop
    BY <2>2, OnShort DEF EndLoop
  <2> QED  BY <1>1, <2>1, <2>2
     DEF ProcessMessage, ReceiveKeepAlive, ReceivePort, ReceiveChoke, ReceiveUnChoke,
         ReceiveInterested, ReceiveNotInterested, ReceiveHave, ReceiveBitfield,
         ReceiveRequest, ReceivePiece, ReceiveCancel, ProcessBroadcast,
         ReceiveBlockCompleted, ReceivePieceCompleted, ReceiveDownloadCompleted,
         ReceiveBlockUploaded
<1>2. CASE HandlerStep
  <2>1. ipc' = ipc \/ ipc' = <<>>
    BY <1>2 DEF HandlerStep, SayMessage, StoreStep, QueueStep, InsertStep, InterestUnchanged,
                InterestChanges, RequestOne, RequestsDone, UploadNext, UploadOfMissing,
                NothingToUpload, SendFails, DownloadIsGone, EndLoop, ipcVars
  <2> QED  BY <2>1, OnShort
<1>3. CASE LeaveLoop \/ FinishLoop
  BY <1>3, OnShort DEF LeaveLoop, FinishLoop, EndLoop, ipcVars
<1>4. CASE WriterNotifies
  BY <1>4, <1>s, IpcTypes DEF WriterNotifies
<1>5. ASSUME NEW m \in RemoteMessages, ReaderSends(m)
      PROVE  On(ipc, i) \/ (i \in RemoteMessages /\ ReaderSends(i))
  <2>1. m \in IPC
    BY PeerConnectionAssumption, IpcTypes
  <2> QED  BY <1>5, <2>1, <1>s DEF ReaderSends
<1>6. CASE ManagerSends
  <2>1. pending # <<>> /\ SendIpc("manager", Head(pending))
    BY <1>6 DEF ManagerSends
  <2>2. Head(pending) \in Broadcasts /\ On(pending, Head(pending))
    BY <2>1, <1>t, OnTail
  <2> QED  BY <2>1, <2>2, <1>s, IpcTypes
<1>7. CASE \/ UNCHANGED vars \/ WriterTakes \/ WriterWrites \/ WriterFails \/ WriterEnds
           \/ ReaderEnds \/ (\E b \in Blocks : StoreBlock(b))
  BY <1>7 DEF vars, ipcVars, WriterTakes, WriterWrites, WriterFails, WriterEnds, EndWriteLoop,
              ReaderEnds, StoreBlock
<1> QED  BY <1>1, <1>2, <1>3, <1>4, <1>5, <1>6, <1>7 DEF Next, PeerLoop, WriteLoop, ReadLoop

LEMMA PendingNew ==
  ASSUME TypeOK, [Next]_vars, NEW i, On(pending', i)
  PROVE  On(pending, i) \/ \E b \in Blocks : StoreBlock(b) /\ On(Announcement(b), i)
<1>t. pending \in Seq(Broadcasts)
  BY DEF TypeOK
<1>1. CASE pending' = pending
  BY <1>1
<1>2. ASSUME NEW b \in Blocks, StoreBlock(b)
      PROVE  On(pending, i) \/ \E c \in Blocks : StoreBlock(c) /\ On(Announcement(c), i)
  BY <1>t, <1>2, OnConcat, AnnouncementType DEF StoreBlock
<1>3. CASE ManagerSends
  BY <1>t, <1>3, OnTail DEF ManagerSends
<1>4. CASE ProcessMessage \/ ProcessBroadcast
  BY <1>1, <1>4
     DEF ProcessMessage, ReceiveKeepAlive, ReceivePort, ReceiveChoke, ReceiveUnChoke,
         ReceiveInterested, ReceiveNotInterested, ReceiveHave, ReceiveBitfield,
         ReceiveRequest, ReceivePiece, ReceiveCancel, ProcessBroadcast,
         ReceiveBlockCompleted, ReceivePieceCompleted, ReceiveDownloadCompleted,
         ReceiveBlockUploaded, Takes, outsideVars
<1>5. CASE HandlerStep
  BY <1>1, <1>5 DEF HandlerStep, SayMessage, StoreStep, QueueStep, InsertStep,
              InterestUnchanged, InterestChanges, RequestOne, RequestsDone, UploadNext,
              UploadOfMissing, NothingToUpload, SendFails, DownloadIsGone, outsideVars
<1>6. CASE UNCHANGED vars \/ LeaveLoop \/ FinishLoop \/ WriteLoop \/ ReadLoop
  BY <1>1, <1>6 DEF vars, LeaveLoop, FinishLoop, WriteLoop, WriterTakes, WriterWrites,
              WriterNotifies, WriterFails, WriterEnds, EndWriteLoop, ReadLoop, ReaderSends,
              ReaderEnds, outsideVars
<1> QED  BY <1>2, <1>3, <1>4, <1>5, <1>6 DEF Next, PeerLoop

LEMMA AnnouncementSaysOnly ==
  ASSUME NEW b, NEW p, On(Announcement(b), OfPiece("PieceCompleted", p))
  PROVE  p = b[1]
<1> DEFINE i == OfPiece("PieceCompleted", p)
<1> DEFINE j == OfBlock("BlockCompleted", b)
<1> DEFINE k == OfPiece("PieceCompleted", b[1])
<1> DEFINE d == Signal("DownloadCompleted")
<1>1. i # j /\ i # d /\ (i = k => p = b[1])
  BY TypeFields
<1>2. \/ Announcement(b) = <<j, k>> \o <<>>
      \/ Announcement(b) = <<j, k>> \o <<d>>
  BY DEF Announcement
<1>3. On(Announcement(b), i)
  OBVIOUS
<1> HIDE DEF i, j, k, d
<1>4. Announcement(b) = <<j, k>> \/ Announcement(b) = <<j, k, d>>
  BY <1>2
<1> QED  BY <1>1, <1>3, <1>4, OnShort

LEMMA HearsStep == TypeOK /\ HearsCompleted /\ [Next]_vars => HearsCompleted'
<1> SUFFICES ASSUME TypeOK, HearsCompleted, [Next]_vars, NEW p \in Pieces,
                    OnItsWay(OfPiece("PieceCompleted", p))'
             PROVE  p \in Complete'
  BY DEF HearsCompleted
<1> DEFINE i == OfPiece("PieceCompleted", p)
<1>1. i # Signal("BlockUploaded") /\ i \notin RemoteMessages
  <2>1. i.type = "PieceCompleted" /\ Signal("BlockUploaded").type = "BlockUploaded"
    BY TypeFields
  <2>2. \A m \in Messages : m.type # "PieceCompleted"
    BY DEF Messages
  <2> QED  BY <2>1, <2>2, PeerConnectionAssumption
<1>2. OnItsWay(i) \/ \E b \in Blocks : StoreBlock(b) /\ On(Announcement(b), i)
  BY <1>1, IpcNew, PendingNew DEF OnItsWay
<1>3. CASE OnItsWay(i)
  BY <1>3, CompleteGrows DEF HearsCompleted
<1>4. ASSUME NEW b \in Blocks, StoreBlock(b), On(Announcement(b), i) PROVE p \in Complete'
  BY <1>4, AnnouncementSaysOnly, StoreAnnounces
<1> QED  BY <1>2, <1>3, <1>4

LEMMA TellsStep ==
  TypeOK /\ TellsCompleted /\ HearsCompleted /\ [Next]_vars => TellsCompleted'
<1> SUFFICES ASSUME TypeOK, TellsCompleted, HearsCompleted, [Next]_vars,
                    NEW m \in Messages, Outgoing(m)'
             PROVE  Tells(m) \subseteq Complete'
  BY DEF TellsCompleted
<1>1. CASE Outgoing(m)
  BY <1>1, CompleteGrows DEF TellsCompleted
<1>2. ASSUME NEW p \in Pieces, ReceivePieceCompleted(p), m = OfPiece("Have", p)
      PROVE  Tells(m) \subseteq Complete'
  <2>1. On(ipc, OfPiece("PieceCompleted", p))
    BY <1>2, OnTail DEF ReceivePieceCompleted, Takes, TypeOK
  <2>2. p \in Complete
    BY <2>1 DEF HearsCompleted, OnItsWay
  <2>3. Tells(m) = {p}
    BY <1>2 DEF Tells, OfPiece
  <2> QED  BY <2>2, <2>3, CompleteGrows
<1> QED  BY <1>1, <1>2, OutgoingNew

LEMMA AnnouncedStep ==
  TypeOK /\ TellsCompleted /\ AnnouncedIsComplete /\ [Next]_vars => AnnouncedIsComplete'
<1> SUFFICES ASSUME TypeOK, TellsCompleted, AnnouncedIsComplete, [Next]_vars
             PROVE  AnnouncedIsComplete'
  OBVIOUS
<1>1. CASE UNCHANGED announced
  BY <1>1, CompleteGrows DEF AnnouncedIsComplete
<1>2. CASE WriterWrites
  <2>1. announced' = announced \cup Tells(held) /\ Outgoing(held) /\ held \in Messages
    BY <1>2 DEF WriterWrites, Outgoing, TypeOK
  <2> QED  BY <2>1, CompleteGrows DEF AnnouncedIsComplete, TellsCompleted
<1>3. CASE ProcessMessage \/ ProcessBroadcast
  BY <1>1, <1>3
     DEF ProcessMessage, ReceiveKeepAlive, ReceivePort, ReceiveChoke, ReceiveUnChoke,
         ReceiveInterested, ReceiveNotInterested, ReceiveHave, ReceiveBitfield,
         ReceiveRequest, ReceivePiece, ReceiveCancel, ProcessBroadcast,
         ReceiveBlockCompleted, ReceivePieceCompleted, ReceiveDownloadCompleted,
         ReceiveBlockUploaded, Takes, outsideVars
<1>4. CASE HandlerStep
  BY <1>1, <1>4 DEF HandlerStep, SayMessage, StoreStep, QueueStep, InsertStep,
              InterestUnchanged, InterestChanges, RequestOne, RequestsDone, UploadNext,
              UploadOfMissing, NothingToUpload, SendFails, DownloadIsGone, outsideVars
<1>5. CASE \/ UNCHANGED vars \/ LeaveLoop \/ FinishLoop \/ ReadLoop \/ ManagerSends
           \/ (\E b \in Blocks : StoreBlock(b))
           \/ WriterTakes \/ WriterNotifies \/ WriterFails \/ WriterEnds
  BY <1>1, <1>5 DEF vars, LeaveLoop, FinishLoop, WriterTakes, WriterNotifies, WriterFails,
              WriterEnds, EndWriteLoop, ReadLoop, ReaderSends, ReaderEnds, ManagerSends,
              StoreBlock, outsideVars
<1> QED  BY <1>2, <1>3, <1>4, <1>5 DEF Next, PeerLoop, WriteLoop

(* A request in the queue has come by the ipc channel.                      *)
LEMMA HeRequestsNew ==
  ASSUME TypeOK, [Next]_vars, NEW b \in Blocks, On(heRequests', b)
  PROVE  On(heRequests, b) \/ On(ipc, OfBlock("Request", b))
<1>t. heRequests \in Seq(Blocks) /\ ipc \in Seq(IPC) /\ HeType
  BY TypeParts DEF TypeOK
<1>1. CASE heRequests' = heRequests
  BY <1>1
<1>2. ASSUME NEW c \in Blocks, ReceiveRequest(c)
      PROVE  On(heRequests, b) \/ On(ipc, OfBlock("Request", b))
  <2>1. On(ipc, OfBlock("Request", c))
    BY <1>2, <1>t, OnTail DEF ReceiveRequest, Takes
  <2>2. heRequests' = heRequests \/ heRequests' = Append(heRequests, c)
    BY <1>2 DEF ReceiveRequest
  <2>3. CASE heRequests' = heRequests
    BY <2>3
  <2>4. CASE heRequests' = Append(heRequests, c)
    <3>1. On(Append(heRequests, c), b) <=> On(heRequests, b) \/ b = c
      BY <1>t, OnAppend
    <3> QED  BY <2>1, <2>4, <3>1
  <2> QED  BY <2>2, <2>3, <2>4
<1>3. ASSUME NEW c \in Blocks, ReceiveCancel(c) PROVE On(heRequests, b)
  <2>1. heRequests' = Without(c)
    BY <1>3 DEF ReceiveCancel
  <2> QED  BY <1>t, <2>1, WithoutType DEF On
<1>4. CASE UploadNext
  <2>1. heRequests # <<>> /\ heRequests' = Tail(heRequests)
    BY <1>4 DEF UploadNext, CanUpload
  <2> QED  BY <2>1, <1>t, OnTail
<1>5. CASE ProcessMessage \/ ProcessBroadcast
  BY <1>1, <1>2, <1>3, <1>5
     DEF ProcessMessage, ReceiveKeepAlive, ReceivePort, ReceiveChoke, ReceiveUnChoke,
         ReceiveInterested, ReceiveNotInterested, ReceiveHave, ReceiveBitfield,
         ReceivePiece, ProcessBroadcast, ReceiveBlockCompleted, ReceivePieceCompleted,
         ReceiveDownloadCompleted, ReceiveBlockUploaded, connVars, heVars
<1>6. CASE HandlerStep
  BY <1>1, <1>4, <1>6 DEF HandlerStep, SayMessage, StoreStep, QueueStep, InsertStep,
              InterestUnchanged, InterestChanges, RequestOne, RequestsDone,
              UploadOfMissing, NothingToUpload, SendFails, DownloadIsGone, connVars, heVars
<1>7. CASE \/ UNCHANGED vars \/ LeaveLoop \/ FinishLoop \/ WriteLoop \/ ReadLoop
           \/ ManagerSends \/ (\E c \in Blocks : StoreBlock(c))
  BY <1>1, <1>7 DEF vars, LeaveLoop, FinishLoop, WriteLoop, WriterTakes, WriterWrites,
              WriterNotifies, WriterFails, WriterEnds, EndWriteLoop, ReadLoop, ReaderSends,
              ReaderEnds, ManagerSends, StoreBlock, connVars, heVars
<1> QED  BY <1>5, <1>6, <1>7 DEF Next, PeerLoop

LEMMA AskedStep ==
  TypeOK /\ AnnouncedIsComplete /\ AskedIsComplete /\ [Next]_vars => AskedIsComplete'
<1> SUFFICES ASSUME TypeOK, AnnouncedIsComplete, AskedIsComplete, [Next]_vars, HonestRemote,
                    NEW b \in Blocks, On(ipc', OfBlock("Request", b)) \/ On(heRequests', b)
             PROVE  b[1] \in Complete'
  BY DEF AskedIsComplete
<1> DEFINE i == OfBlock("Request", b)
<1>1. CASE On(ipc, i) \/ On(heRequests, b)
  BY <1>1, CompleteGrows DEF AskedIsComplete
<1>2. CASE ReaderSends(i)
  <2>1. b[1] \in announced
    BY <1>2, TypeFields DEF ReaderSends, Honest
  <2> QED  BY <2>1, CompleteGrows DEF AnnouncedIsComplete
<1>3. i.type = "Request" /\ i # Signal("BlockUploaded") /\ i \notin Broadcasts
  <2>1. i.type = "Request" /\ Signal("BlockUploaded").type = "BlockUploaded"
    BY TypeFields
  <2>2. \A j \in Broadcasts : j.type # "Request"
    BY DEF Broadcasts
  <2> QED  BY <2>1, <2>2
<1> QED  BY <1>1, <1>2, <1>3, IpcNew, HeRequestsNew

(* The download task is not asked for a piece that it has not completed by  *)
(* a remote side that asks only for what it has been told of.               *)
THEOREM HonestRequestsAreServed == Spec => [](HonestRemote => NeverAsksForMissing)
<1>1. Init => Truthful
  <2> SUFFICES ASSUME Init PROVE Truthful
    OBVIOUS
  <2>1. PICK S \in SUBSET Pieces :
          /\ stored = S \X {0} /\ meHas = S
          /\ pending \in {<<>>} \cup
               {<<OfBlock("BlockCompleted", <<p, 0>>), OfPiece("PieceCompleted", p)>> : p \in S}
    BY DEF Init
  <2>2. Complete = S
    <3>1. /\ \A b \in stored : b[1] \in S
          /\ \A p \in S : <<p, 0>> \in stored /\ <<p, 0>>[1] = p
      BY <2>1
    <3>2. \A p \in S : p \in Complete
      BY <3>1 DEF Complete
    <3> QED  BY <3>1, <3>2 DEF Complete
  <2>3. ASSUME NEW m \in Messages, Outgoing(m) PROVE Tells(m) \subseteq Complete
    <3>1. On(steps, Say(m))
      BY <2>3, OnShort DEF Outgoing, Init
    <3>2. Say(m) = Say(Bitfield(S))
      BY <2>1, <3>1, OnShort DEF Init
    <3>3. m = Bitfield(S)
      BY <3>2, StepOps
    <3> QED  BY <2>2, <3>3 DEF Tells, Bitfield
  <2>4. ASSUME NEW p \in Pieces, OnItsWay(OfPiece("PieceCompleted", p)) PROVE p \in Complete
    <3>1. On(pending, OfPiece("PieceCompleted", p))
      BY <2>4, OnShort DEF OnItsWay, Init
    <3>5. pending # <<>>
      BY <3>1, OnShort
    <3>2. PICK q \in S :
            pending = <<OfBlock("BlockCompleted", <<q, 0>>), OfPiece("PieceCompleted", q)>>
      BY <2>1, <3>5
    <3>3. OfPiece("PieceCompleted", p) # OfBlock("BlockCompleted", <<q, 0>>)
      BY TypeFields
    <3>4. OfPiece("PieceCompleted", p) = OfPiece("PieceCompleted", q)
      BY <3>1, <3>2, <3>3, OnShort
    <3> QED  BY <2>2, <3>4, TypeFields
  <2>5. announced = {} /\ ipc = <<>> /\ heRequests = <<>>
    BY DEF Init
  <2> QED  BY <2>3, <2>4, <2>5, OnShort
           DEF Truthful, TellsCompleted, HearsCompleted, AnnouncedIsComplete, AskedIsComplete
<1>2. TypeOK /\ Truthful /\ [Next]_vars => Truthful'
  BY TellsStep, HearsStep, AnnouncedStep, AskedStep DEF Truthful
<1>3. TypeOK /\ Truthful => (HonestRemote => NeverAsksForMissing)
  BY DEF TypeOK, Truthful, AskedIsComplete, NeverAsksForMissing, On
<1> QED  BY <1>1, <1>2, <1>3, InitType, TypeStep, PTL DEF Spec

-----------------------------------------------------------------------------
(* Counting the messages of a kind in a channel.                            *)
Count(q, t) == Cardinality({k \in DOMAIN q : q[k].type = t})

LEMMA CountIsNat ==
  ASSUME NEW S, NEW q \in Seq(S), NEW t
  PROVE  IsFiniteSet({k \in DOMAIN q : q[k].type = t}) /\ Count(q, t) \in Nat
<1>1. DOMAIN q = 1..Len(q) /\ Len(q) \in Nat
  OBVIOUS
<1>2. IsFiniteSet(DOMAIN q)
  BY <1>1, FS_Interval
<1>3. {k \in DOMAIN q : q[k].type = t} \in SUBSET DOMAIN q
  OBVIOUS
<1>4. IsFiniteSet({k \in DOMAIN q : q[k].type = t})
  BY <1>2, <1>3, FS_Subset
<1> QED  BY <1>4, FS_CardinalityType DEF Count

LEMMA CountAppend ==
  ASSUME NEW S, NEW q \in Seq(S), NEW e \in S, NEW t
  PROVE  Count(Append(q, e), t) = IF e.type = t THEN Count(q, t) + 1 ELSE Count(q, t)
<1> DEFINE r == Append(q, e)
<1> DEFINE A == {k \in DOMAIN q : q[k].type = t}
<1> DEFINE B == {k \in DOMAIN r : r[k].type = t}
<1>1. /\ Len(q) \in Nat /\ DOMAIN q = 1..Len(q) /\ DOMAIN r = 1..(Len(q) + 1)
      /\ \A k \in 1..Len(q) : r[k] = q[k]
      /\ r[Len(q) + 1] = e
  OBVIOUS
<1> HIDE DEF r
<1>2. IsFiniteSet(A)
  BY CountIsNat
<1>3. Len(q) + 1 \notin A
  BY <1>1
<1>4. CASE e.type = t
  <2>1. B = A \cup {Len(q) + 1}
    BY <1>1, <1>4
  <2> QED  BY <1>2, <1>3, <1>4, <2>1, FS_AddElement DEF Count, r
<1>5. CASE e.type # t
  <2>1. B = A
    BY <1>1, <1>5
  <2> QED  BY <1>5, <2>1 DEF Count, r
<1> QED  BY <1>4, <1>5

LEMMA CountTail ==
  ASSUME NEW S, NEW q \in Seq(S), q # <<>>, NEW t
  PROVE  Count(q, t) = IF Head(q).type = t THEN Count(Tail(q), t) + 1 ELSE Count(Tail(q), t)
<1> DEFINE r == Tail(q)
<1> DEFINE A == {k \in DOMAIN q : q[k].type = t}
<1> DEFINE B == {k \in DOMAIN r : r[k].type = t}
<1>1. /\ Len(q) \in Nat \ {0} /\ DOMAIN q = 1..Len(q) /\ Head(q) = q[1]
      /\ DOMAIN r = 1..(Len(q) - 1)
      /\ \A k \in 1..(Len(q) - 1) : r[k] = q[k + 1]
  OBVIOUS
<1> HIDE DEF r
<1>2. IsFiniteSet(A) /\ IsFiniteSet(A \ {1}) /\ Cardinality(A) \in Nat
  <2>1. IsFiniteSet(A) /\ Cardinality(A) \in Nat
    BY CountIsNat DEF Count
  <2> QED  BY <2>1, FS_RemoveElement
<1>3. Cardinality(A \ {1}) = Cardinality(B)
  <2> DEFINE f == [k \in A \ {1} |-> k - 1]
  <2>1. f \in [A \ {1} -> B]
    BY <1>1
  <2>2. \A k, l \in A \ {1} : f[k] = f[l] => k = l
    BY <1>1
  <2>3. \A k \in B : k + 1 \in A \ {1} /\ f[k + 1] = k
    BY <1>1
  <2>4. f \in Bijection(A \ {1}, B)
    BY <2>1, <2>2, <2>3 DEF Bijection, Injection, Surjection, IsInjective
  <2>5. ExistsBijection(A \ {1}, B)
    BY <2>4 DEF ExistsBijection
  <2> QED  BY <1>2, <2>5, FS_Bijection
<1>4. Cardinality(A \ {1}) = IF 1 \in A THEN Cardinality(A) - 1 ELSE Cardinality(A)
  BY <1>2, FS_RemoveElement
<1>5. 1 \in A <=> Head(q).type = t
  BY <1>1
<1>6. Count(q, t) = Cardinality(A) /\ Count(r, t) = Cardinality(B)
  BY DEF Count
<1> HIDE DEF A, B
<1>7. Count(q, t) = IF Head(q).type = t THEN Count(r, t) + 1 ELSE Count(r, t)
  BY <1>2, <1>3, <1>4, <1>5, <1>6
<1> QED  BY <1>7 DEF r

LEMMA CountNone == \A t : Count(<<>>, t) = 0
<1> TAKE t
<1>1. {k \in DOMAIN <<>> : <<>>[k].type = t} = {}
  OBVIOUS
<1> QED  BY <1>1, FS_EmptySet DEF Count

LEMMA UnderWayCounts ==
  BlocksUnderWay = Count(writer, "Piece")
                     + (IF writeLoop = "writing" /\ held.type = "Piece" THEN 1 ELSE 0)
                     + Count(ipc, "BlockUploaded")
  BY DEF BlocksUnderWay, Count

(* Only upload_next_block hands a block to the write loop.                  *)
SaysNoBlock == \A m : On(steps, Say(m)) => m.type # "Piece"

LEMMA SaysNoBlockStep == TypeOK /\ SaysNoBlock /\ [Next]_vars => SaysNoBlock'
<1> SUFFICES ASSUME TypeOK, SaysNoBlock, [Next]_vars, NEW m, m.type = "Piece", On(steps', Say(m))
             PROVE  FALSE
  BY DEF SaysNoBlock
<1>t. steps \in Seq(Steps) /\ LoopType
  BY TypeParts DEF TypeOK
<1>n. ~On(steps, Say(m))
  BY DEF SaysNoBlock
<1>p. ASSUME NEW op, At(op), Proceed PROVE FALSE
  BY <1>t, <1>n, <1>p, ProceedKeeps
<1>1. CASE ProcessMessage \/ ProcessBroadcast
  BY <1>1, SaidMessageStep, TypeFields
<1>2. CASE HandlerStep
  <2>1. CASE QueueStep
    <3>1. At("queue") /\ steps # <<>> /\ Head(steps).op = "queue"
      BY <2>1 DEF QueueStep, At
    <3>2. PICK p \in Head(steps).pieces :
            steps' = <<Insert(IncompleteBlocks(p)), Queue(Head(steps).pieces \ {p})>> \o Tail(steps)
      BY <2>1, <3>1, <1>p DEF QueueStep
    <3> DEFINE x == Insert(IncompleteBlocks(p))
    <3> DEFINE y == Queue(Head(steps).pieces \ {p})
    <3>3. x \in Steps /\ y \in Steps /\ x # Say(m) /\ y # Say(m)
      <4>1. IncompleteBlocks(p) \subseteq Blocks
        BY DEF IncompleteBlocks
      <4>2. Head(steps) \in Steps
        BY <1>t, <3>1
      <4>3. Head(steps).pieces \subseteq Pieces
        BY <3>1, <4>2 DEF Steps
      <4> QED  BY <4>1, <4>3, StepTypes, StepOps
    <3>4. steps' = <<x, y>> \o Tail(steps)
      BY <3>2
    <3> HIDE DEF x, y
    <3>5. <<x, y>> \in Seq(Steps) /\ Tail(steps) \in Seq(Steps) /\ ~On(<<x, y>>, Say(m))
      BY <1>t, <3>1, <3>3, ShortSequences, OnShort
    <3>6. On(Tail(steps), Say(m))
      BY <3>4, <3>5, OnConcat
    <3> QED  BY <1>t, <1>n, <3>1, <3>6, OnTail
  <2>2. CASE \/ SayMessage \/ StoreStep \/ InsertStep \/ InterestUnchanged \/ InterestChanges
             \/ RequestsDone \/ UploadNext \/ NothingToUpload
    BY <2>2, <1>p DEF SayMessage, StoreStep, InsertStep, InterestUnchanged, InterestChanges,
                      RequestsDone, UploadNext, NothingToUpload
  <2>3. CASE \E b \in Blocks : RequestOne(b)
    BY <2>3, <1>n DEF RequestOne
  <2>4. CASE UploadOfMissing \/ SendFails \/ DownloadIsGone
    BY <2>4, OnShort DEF UploadOfMissing, SendFails, DownloadIsGone, EndLoop
  <2> QED  BY <1>2, <2>1, <2>2, <2>3, <2>4 DEF HandlerStep
<1>3. CASE \/ UNCHANGED vars \/ LeaveLoop \/ FinishLoop \/ WriteLoop \/ ReadLoop
           \/ (\E b \in Blocks : StoreBlock(b)) \/ ManagerSends
  BY <1>3, <1>n, OnShort
     DEF vars, loopVars, LeaveLoop, FinishLoop, EndLoop, WriteLoop, WriterTakes, WriterWrites,
         WriterNotifies, WriterFails, WriterEnds, EndWriteLoop, ReadLoop, ReaderSends,
         ReaderEnds, StoreBlock, ManagerSends
<1> QED  BY <1>1, <1>2, <1>3 DEF Next, PeerLoop

LEMMA UnderWayStep ==
  TypeOK /\ SaysNoBlock /\ OneBlockUnderWay /\ [Next]_vars => OneBlockUnderWay'
<1> DEFINE W == Count(writer, "Piece")
<1> DEFINE H == IF writeLoop = "writing" /\ held.type = "Piece" THEN 1 ELSE 0
<1> DEFINE U == Count(ipc, "BlockUploaded")
<1> DEFINE Total == IF uploading THEN 1 ELSE 0
<1> SUFFICES ASSUME TypeOK, SaysNoBlock, OneBlockUnderWay, [Next]_vars, loop' = "running",
                    writeLoop' # "ended"
             PROVE  W' + H' + U' = Total'
  <2>1. BlocksUnderWay' = W' + H' + U'
    BY DEF BlocksUnderWay, Count
  <2> QED  BY <2>1 DEF OneBlockUnderWay
<1>t. /\ writer \in Seq(Messages) /\ ipc \in Seq(IPC) /\ steps \in Seq(Steps) /\ LoopType
      /\ uploading \in BOOLEAN /\ pending \in Seq(Broadcasts) /\ heRequests \in Seq(Blocks)
  BY TypeParts DEF TypeOK
<1>n. W \in Nat /\ U \in Nat
  BY <1>t, CountIsNat
<1>o. W + H + U = Total
  <2>1. loop = "running" /\ writeLoop # "ended"
    BY RunningIsNotResumed, WriterIsNotResumed
  <2> QED  BY <2>1, UnderWayCounts DEF OneBlockUnderWay
<1>u. ASSUME UNCHANGED <<writer, writeLoop, held, uploading>>, U' = U
      PROVE  W' + H' + U' = Total'
  BY <1>o, <1>u
<1>w. ASSUME NEW n \in Messages, SendWriter(n), n.type # "Piece", UNCHANGED <<uploading, ipc>>
      PROVE  W' + H' + U' = Total'
  <2>1. W' = W
    BY <1>t, <1>w, CountAppend DEF SendWriter
  <2> QED  BY <2>1, <1>o, <1>w DEF SendWriter
<1>1. CASE ProcessMessage \/ ProcessBroadcast
  <2>1. ASSUME NEW i, Takes(i), i.type # "BlockUploaded", UNCHANGED uploading
        PROVE  W' + H' + U' = Total'
    <3>1. ipc # <<>> /\ Head(ipc) = i /\ ipc' = Tail(ipc) /\ UNCHANGED writerVars
      BY <2>1 DEF Takes
    <3>2. U' = U
      BY <1>t, <2>1, <3>1, CountTail
    <3> QED  BY <2>1, <3>1, <3>2, <1>u DEF writerVars
  <2>2. CASE ReceiveBlockUploaded
    <3>1. /\ ipc # <<>> /\ Head(ipc) = Signal("BlockUploaded") /\ ipc' = Tail(ipc)
          /\ UNCHANGED writerVars /\ uploading' = FALSE
      BY <2>2 DEF ReceiveBlockUploaded, Takes
    <3>2. U = U' + 1
      <4>1. Head(ipc).type = "BlockUploaded"
        BY <3>1, TypeFields
      <4>2. Count(ipc, "BlockUploaded") = Count(Tail(ipc), "BlockUploaded") + 1
        BY <1>t, <3>1, <4>1, CountTail
      <4> QED  BY <3>1, <4>2
    <3>3. ipc' \in Seq(IPC)
      BY <1>t, <3>1
    <3>4. U' \in Nat
      BY <3>3, CountIsNat
    <3>5. W' = W /\ H' = H /\ H \in {0, 1}
      BY <3>1 DEF writerVars
    <3>6. Total \in {0, 1} /\ Total' = 0
      BY <3>1
    <3> QED  BY <1>n, <1>o, <3>2, <3>4, <3>5, <3>6
  <2>3. CASE ReceivePort
    BY <2>3 DEF ReceivePort, EndLoop
  <2>4. CASE \/ ReceiveKeepAlive \/ ReceiveChoke \/ ReceiveUnChoke \/ ReceiveInterested
             \/ ReceiveNotInterested \/ ReceiveDownloadCompleted
    BY <2>1, <2>4, TypeFields
       DEF ReceiveKeepAlive, ReceiveChoke, ReceiveUnChoke, ReceiveInterested,
           ReceiveNotInterested, ReceiveDownloadCompleted, connVars
  <2>5. CASE \/ \E p \in Pieces : ReceiveHave(p) \/ ReceivePieceCompleted(p)
             \/ \E S \in SUBSET Pieces : ReceiveBitfield(S)
    <3>1. ASSUME NEW p, ReceiveHave(p) \/ ReceivePieceCompleted(p) PROVE W' + H' + U' = Total'
      BY <2>1, <3>1, TypeFields DEF ReceiveHave, ReceivePieceCompleted, connVars
    <3>2. ASSUME NEW S, ReceiveBitfield(S) PROVE W' + H' + U' = Total'
      BY <2>1, <3>2, TypeFields DEF ReceiveBitfield, connVars
    <3> QED  BY <2>5, <3>1, <3>2
  <2>6. CASE \E b \in Blocks : \/ ReceiveRequest(b) \/ ReceivePiece(b) \/ ReceiveCancel(b)
                              \/ ReceiveBlockCompleted(b)
    BY <2>1, <2>6, TypeFields
       DEF ReceiveRequest, ReceivePiece, ReceiveCancel, ReceiveBlockCompleted
  <2> QED  BY <1>1, <2>2, <2>3, <2>4, <2>5, <2>6 DEF ProcessMessage, ProcessBroadcast
<1>2. CASE HandlerStep
  <2>1. CASE SayMessage
    <3>1. At("say") /\ Proceed /\ SendWriter(Head(steps).message) /\ UNCHANGED <<uploading, ipc>>
      BY <2>1 DEF SayMessage, connVars, ipcVars
    <3>2. Head(steps) \in Steps /\ Head(steps).op = "say" /\ steps # <<>>
      BY <1>t, <3>1, ProceedKeeps
    <3>3. Head(steps).message \in Messages /\ Head(steps) = Say(Head(steps).message)
      BY <3>2 DEF Steps, Say
    <3>4. Head(steps).message.type # "Piece"
      BY <1>t, <3>2, <3>3, OnTail DEF SaysNoBlock
    <3> QED  BY <3>1, <3>3, <3>4, <1>w
  <2>2. CASE \/ StoreStep \/ QueueStep \/ InsertStep \/ InterestUnchanged \/ RequestsDone
             \/ NothingToUpload
    BY <2>2, <1>u DEF StoreStep, QueueStep, InsertStep, InterestUnchanged, RequestsDone,
                      NothingToUpload, connVars, writerVars, ipcVars
  <2>3. CASE InterestChanges
    <3> DEFINE n == Signal(IF AmInterested THEN "Interested" ELSE "NotInterested")
    <3>1. n \in Messages /\ n.type # "Piece"
      BY MessageTypes, TypeFields
    <3>2. SendWriter(n) /\ UNCHANGED <<uploading, ipc>>
      BY <2>3 DEF InterestChanges, ipcVars
    <3> HIDE DEF n
    <3> QED  BY <3>1, <3>2, <1>w
  <2>4. ASSUME NEW b \in Blocks, RequestOne(b) PROVE W' + H' + U' = Total'
    <3>1. OfBlock("Request", b) \in Messages /\ OfBlock("Request", b).type # "Piece"
      BY MessageTypes, TypeFields
    <3>2. UNCHANGED <<uploading, ipc>>
      BY <2>4 DEF RequestOne, ipcVars
    <3>3. CASE UNCHANGED writerVars
      BY <3>2, <3>3, <1>u DEF writerVars
    <3> QED  BY <2>4, <3>1, <3>2, <3>3, <1>w DEF RequestOne
  <2>5. CASE UploadNext
    <3>1. /\ heRequests # <<>> /\ SendWriter(OfBlock("Piece", Head(heRequests)))
          /\ uploading = FALSE /\ uploading' = TRUE /\ ipc' = ipc
      BY <2>5, <1>t DEF UploadNext, CanUpload, ipcVars
    <3>2. OfBlock("Piece", Head(heRequests)) \in Messages
      BY <1>t, <3>1, MessageTypes
    <3>3. W' = W + 1
      BY <1>t, <3>1, <3>2, CountAppend, TypeFields DEF SendWriter
    <3>4. H' = H /\ U' = U /\ H \in {0, 1}
      BY <3>1 DEF SendWriter
    <3>5. Total = 0 /\ Total' = 1
      BY <3>1
    <3> HIDE DEF W, H, U, Total
    <3> QED  BY <1>n, <1>o, <3>3, <3>4, <3>5
  <2>6. CASE UploadOfMissing \/ SendFails \/ DownloadIsGone
    BY <2>6 DEF UploadOfMissing, SendFails, DownloadIsGone, EndLoop
  <2> QED  BY <1>2, <2>1, <2>2, <2>3, <2>4, <2>5, <2>6 DEF HandlerStep
<1>3. CASE WriterTakes
  <2>1. /\ writer # <<>> /\ held' = Head(writer) /\ writer' = Tail(writer)
        /\ writeLoop = "idle" /\ writeLoop' = "writing" /\ UNCHANGED <<uploading, ipc>>
    BY <1>3 DEF WriterTakes, WriterReady, connVars, ipcVars
  <2>2. W = IF Head(writer).type = "Piece" THEN W' + 1 ELSE W'
    BY <1>t, <2>1, CountTail
  <2>3. writer' \in Seq(Messages)
    BY <1>t, <2>1
  <2>4. W' \in Nat
    BY <2>3, CountIsNat
  <2>5. H = 0 /\ H' = (IF Head(writer).type = "Piece" THEN 1 ELSE 0) /\ U' = U /\ Total' = Total
    BY <2>1
  <2> QED  BY <1>n, <1>o, <2>2, <2>4, <2>5
<1>4. CASE WriterWrites
  <2>1. H = 0 /\ H' = 0 /\ W' = W /\ U' = U /\ Total' = Total
    BY <1>4 DEF WriterWrites, connVars, ipcVars
  <2> QED  BY <1>o, <2>1
<1>5. CASE WriterNotifies
  <2>1. /\ writeLoop = "writing" /\ held.type = "Piece" /\ writeLoop' = "idle"
        /\ UNCHANGED <<writer, uploading>> /\ ipc' = Append(ipc, Signal("BlockUploaded"))
    BY <1>5 DEF WriterNotifies, SendIpc, connVars
  <2>2. U' = U + 1
    BY <1>t, <2>1, CountAppend, IpcTypes, TypeFields
  <2>3. H = 1 /\ H' = 0 /\ W' = W /\ Total' = Total
    BY <2>1
  <2> QED  BY <1>n, <1>o, <2>2, <2>3
<1>6. ASSUME NEW task, NEW i \in IPC, i.type # "BlockUploaded", SendIpc(task, i),
             UNCHANGED <<uploading, writerVars>>
      PROVE  W' + H' + U' = Total'
  <2>1. U' = U
    BY <1>t, <1>6, CountAppend DEF SendIpc
  <2> QED  BY <2>1, <1>6, <1>u DEF writerVars
<1>7. ASSUME NEW m \in RemoteMessages, ReaderSends(m) PROVE W' + H' + U' = Total'
  <2>1. m \in IPC /\ m.type # "BlockUploaded"
    BY PeerConnectionAssumption, IpcTypes DEF Messages
  <2> QED  BY <2>1, <1>6, <1>7 DEF ReaderSends, connVars
<1>8. CASE ManagerSends
  <2>1. pending # <<>> /\ SendIpc("manager", Head(pending)) /\ UNCHANGED <<uploading, writerVars>>
    BY <1>8 DEF ManagerSends, connVars
  <2>2. Head(pending) \in Broadcasts
    BY <1>t, <2>1
  <2>3. Head(pending) \in IPC /\ Head(pending).type # "BlockUploaded"
    BY <2>2, IpcTypes DEF Broadcasts
  <2> QED  BY <2>1, <2>3, <1>6
<1>9. CASE WriterFails \/ WriterEnds \/ LeaveLoop \/ FinishLoop
  BY <1>9 DEF WriterFails, WriterEnds, EndWriteLoop, LeaveLoop, FinishLoop, EndLoop
<1>10. CASE UNCHANGED vars \/ ReaderEnds \/ (\E b \in Blocks : StoreBlock(b))
  BY <1>10, <1>u DEF vars, ReaderEnds, StoreBlock, connVars, writerVars, ipcVars
<1> QED  BY <1>1, <1>2, <1>3, <1>4, <1>5, <1>7, <1>8, <1>9, <1>10
         DEF Next, PeerLoop, WriteLoop, ReadLoop

(* upload_in_progress stands for exactly one block on its way to the remote *)
(* side, or its BlockUploaded on the way back.                              *)
THEOREM OneUploadAtATime == Spec => []OneBlockUnderWay
<1>1. Init => SaysNoBlock /\ OneBlockUnderWay
  <2> SUFFICES ASSUME Init PROVE SaysNoBlock /\ OneBlockUnderWay
    OBVIOUS
  <2>1. SaysNoBlock
    <3>1. ASSUME NEW m, On(steps, Say(m)) PROVE m = Bitfield(meHas)
      BY <3>1, OnShort, StepOps DEF Init
    <3> QED  BY <3>1, TypeFields DEF SaysNoBlock
  <2>2. writer = <<>> /\ ipc = <<>> /\ writeLoop = "idle" /\ uploading = FALSE
    BY DEF Init
  <2>3. BlocksUnderWay = 0
    BY <2>2, UnderWayCounts, CountNone
  <2> QED  BY <2>1, <2>2, <2>3 DEF OneBlockUnderWay
<1> QED  BY <1>1, InitType, TypeStep, SaysNoBlockStep, UnderWayStep, PTL DEF Spec
=============================================================================
