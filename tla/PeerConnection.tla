--------------------------- MODULE PeerConnection ---------------------------
(***************************************************************************)
(* One connection after its handshake (peer/peer_connection.rs): the peer   *)
(* loop, its read loop and its write loop are three tasks that share only   *)
(* two bounded channels.  The peer loop takes messages and broadcasts from  *)
(* the ipc channel and hands messages for the remote side to the write loop *)
(* over the writer channel; the read loop, the write loop and the manager   *)
(* all send into the ipc channel.                                           *)
(***************************************************************************)
EXTENDS Integers, Sequences, FiniteSets

CONSTANTS
  Pieces,         \* piece indices
  BlocksPerPiece, \* blocks of each piece
  MaxRequests,    \* MAX_CONCURRENT_REQUESTS
  IpcBuffer,      \* 10: buffer of the ipc channel
  WriterBuffer,   \* 10: buffer of the writer channel
  RemoteMessages, \* what the remote side may send
  HonestRemote,   \* it requests only blocks of pieces it has been told of
  MaxReceived     \* bound: messages from the remote side

Blocks == Pieces \X (0..(BlocksPerPiece - 1))

Signal(t) == [type |-> t]
OfPiece(t, p) == [type |-> t, piece |-> p]
OfBlock(t, b) == [type |-> t, block |-> b]
Bitfield(S) == [type |-> "Bitfield", pieces |-> S]

(* Message, as far as the connection tells messages apart.                  *)
Messages ==
  [type : {"KeepAlive", "Choke", "UnChoke", "Interested", "NotInterested", "Port"}]
    \cup [type : {"Have"}, piece : Pieces]
    \cup [type : {"Bitfield"}, pieces : SUBSET Pieces]
    \cup [type : {"Request", "Piece", "Cancel"}, block : Blocks]

Broadcasts ==
  [type : {"BlockCompleted"}, block : Blocks]
    \cup [type : {"PieceCompleted"}, piece : Pieces]
    \cup [type : {"DownloadCompleted"}]

IPC == Messages \cup Broadcasts \cup [type : {"BlockUploaded"}]

ASSUME PeerConnectionAssumption ==
  /\ Pieces \subseteq Nat /\ IsFiniteSet(Pieces)
  /\ BlocksPerPiece \in Nat \ {0}
  /\ MaxRequests \in Nat \ {0}
  /\ IpcBuffer \in Nat
  /\ WriterBuffer \in Nat
  /\ RemoteMessages \subseteq Messages
  /\ HonestRemote \in BOOLEAN
  /\ MaxReceived \in Nat

(* What a handler has still to do, one await after the other.               *)
Steps ==
  [op : {"store", "interest", "request", "upload"}]
    \cup [op : {"queue"}, pieces : SUBSET Pieces]
    \cup [op : {"insert"}, blocks : SUBSET Blocks]
    \cup [op : {"say"}, message : Messages]

Do(op) == [op |-> op]
Insert(B) == [op |-> "insert", blocks |-> B]
Queue(S) == [op |-> "queue", pieces |-> S]
Say(m) == [op |-> "say", message |-> m]

VARIABLES
  meChoked, meInterested, meHas, meRequests, \* PeerConnection.me
  heChoked, heInterested, heRequests,        \* PeerConnection.he
  toRequest,  \* to_request
  uploading,  \* upload_in_progress
  loop,       \* the peer loop is "running", "draining" (awaits the write loop) or "ended"
  steps,      \* the rest of the handler it is in; empty in select!
  blocked,    \* its last send waits for room in the writer channel
  ipc,        \* the ipc channel
  ipcParked,  \* the tasks whose send waits for room in it, in order
  writer,     \* the writer channel
  writeLoop,  \* the write loop is "idle", "writing" or "ended"
  held,       \* the message it writes
  readLoop,   \* the read loop is "reading" or "ended"
  pending,    \* broadcasts on their way through the manager
  stored,     \* blocks whose storing completed a piece (in the download task)
  announced,  \* pieces that the remote side has been told of
  received    \* messages read from the remote side

meVars == <<meChoked, meInterested, meHas, meRequests>>
heVars == <<heChoked, heInterested, heRequests>>
connVars == <<meVars, heVars, toRequest, uploading>>
loopVars == <<loop, steps, blocked>>
ipcVars == <<ipc, ipcParked>>
writerVars == <<writer, writeLoop, held>>
outsideVars == <<readLoop, pending, stored, announced, received>>
vars == <<connVars, loopVars, ipcVars, writerVars, outsideVars>>

(* The pieces that the download task has completed.                         *)
Complete == {b[1] : b \in stored}

(* What the download task broadcasts when it stores b and thereby completes *)
(* its piece.                                                               *)
Announcement(b) ==
  <<OfBlock("BlockCompleted", b), OfPiece("PieceCompleted", b[1])>>
    \o IF Pieces \subseteq Complete \cup {b[1]} THEN <<Signal("DownloadCompleted")>> ELSE <<>>

(* have_pieces is read after the manager has registered the connection: a   *)
(* piece completed in between is in it and is broadcast to it too.          *)
Init ==
  /\ \E S \in SUBSET Pieces :
       /\ stored = S \X {0}
       /\ meHas = S
       /\ pending \in {<<>>} \cup
            {<<OfBlock("BlockCompleted", <<p, 0>>), OfPiece("PieceCompleted", p)>> : p \in S}
  /\ meChoked = TRUE
  /\ meInterested = FALSE
  /\ meRequests = {}
  /\ heChoked = TRUE
  /\ heInterested = FALSE
  /\ heRequests = <<>>
  /\ toRequest = {}
  /\ uploading = FALSE
  /\ loop = "running"
  /\ steps = <<Say(Bitfield(meHas))>>
  /\ blocked = FALSE
  /\ ipc = <<>>
  /\ ipcParked = <<>>
  /\ writer = <<>>
  /\ writeLoop = "idle"
  /\ held = Signal("KeepAlive")
  /\ readLoop = "reading"
  /\ announced = {}
  /\ received = 0

-----------------------------------------------------------------------------
(* The channels.  A send always enqueues its message; its task then waits   *)
(* if the channel holds more messages than its buffer.  Each message taken  *)
(* lets the first waiting task go on; dropping the receiving end lets all   *)
(* of them go on, and later sends fail.                                     *)
SendIpc(task, i) ==
  /\ loop # "ended"
  /\ ipc' = Append(ipc, i)
  /\ ipcParked' = IF Len(ipc) >= IpcBuffer THEN Append(ipcParked, task) ELSE ipcParked

IsParked(task) == \E i \in DOMAIN ipcParked : ipcParked[i] = task

SendWriter(m) ==
  /\ writeLoop # "ended"
  /\ writer' = Append(writer, m)
  /\ blocked' = (Len(writer) >= WriterBuffer)
  /\ UNCHANGED <<writeLoop, held>>

-----------------------------------------------------------------------------
(* peer_conn_loop.  It is between events, or at a step of a handler.        *)
Active == loop = "running" /\ ~blocked
InSelect == Active /\ steps = <<>>
At(op) == Active /\ steps # <<>> /\ Head(steps).op = op

Takes(i) ==
  /\ InSelect
  /\ ipc # <<>>
  /\ Head(ipc) = i
  /\ ipc' = Tail(ipc)
  /\ ipcParked' = IF ipcParked = <<>> THEN <<>> ELSE Tail(ipcParked)
  /\ UNCHANGED <<loop, blocked, writerVars, outsideVars>>

Proceed == steps' = Tail(steps) /\ UNCHANGED loop

(* A return with an error drops the connection and its receiving end.       *)
EndLoop ==
  /\ loop' = "ended"
  /\ steps' = <<>>
  /\ blocked' = FALSE
  /\ ipc' = <<>>
  /\ ipcParked' = <<>>

(* The read loop has gone: drop(peer_conn), then write_handle.await, during *)
(* which the receiving end exists but is not read.                          *)
LeaveLoop ==
  /\ InSelect
  /\ readLoop = "ended"
  /\ loop' = "draining"
  /\ UNCHANGED <<connVars, steps, blocked, ipcVars, writerVars, outsideVars>>

FinishLoop ==
  /\ loop = "draining"
  /\ writeLoop = "ended"
  /\ EndLoop
  /\ UNCHANGED <<connVars, writerVars, outsideVars>>

-----------------------------------------------------------------------------
(* process_message                                                         *)
ReceiveKeepAlive ==
  /\ Takes(Signal("KeepAlive"))
  /\ UNCHANGED <<connVars, steps>>

ReceivePort ==
  /\ InSelect
  /\ ipc # <<>>
  /\ Head(ipc) = Signal("Port")
  /\ EndLoop
  /\ UNCHANGED <<connVars, writerVars, outsideVars>>

ReceiveChoke ==
  /\ Takes(Signal("Choke"))
  /\ meChoked' = TRUE
  /\ UNCHANGED <<meInterested, meHas, meRequests, heVars, toRequest, uploading, steps>>

ReceiveUnChoke ==
  /\ Takes(Signal("UnChoke"))
  /\ meChoked' = FALSE
  /\ steps' = IF meChoked THEN <<Do("request")>> ELSE <<>>
  /\ UNCHANGED <<meInterested, meHas, meRequests, heVars, toRequest, uploading>>

ReceiveInterested ==
  /\ Takes(Signal("Interested"))
  /\ heInterested' = TRUE
  /\ heChoked' = FALSE
  /\ steps' = IF heChoked THEN <<Say(Signal("UnChoke")), Do("upload")>> ELSE <<>>
  /\ UNCHANGED <<meVars, heRequests, toRequest, uploading>>

ReceiveNotInterested ==
  /\ Takes(Signal("NotInterested"))
  /\ heInterested' = FALSE
  /\ UNCHANGED <<meVars, heChoked, heRequests, toRequest, uploading, steps>>

(* Mutant of ReceiveHave: the interest is updated before the blocks are     *)
(* queued.                                                                  *)
ReceiveHaveEarly(p) ==
  /\ Takes(OfPiece("Have", p))
  /\ steps' = <<Do("interest"), Queue({p}), Do("request")>>
  /\ UNCHANGED connVars

ReceiveHave(p) ==
  /\ Takes(OfPiece("Have", p))
  /\ steps' = <<Queue({p}), Do("interest"), Do("request")>>
  /\ UNCHANGED connVars

ReceiveBitfield(S) ==
  /\ Takes(Bitfield(S))
  /\ steps' = <<Queue(S), Do("interest"), Do("request")>>
  /\ UNCHANGED connVars

HasRequest(b) == \E i \in DOMAIN heRequests : heRequests[i] = b

ReceiveRequest(b) ==
  /\ Takes(OfBlock("Request", b))
  /\ heRequests' = IF HasRequest(b) THEN heRequests ELSE Append(heRequests, b)
  /\ steps' = <<Do("upload")>>
  /\ UNCHANGED <<meVars, heChoked, heInterested, toRequest, uploading>>

(* Mutant of ReceivePiece: no further blocks are requested.                 *)
ReceivePieceOnly(b) ==
  /\ Takes(OfBlock("Piece", b))
  /\ meRequests' = meRequests \ {b}
  /\ steps' = <<Do("store"), Do("interest")>>
  /\ UNCHANGED <<meChoked, meInterested, meHas, heVars, toRequest, uploading>>

ReceivePiece(b) ==
  /\ Takes(OfBlock("Piece", b))
  /\ meRequests' = meRequests \ {b}
  /\ steps' = <<Do("store"), Do("interest"), Do("request")>>
  /\ UNCHANGED <<meChoked, meInterested, meHas, heVars, toRequest, uploading>>

(* RequestQueue::remove; a request is in the queue at most once.            *)
Position(b) == CHOOSE i \in DOMAIN heRequests : heRequests[i] = b

Without(b) ==
  IF HasRequest(b)
  THEN SubSeq(heRequests, 1, Position(b) - 1)
         \o SubSeq(heRequests, Position(b) + 1, Len(heRequests))
  ELSE heRequests

ReceiveCancel(b) ==
  /\ Takes(OfBlock("Cancel", b))
  /\ heRequests' = Without(b)
  /\ UNCHANGED <<meVars, heChoked, heInterested, toRequest, uploading, steps>>

-----------------------------------------------------------------------------
(* The broadcasts and the write loop's signal.                             *)
(* Mutant of ReceiveBlockCompleted: a block that is not yet requested stays *)
(* queued.                                                                  *)
ReceiveBlockCompletedLate(b) ==
  /\ Takes(OfBlock("BlockCompleted", b))
  /\ meRequests' = meRequests \ {b}
  /\ steps' = IF b \in meRequests THEN <<Say(OfBlock("Cancel", b))>> ELSE <<>>
  /\ UNCHANGED <<meChoked, meInterested, meHas, heVars, toRequest, uploading>>

ReceiveBlockCompleted(b) ==
  /\ Takes(OfBlock("BlockCompleted", b))
  /\ toRequest' = toRequest \ {b}
  /\ meRequests' = meRequests \ {b}
  /\ steps' = IF b \in meRequests THEN <<Say(OfBlock("Cancel", b))>> ELSE <<>>
  /\ UNCHANGED <<meChoked, meInterested, meHas, heVars, uploading>>

(* Mutant of ReceivePieceCompleted: Have only for pieces not in me.has,     *)
(* swapped with the line that puts it there, so never.                      *)
ReceivePieceCompletedSilently(p) ==
  /\ Takes(OfPiece("PieceCompleted", p))
  /\ meHas' = meHas \cup {p}
  /\ steps' = <<Do("interest")>>
  /\ UNCHANGED <<meChoked, meInterested, meRequests, heVars, toRequest, uploading>>

ReceivePieceCompleted(p) ==
  /\ Takes(OfPiece("PieceCompleted", p))
  /\ meHas' = meHas \cup {p}
  /\ steps' = <<Do("interest"), Say(OfPiece("Have", p))>>
  /\ UNCHANGED <<meChoked, meInterested, meRequests, heVars, toRequest, uploading>>

ReceiveDownloadCompleted ==
  /\ Takes(Signal("DownloadCompleted"))
  /\ steps' = <<Do("interest")>>
  /\ UNCHANGED connVars

(* Mutant of ReceiveBlockUploaded: upload_in_progress is not reset.         *)
ReceiveBlockUploadedOnly ==
  /\ Takes(Signal("BlockUploaded"))
  /\ steps' = <<Do("upload")>>
  /\ UNCHANGED connVars

ReceiveBlockUploaded ==
  /\ Takes(Signal("BlockUploaded"))
  /\ uploading' = FALSE
  /\ steps' = <<Do("upload")>>
  /\ UNCHANGED <<meVars, heVars, toRequest>>

-----------------------------------------------------------------------------
(* The steps of the handlers.                                              *)
SayMessage ==
  /\ At("say")
  /\ SendWriter(Head(steps).message)
  /\ Proceed
  /\ UNCHANGED <<connVars, ipcVars, outsideVars>>

(* Piece(..) to the download task: whether its piece gets stored is left to *)
(* StoreBlock.                                                              *)
StoreStep ==
  /\ At("store")
  /\ Proceed
  /\ UNCHANGED <<connVars, blocked, ipcVars, writerVars, outsideVars>>

(* Mutant of IncompleteBlocks: blocks counted from 1.                       *)
IncompleteBlocksFromOne(p) ==
  IF p \in Complete THEN {} ELSE {p} \X (1..BlocksPerPiece)

(* queue_blocks for the next piece of the message: the download task        *)
(* answers with its state.                                                  *)
IncompleteBlocks(p) ==
  IF p \in Complete THEN {} ELSE {b \in Blocks : b[1] = p}

QueueStep ==
  /\ At("queue")
  /\ LET S == Head(steps).pieces
     IN  \/ S = {} /\ Proceed
         \/ \E p \in S :
              /\ \A q \in S : p <= q
              /\ steps' = <<Insert(IncompleteBlocks(p)), Queue(S \ {p})>> \o Tail(steps)
              /\ UNCHANGED loop
  /\ UNCHANGED <<connVars, blocked, ipcVars, writerVars, outsideVars>>

(* Mutant of Inserted: blocks already requested are inserted again.         *)
InsertedAll(B) == B

(* The answer has come, maybe after further stores: what it inserts into    *)
(* to_request.                                                              *)
Inserted(B) == B \ meRequests

InsertStep ==
  /\ At("insert")
  /\ toRequest' = toRequest \cup Inserted(Head(steps).blocks)
  /\ Proceed
  /\ UNCHANGED <<meVars, heVars, uploading, blocked, ipcVars, writerVars, outsideVars>>

(* update_my_interested_status                                             *)
AmInterested == meRequests # {} \/ toRequest # {}

InterestUnchanged ==
  /\ At("interest")
  /\ meInterested = AmInterested
  /\ Proceed
  /\ UNCHANGED <<connVars, blocked, ipcVars, writerVars, outsideVars>>

InterestChanges ==
  /\ At("interest")
  /\ meInterested # AmInterested
  /\ meInterested' = AmInterested
  /\ SendWriter(Signal(IF AmInterested THEN "Interested" ELSE "NotInterested"))
  /\ Proceed
  /\ UNCHANGED <<meChoked, meHas, meRequests, heVars, toRequest, uploading, ipcVars,
                 outsideVars>>

(* Mutant of CanRequest: one request too many.                              *)
CanRequestOneMore ==
  /\ ~meChoked
  /\ meInterested
  /\ toRequest # {}
  /\ Cardinality(meRequests) <= MaxRequests

(* request_more_blocks: one turn of its loop, for any key of the hash map.  *)
CanRequest ==
  /\ ~meChoked
  /\ meInterested
  /\ toRequest # {}
  /\ Cardinality(meRequests) < MaxRequests

RequestOne(b) ==
  /\ At("request")
  /\ CanRequest
  /\ b \in toRequest
  /\ toRequest' = toRequest \ {b}
  /\ meRequests' = meRequests \cup {b}
  /\ IF b \in meRequests
     THEN UNCHANGED <<writerVars, blocked>>
     ELSE SendWriter(OfBlock("Request", b))
  /\ UNCHANGED <<meChoked, meInterested, meHas, heVars, uploading, loop, steps, ipcVars,
                 outsideVars>>

RequestsDone ==
  /\ At("request")
  /\ ~CanRequest
  /\ Proceed
  /\ UNCHANGED <<connVars, blocked, ipcVars, writerVars, outsideVars>>

(* Mutant of CanUpload: the upload in progress is not waited for.           *)
CanUploadMore == ~heChoked /\ heInterested /\ heRequests # <<>>

(* upload_next_block: a request for a piece that is not complete makes the  *)
(* download task return with an error, which cancels the reply.             *)
CanUpload == ~uploading /\ ~heChoked /\ heInterested /\ heRequests # <<>>

UploadNext ==
  /\ At("upload")
  /\ CanUpload
  /\ Head(heRequests)[1] \in Complete
  /\ heRequests' = Tail(heRequests)
  /\ uploading' = TRUE
  /\ SendWriter(OfBlock("Piece", Head(heRequests)))
  /\ Proceed
  /\ UNCHANGED <<meVars, heChoked, heInterested, toRequest, ipcVars, outsideVars>>

UploadOfMissing ==
  /\ At("upload")
  /\ CanUpload
  /\ Head(heRequests)[1] \notin Complete
  /\ EndLoop
  /\ UNCHANGED <<connVars, writerVars, outsideVars>>

NothingToUpload ==
  /\ At("upload")
  /\ ~CanUpload
  /\ Proceed
  /\ UNCHANGED <<connVars, blocked, ipcVars, writerVars, outsideVars>>

(* Sending to a write loop that has ended is an error.                      *)
WouldSend ==
  \/ At("say")
  \/ (At("interest") /\ meInterested # AmInterested)
  \/ (At("request") /\ CanRequest)
  \/ (At("upload") /\ CanUpload)

SendFails ==
  /\ WouldSend
  /\ writeLoop = "ended"
  /\ EndLoop
  /\ UNCHANGED <<connVars, writerVars, outsideVars>>

(* So is asking a download task that has ended.                             *)
DownloadIsGone ==
  /\ At("store") \/ At("queue") \/ (At("upload") /\ CanUpload)
  /\ EndLoop
  /\ UNCHANGED <<connVars, writerVars, outsideVars>>

-----------------------------------------------------------------------------
(* conn_write_loop                                                         *)
WriterReady == writeLoop = "idle" /\ ~IsParked("write")

WriterTakes ==
  /\ WriterReady
  /\ writer # <<>>
  /\ held' = Head(writer)
  /\ writer' = Tail(writer)
  /\ writeLoop' = "writing"
  /\ blocked' = FALSE
  /\ UNCHANGED <<connVars, loop, steps, ipcVars, outsideVars>>

(* write_all has written a message other than Piece.                        *)
Tells(m) ==
  CASE m.type = "Have" -> {m.piece}
    [] m.type = "Bitfield" -> m.pieces
    [] OTHER -> {}

WriterWrites ==
  /\ writeLoop = "writing"
  /\ held.type # "Piece"
  /\ writeLoop' = "idle"
  /\ announced' = announced \cup Tells(held)
  /\ UNCHANGED <<connVars, loopVars, ipcVars, writer, held, readLoop, pending, stored, received>>

(* write_all has written a block: BlockUploaded to the peer loop.           *)
WriterNotifies ==
  /\ writeLoop = "writing"
  /\ held.type = "Piece"
  /\ SendIpc("write", Signal("BlockUploaded"))
  /\ writeLoop' = "idle"
  /\ UNCHANGED <<connVars, loopVars, writer, held, outsideVars>>

EndWriteLoop ==
  /\ writeLoop' = "ended"
  /\ writer' = <<>>
  /\ blocked' = FALSE
  /\ UNCHANGED <<connVars, loop, steps, ipcVars, held, outsideVars>>

(* An error of write_all, or of the send to a peer loop that has ended.     *)
WriterFails == writeLoop = "writing" /\ EndWriteLoop

(* Mutant of WriterEnds: the peer loop keeps its sender while it awaits the *)
(* write loop.                                                              *)
WriterEndsLast ==
  /\ WriterReady
  /\ writer = <<>>
  /\ loop = "ended"
  /\ EndWriteLoop

(* messages.next() is None: the peer loop has dropped its end.              *)
WriterEnds ==
  /\ WriterReady
  /\ writer = <<>>
  /\ loop # "running"
  /\ EndWriteLoop

-----------------------------------------------------------------------------
(* conn_read_loop: a message of the remote side, or the end of the stream   *)
(* (or of the receiving end of its channel).                                *)
ReaderReady == readLoop = "reading" /\ ~IsParked("read")

Honest(m) == m.type = "Request" => m.block[1] \in announced

ReaderSends(m) ==
  /\ ReaderReady
  /\ received < MaxReceived
  /\ HonestRemote => Honest(m)
  /\ SendIpc("read", m)
  /\ received' = received + 1
  /\ UNCHANGED <<connVars, loopVars, writerVars, readLoop, pending, stored, announced>>

ReaderEnds ==
  /\ ReaderReady
  /\ readLoop' = "ended"
  /\ UNCHANGED <<connVars, loopVars, ipcVars, writerVars, pending, stored, announced, received>>

-----------------------------------------------------------------------------
(* The rest of the program: the download task stores a block, from this     *)
(* connection or another, and thereby completes its piece; the manager      *)
(* passes the broadcasts on.                                                *)
(* Mutant of StoreBlock: a piece is announced that is not stored.           *)
StoreBlockAnnounced(b) ==
  /\ b[1] \notin Complete
  /\ pending = <<>>
  /\ pending' = Announcement(b)
  /\ UNCHANGED <<connVars, loopVars, ipcVars, writerVars, readLoop, stored, announced,
                 received>>

StoreBlock(b) ==
  /\ b[1] \notin Complete
  /\ stored' = stored \cup {b}
  /\ pending' = pending \o Announcement(b)
  /\ UNCHANGED <<connVars, loopVars, ipcVars, writerVars, readLoop, announced, received>>

ManagerSends ==
  /\ pending # <<>>
  /\ ~IsParked("manager")
  /\ SendIpc("manager", Head(pending))
  /\ pending' = Tail(pending)
  /\ UNCHANGED <<connVars, loopVars, writerVars, readLoop, stored, announced, received>>

-----------------------------------------------------------------------------
ProcessMessage ==
  \/ ReceiveKeepAlive
  \/ ReceivePort
  \/ ReceiveChoke
  \/ ReceiveUnChoke
  \/ ReceiveInterested
  \/ ReceiveNotInterested
  \/ \E p \in Pieces : ReceiveHave(p)
  \/ \E S \in SUBSET Pieces : ReceiveBitfield(S)
  \/ \E b \in Blocks : ReceiveRequest(b) \/ ReceivePiece(b) \/ ReceiveCancel(b)

ProcessBroadcast ==
  \/ \E b \in Blocks : ReceiveBlockCompleted(b)
  \/ \E p \in Pieces : ReceivePieceCompleted(p)
  \/ ReceiveDownloadCompleted
  \/ ReceiveBlockUploaded

HandlerStep ==
  \/ SayMessage
  \/ StoreStep
  \/ QueueStep
  \/ InsertStep
  \/ InterestUnchanged
  \/ InterestChanges
  \/ \E b \in Blocks : RequestOne(b)
  \/ RequestsDone
  \/ UploadNext
  \/ UploadOfMissing
  \/ NothingToUpload
  \/ SendFails
  \/ DownloadIsGone

PeerLoop == LeaveLoop \/ FinishLoop \/ ProcessMessage \/ ProcessBroadcast \/ HandlerStep

WriteLoop == WriterTakes \/ WriterWrites \/ WriterNotifies \/ WriterFails \/ WriterEnds

ReadLoop == (\E m \in RemoteMessages : ReaderSends(m)) \/ ReaderEnds

Next ==
  \/ PeerLoop
  \/ WriteLoop
  \/ ReadLoop
  \/ \E b \in Blocks : StoreBlock(b)
  \/ ManagerSends

Spec == Init /\ [][Next]_vars

(* The executor polls every task that can go on.  Nothing is assumed of     *)
(* what the remote side sends.                                              *)
FairSpec ==
  /\ Spec
  /\ WF_vars(PeerLoop)
  /\ WF_vars(WriterTakes \/ WriterEnds)
  /\ WF_vars(ManagerSends)
  /\ WF_vars(writeLoop = "ended" /\ ReaderEnds)

(* Not the code's doing, for it sets no timeout on a write: the remote side *)
(* takes what is written, or breaks the stream.                             *)
WritesEnd == WF_vars(WriterWrites \/ WriterNotifies \/ WriterFails)

WritingSpec == FairSpec /\ WritesEnd

-----------------------------------------------------------------------------
(* The type invariant.                                                     *)
TypeOK ==
  /\ meChoked \in BOOLEAN /\ meInterested \in BOOLEAN
  /\ meHas \subseteq Pieces
  /\ meRequests \subseteq Blocks
  /\ heChoked \in BOOLEAN /\ heInterested \in BOOLEAN
  /\ heRequests \in Seq(Blocks)
  /\ toRequest \subseteq Blocks
  /\ uploading \in BOOLEAN
  /\ loop \in {"running", "draining", "ended"}
  /\ steps \in Seq(Steps)
  /\ blocked \in BOOLEAN
  /\ ipc \in Seq(IPC)
  /\ ipcParked \in Seq({"read", "write", "manager"})
  /\ writer \in Seq(Messages)
  /\ writeLoop \in {"idle", "writing", "ended"}
  /\ held \in Messages
  /\ readLoop \in {"reading", "ended"}
  /\ pending \in Seq(Broadcasts)
  /\ stored \subseteq Blocks
  /\ announced \subseteq Pieces
  /\ received \in 0..MaxReceived

(* A block is never both requested and still to be requested, whatever      *)
(* Have, Bitfield, Cancel and broadcasts come in between, and no more than  *)
(* MAX_CONCURRENT_REQUESTS are out.                                         *)
RequestsDisjoint == toRequest \cap meRequests = {}
RequestsBounded == Cardinality(meRequests) <= MaxRequests
PipelineIsSound == RequestsDisjoint /\ RequestsBounded

(* Between events, a connection that wants blocks has signalled it: none of *)
(* the handlers leaves blocks to request and no interest.                   *)
WantingIsInterested == InSelect /\ AmInterested => meInterested

On(q, i) == \E k \in DOMAIN q : q[k] = i

(* The pipeline runs short of requests in one way only: no handler leaves   *)
(* blocks that may be requested and are not, but that of BlockCompleted,    *)
(* which cancels a request and makes no other one.                          *)
RunsShort == loop = "running" /\ CanRequest /\ ~On(steps, Do("request"))
CancelsRequest == \E b \in meRequests : InSelect /\ ipc # <<>> /\ Head(ipc) = OfBlock("BlockCompleted", b)

PipelineIsFilled == [][RunsShort' => RunsShort \/ CancelsRequest]_vars

OnItsWay(i) == On(pending, i) \/ On(ipc, i)

(* A stored block that is still wanted or requested here has a broadcast on *)
(* its way that takes it out: the reply of the download task to             *)
(* queue_blocks and the broadcasts cannot pass each other.                  *)
StoredLeaveThePipeline ==
  loop = "running" =>
    \A b \in (toRequest \cup meRequests) \cap stored : OnItsWay(OfBlock("BlockCompleted", b))

(* The messages on their way to the remote side.                           *)
Outgoing(m) ==
  \/ On(steps, Say(m))
  \/ On(writer, m)
  \/ writeLoop = "writing" /\ held = m

(* No completed piece is kept from the remote side: it has been told, or    *)
(* the broadcast, the Have or the bitfield is on its way.                   *)
NoLostHave ==
  loop = "running" /\ writeLoop # "ended" =>
    \A p \in Complete :
      \/ p \in announced
      \/ OnItsWay(OfPiece("PieceCompleted", p))
      \/ Outgoing(OfPiece("Have", p))
      \/ \E S \in SUBSET Pieces : p \in S /\ Outgoing(Bitfield(S))

(* upload_in_progress stands for exactly one block between the peer loop    *)
(* and the write loop: a Piece to be written or its BlockUploaded.          *)
BlocksUnderWay ==
  Cardinality({k \in DOMAIN writer : writer[k].type = "Piece"})
    + (IF writeLoop = "writing" /\ held.type = "Piece" THEN 1 ELSE 0)
    + Cardinality({k \in DOMAIN ipc : ipc[k].type = "BlockUploaded"})

OneBlockUnderWay ==
  loop = "running" /\ writeLoop # "ended" =>
    BlocksUnderWay = IF uploading THEN 1 ELSE 0

(* A remote side that requests only what it has been told of never makes    *)
(* this connection ask for a piece that is not complete, which would end    *)
(* the download task.                                                       *)
NeverAsksForMissing == \A i \in DOMAIN heRequests : heRequests[i][1] \in Complete

(* "notify the main PeerConnection thread that this block is finished"      *)
(* (conn_write_loop): while the peer loop runs, an upload in progress comes *)
(* to its end.                                                              *)
UploadsFinish == (loop = "running" /\ uploading) ~> (loop # "running" \/ ~uploading)

(* The same as a condition on states: the write loop, with its notification *)
(* in the full ipc channel, never waits for the peer loop while that waits  *)
(* for room in the writer channel.  From such a state neither ever goes on. *)
NotificationGetsThrough == ~(blocked /\ IsParked("write"))

(* Once the remote side has closed, the peer loop gets past awaiting the    *)
(* write loop, but where that has its notification to send: the ipc channel *)
(* is full and is no longer read.                                           *)
ClosingEnds == (loop = "draining") ~> (loop = "ended" \/ IsParked("write"))
=============================================================================
