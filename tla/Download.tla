------------------------------ MODULE Download ------------------------------
(***************************************************************************)
(* The download task (base/download.rs): it alone owns the pieces, the      *)
(* flags of their blocks and the files, and works off the events that the   *)
(* manager forwards, one at a time.  Its output to the rest of the program  *)
(* is the broadcasts it hands to the manager and the replies to requests.   *)
(***************************************************************************)
EXTENDS FileLayout

CONSTANTS
  Peers,      \* connection tasks that send requests and wait for the reply
  Arrivals,   \* what remote sides deliver: bytes for some offset of a piece
  Ranges,     \* what remote sides request: a range at some offset of a piece
  Leftovers,  \* which of the torrent's bytes the files may hold at the start
  Faults,     \* what may go wrong in a file operation
  MaxRx       \* bound: events waiting in the download task's channel

(* The connections pass on what they receive: nothing ties an offset or a   *)
(* length to the blocks of the piece.  Of a byte that is delivered it       *)
(* matters whether it is the torrent's at the place where it is written.    *)
ASSUME DownloadAssumption ==
  /\ Arrivals \subseteq [piece : Nat, offset : Nat, data : Seq(BOOLEAN)]
  /\ Ranges \subseteq [piece : Nat, offset : Nat, len : Nat]
  /\ Leftovers \subseteq SUBSET Positions
  /\ Faults \subseteq {"write", "read", "short", "rename"}
  /\ MaxRx \in Nat

VARIABLES
  alive,      \* download_loop has not returned
  rx,         \* ManagerEvents waiting in the channel
  blockDone,  \* blocks whose is_completed flag is set
  pieceDone,  \* pieces whose is_completed flag is set
  good,       \* positions where the files hold the torrent's byte
  spilled,    \* positions of complete pieces overrun by data for another block
  finished,   \* files that have lost their .temp suffix
  sent,       \* every Broadcast handed to the manager so far
  reply,      \* the oneshot that a peer waits on
  unverified  \* <<p, x>>: a request for piece p has read a wrong byte at x

vars == <<alive, rx, blockDone, pieceDone, good, spilled, finished, sent, reply, unverified>>

BlockCompleted(b) == [type |-> "BlockCompleted", of |-> b]
PieceCompleted(p) == [type |-> "PieceCompleted", of |-> p]
DownloadCompleted == [type |-> "DownloadCompleted", of |-> 0]
Broadcasts ==
  {BlockCompleted(b) : b \in Blocks} \cup {PieceCompleted(p) : p \in Pieces}
    \cup {DownloadCompleted}

StoreEvents ==
  {[type |-> "Piece", piece |-> a.piece, offset |-> a.offset, data |-> a.data] : a \in Arrivals}
DataRequests ==
  {[type |-> "RequireData", piece |-> r.piece, offset |-> r.offset, len |-> r.len, from |-> q] :
     r \in Ranges, q \in Peers}
BlockRequests == [type : {"RequireIncompleteBlocks"}, piece : Pieces, from : Peers]
HaveRequests == [type : {"RequireHavePieces"}, from : Peers]
Requests == DataRequests \cup BlockRequests \cup HaveRequests
Events == StoreEvents \cup Requests

(* create_files opens the .temp files without truncating them, so they may  *)
(* hold what an earlier run wrote; no flag is set from it.                  *)
Init ==
  /\ alive = TRUE
  /\ rx = <<>>
  /\ blockDone = {}
  /\ pieceDone = {}
  /\ good \in Leftovers
  /\ spilled = {}
  /\ finished = {}
  /\ sent = <<>>
  /\ reply = [q \in Peers |-> "none"]
  /\ unverified = {}

-----------------------------------------------------------------------------
(* The other tasks.  A peer has one request in flight and blocks on it.     *)
SendBlock(e) ==
  /\ alive
  /\ Len(rx) < MaxRx
  /\ rx' = Append(rx, e)
  /\ UNCHANGED <<alive, blockDone, pieceDone, good, spilled, finished, sent, reply, unverified>>

SendRequest(e) ==
  /\ alive
  /\ Len(rx) < MaxRx
  /\ reply[e.from] = "none"
  /\ rx' = Append(rx, e)
  /\ reply' = [reply EXCEPT ![e.from] = "waiting"]
  /\ UNCHANGED <<alive, blockDone, pieceDone, good, spilled, finished, sent, unverified>>

TakeReply(q) ==
  /\ reply[q] = "answered"
  /\ reply' = [reply EXCEPT ![q] = "none"]
  /\ UNCHANGED <<alive, rx, blockDone, pieceDone, good, spilled, finished, sent, unverified>>

-----------------------------------------------------------------------------
(* download_loop takes the next event.                                     *)
Receives(e) == alive /\ rx # <<>> /\ Head(rx) = e

Continue == alive' = alive /\ rx' = Tail(rx)

(* An error or a panic ends the loop: the receiver is dropped, and with the *)
(* events in it the oneshot senders they carry.                             *)
EndLoop ==
  /\ alive' = FALSE
  /\ rx' = <<>>
  /\ reply' = [q \in Peers |-> IF reply[q] = "waiting" THEN "cancelled" ELSE reply[q]]

-----------------------------------------------------------------------------
(* store: one event Piece(piece, offset, data), which counts as the block    *)
(* that offset falls in and is written from the start of that block on.     *)
Block(e) == <<e.piece, e.offset \div BlockSize>>
Place(e) == BlockOffset(Block(e))

HasBlock(b) == b \in blockDone

(* Mutant of Known: `|| piece.is_completed` is dropped.                     *)
KnownByFlag(b) == HasBlock(b)

Known(b) == HasBlock(b) \/ b[1] \in pieceDone
HasAllBlocks(b) == BlocksOf(b[1]) \subseteq blockDone \cup {b}

(* The data goes to the file: has_block and search_ptrs have not panicked.  *)
Stores(e) ==
  /\ Receives(e)
  /\ Block(e) \in Blocks
  /\ ~Known(Block(e))
  /\ ~Outside(Place(e), Len(e.data))

(* The first k bytes of the data are written, however many the block has.   *)
WrittenPositions(e, k) == Place(e)..(Place(e) + k - 1)
Written(e, k) ==
  {x \in Positions :
     IF x \in WrittenPositions(e, k) THEN e.data[x - Place(e) + 1] ELSE x \in good}

(* What of it lies beyond the block, in a piece that is complete.           *)
Spill(e, k) ==
  {x \in WrittenPositions(e, k) :
     x >= Place(e) + BlockLength(Block(e)) /\ x \div PieceLength \in pieceDone}

StoreBlock(e, k) == good' = Written(e, k) /\ spilled' = spilled \cup Spill(e, k)

(* Mutant of MayBeValid: the hash of the bytes that came is not part of it.  *)
MayBeValidButLast(e) ==
  PiecePositions(e.piece) \ WrittenPositions(e, Len(e.data)) \subseteq Written(e, Len(e.data))

(* verify: the hash of what read returns, which is short of the piece when  *)
(* file.read delivers fewer bytes than asked for.                           *)
MayBeValid(e) == PiecePositions(e.piece) \subseteq Written(e, Len(e.data))
MayBeInvalid(e) == ~MayBeValid(e) \/ "short" \in Faults

(* Mutant of ResetBlocks: the flags stay set.                               *)
KeepBlocks(p) == blockDone \cup BlocksOf(p)

(* reset_blocks.                                                           *)
ResetBlocks(p) == blockDone \ BlocksOf(p)

(* verify_file: the files of this piece that are now complete and still     *)
(* carry the .temp suffix.                                                  *)
Completes(f, p) == ContainedPieces(f) \subseteq pieceDone \cup {p}
NewlyFinished(p) == {f \in TouchedFiles(p) : Completes(f, p)} \ finished

(* The loop of verify_file ends at file f with an error, when renaming or   *)
(* reopening it fails, or with a panic, when it has length 0 at offset 0:   *)
(* file_offsets[i + 1] - 1 underflows and pieces[low..=high] is out of range. *)
StopsAt(f, p) ==
  /\ f \in TouchedFiles(p)
  /\ \/ "rename" \in Faults /\ f \in NewlyFinished(p)
     \/ Offset(f + 1) = 0

IsComplete(p) == Pieces \subseteq pieceDone \cup {p}

(* Mutants of Announcements: the wrong index; the piece left out when the   *)
(* download is complete; the piece before the block.                        *)
AnnouncementsOffByOne(b) == <<BlockCompleted(b), PieceCompleted(b[1] + 1)>>
AnnouncementsOrElse(b) ==
  <<BlockCompleted(b), IF IsComplete(b[1]) THEN DownloadCompleted ELSE PieceCompleted(b[1])>>
AnnouncementsPieceFirst(b) ==
  <<PieceCompleted(b[1]), BlockCompleted(b)>>
    \o IF IsComplete(b[1]) THEN <<DownloadCompleted>> ELSE <<>>

Announcements(b) ==
  <<BlockCompleted(b), PieceCompleted(b[1])>>
    \o IF IsComplete(b[1]) THEN <<DownloadCompleted>> ELSE <<>>

StoreIgnored(e) ==
  /\ Receives(e)
  /\ Block(e) \in Blocks
  /\ Known(Block(e))
  /\ Continue
  /\ UNCHANGED <<blockDone, pieceDone, good, spilled, finished, sent, reply, unverified>>

(* The piece or the block does not exist, or the data would go beyond the   *)
(* end of the torrent.                                                      *)
StorePanics(e) ==
  /\ Receives(e)
  /\ \/ Block(e) \notin Blocks
     \/ ~Known(Block(e)) /\ Outside(Place(e), Len(e.data))
  /\ EndLoop
  /\ UNCHANGED <<blockDone, pieceDone, good, spilled, finished, sent, unverified>>

(* store_block fails after writing k bytes.                                 *)
StoreWriteFails(e) ==
  /\ "write" \in Faults
  /\ Stores(e)
  /\ EndLoop
  /\ \E k \in 0..Len(e.data) : StoreBlock(e, k)
  /\ UNCHANGED <<blockDone, pieceDone, finished, sent, unverified>>

StoreReadFails(e) ==
  /\ "read" \in Faults
  /\ Stores(e)
  /\ HasAllBlocks(Block(e))
  /\ EndLoop
  /\ StoreBlock(e, Len(e.data))
  /\ blockDone' = blockDone \cup {Block(e)}
  /\ UNCHANGED <<pieceDone, finished, sent, unverified>>

StoreInvalid(e) ==
  /\ Stores(e)
  /\ HasAllBlocks(Block(e))
  /\ MayBeInvalid(e)
  /\ Continue
  /\ StoreBlock(e, Len(e.data))
  /\ blockDone' = ResetBlocks(e.piece)
  /\ UNCHANGED <<pieceDone, finished, sent, reply, unverified>>

(* The rest of store: the hash is looked at for the last block only, yet    *)
(* the piece is marked complete whichever block this is.                    *)
MarksComplete(e) ==
  /\ Stores(e)
  /\ HasAllBlocks(Block(e)) => MayBeValid(e)
  /\ StoreBlock(e, Len(e.data))
  /\ blockDone' = blockDone \cup {Block(e)}
  /\ pieceDone' = pieceDone \cup {e.piece}

StoreCompletes(e) ==
  /\ MarksComplete(e)
  /\ \A f \in TouchedFiles(e.piece) : Offset(f + 1) # 0
  /\ finished' = finished \cup NewlyFinished(e.piece)
  /\ sent' = sent \o Announcements(Block(e))
  /\ Continue
  /\ UNCHANGED <<reply, unverified>>

(* verify_file has renamed the files before f.                              *)
StoreVerifyFileFails(e, f) ==
  /\ MarksComplete(e)
  /\ StopsAt(f, e.piece)
  /\ finished' = finished \cup {g \in NewlyFinished(e.piece) : g < f}
  /\ EndLoop
  /\ UNCHANGED <<sent, unverified>>

-----------------------------------------------------------------------------
(* Mutant of MayServe: requests are not checked.                            *)
MayServeAny(e) == TRUE

(* retrieve_data: a piece that is not complete, or a failing read, is an    *)
(* error that `?` turns into the end of the loop; a piece that does not     *)
(* exist, or a range beyond the end of the torrent, is a panic.  The range  *)
(* may run on into other pieces.  A short read is answered like any other,  *)
(* with zeros at its end.                                                   *)
MayServe(e) == e.piece \in pieceDone
ReadOffset(e) == PieceOffset(e.piece) + e.offset

(* The reply over the oneshot that came with the request.                  *)
Answer(q) == reply' = [reply EXCEPT ![q] = "answered"]

RequireData(e) ==
  /\ Receives(e)
  /\ MayServe(e) /\ ~Outside(ReadOffset(e), e.len)
  /\ Continue
  /\ Answer(e.from)
  /\ unverified' = unverified
       \cup {<<e.piece, x>> : x \in (ReadOffset(e)..(ReadOffset(e) + e.len - 1)) \ good}
  /\ UNCHANGED <<blockDone, pieceDone, good, spilled, finished, sent>>

RequireDataFails(e) ==
  /\ Receives(e)
  /\ ~MayServe(e) \/ Outside(ReadOffset(e), e.len) \/ "read" \in Faults
  /\ EndLoop
  /\ UNCHANGED <<blockDone, pieceDone, good, spilled, finished, sent, unverified>>

(* incomplete_blocks_for_piece, have_pieces: their values are the flags at  *)
(* this step.                                                               *)
IncompleteBlocksForPiece(p) ==
  IF p \in pieceDone THEN {} ELSE BlocksOf(p) \ blockDone

AnswerFromFlags(e) ==
  /\ Receives(e)
  /\ Continue
  /\ Answer(e.from)
  /\ UNCHANGED <<blockDone, pieceDone, good, spilled, finished, sent, unverified>>

-----------------------------------------------------------------------------
Store(e) ==
  \/ StoreIgnored(e)
  \/ StorePanics(e)
  \/ StoreWriteFails(e)
  \/ StoreReadFails(e)
  \/ StoreInvalid(e)
  \/ StoreCompletes(e)
  \/ \E f \in Files : StoreVerifyFileFails(e, f)

DownloadLoop ==
  \/ \E e \in StoreEvents : Store(e)
  \/ \E e \in DataRequests : RequireData(e) \/ RequireDataFails(e)
  \/ \E e \in BlockRequests \cup HaveRequests : AnswerFromFlags(e)

Environment ==
  \/ \E e \in StoreEvents : SendBlock(e)
  \/ \E e \in Requests : SendRequest(e)
  \/ \E q \in Peers : TakeReply(q)

Next == DownloadLoop \/ Environment

Spec == Init /\ [][Next]_vars

(* The executor keeps polling the download task.                            *)
FairSpec == Spec /\ WF_vars(DownloadLoop)

-----------------------------------------------------------------------------
(* The type invariant.                                                     *)
TypeOK ==
  /\ alive \in BOOLEAN
  /\ rx \in Seq(Events)
  /\ blockDone \subseteq Blocks
  /\ pieceDone \subseteq Pieces
  /\ good \subseteq Positions
  /\ spilled \subseteq Positions
  /\ finished \subseteq Files
  /\ sent \in Seq(Broadcasts)
  /\ reply \in [Peers -> {"none", "waiting", "answered", "cancelled"}]
  /\ unverified \subseteq Pieces \X Positions

(* "calculate the hash, verify it, and update is_complete" (verify): a      *)
(* piece is complete only while its bytes in the files are the torrent's.   *)
CompletedIsVerified == \A p \in pieceDone : PiecePositions(p) \subseteq good

(* The same for the pieces of one block, whose only block is the last one:  *)
(* whatever is delivered for whichever offset, and whichever writes fail,   *)
(* such a piece is complete only with bytes that have passed the hash, but  *)
(* for those that data longer than its own block has overrun since.         *)
SingleBlockIsVerified ==
  \A p \in pieceDone : NumBlocks(p) = 1 => PiecePositions(p) \subseteq good \cup spilled

(* What a request for such a piece reads inside of it has passed the hash,   *)
(* with the same exception, in whatever order stores, resets and requests   *)
(* come.  Of the bytes that it reads beyond the piece nothing is promised.  *)
ServedIsVerified ==
  \A u \in unverified :
    NumBlocks(u[1]) = 1 /\ u[2] \in PiecePositions(u[1]) => u[2] \in spilled

(* Whatever blocks arrive again and late, and whichever verifications fail, *)
(* an incomplete piece has a block to ask for again, until the loop ends.   *)
IncompletePieceIsRetriable ==
  alive => \A p \in Pieces \ pieceDone : IncompleteBlocksForPiece(p) # {}

WasSent(b) == \E i \in DOMAIN sent : sent[i] = b

(* Until the loop ends, the pieces a new connection reads with              *)
(* RequireHavePieces are those the older ones were told of: snapshot and    *)
(* announcements leave no piece out.                                        *)
SnapshotMatchesAnnouncements ==
  alive => pieceDone = {p \in Pieces : WasSent(PieceCompleted(p))}

(* The announcements follow a protocol: none is made twice, a piece's       *)
(* follows that of one of its blocks, and the download's comes last, after  *)
(* every piece's.                                                           *)
AnnouncementProtocol ==
  /\ \A i, j \in DOMAIN sent : sent[i] = sent[j] => i = j
  /\ \A i \in DOMAIN sent : sent[i].type = "PieceCompleted" =>
       \E j \in 1..(i - 1), b \in BlocksOf(sent[i].of) : sent[j] = BlockCompleted(b)
  /\ \A i \in DOMAIN sent : sent[i] = DownloadCompleted =>
       /\ i = Len(sent)
       /\ \A p \in Pieces : \E j \in 1..(i - 1) : sent[j] = PieceCompleted(p)

(* The bytes of file f and of piece p overlap: independent of search_ptrs   *)
(* and of the divisions in verify_file.                                     *)
Overlaps(f, p) ==
  /\ Offset(f) < PieceOffset(p) + PieceSize(p)
  /\ PieceOffset(p) < Offset(f + 1)

(* A file loses its .temp suffix only after every piece with a byte in it   *)
(* is complete.                                                             *)
FinishedFilesAreWhole ==
  \A f \in finished : {p \in Pieces : Overlaps(f, p)} \subseteq pieceDone

(* Whatever ranges are delivered or requested, store_block writes each byte  *)
(* once and to its place, and read takes it from there, and so it does for  *)
(* the whole piece, which verify reads, unless search_ptrs panics.          *)
BlocksAreCutAtFiles ==
  \A i \in DOMAIN rx :
    LET e == rx[i]
    IN  /\ e.type = "Piece" /\ Block(e) \in Blocks =>
             /\ ~Outside(Place(e), Len(e.data)) => IsCutAtFiles(Place(e), Len(e.data))
             /\ IsCutAtFiles(PieceOffset(e.piece), PieceSize(e.piece))
        /\ e.type = "RequireData" /\ e.piece \in Pieces /\ ~Outside(ReadOffset(e), e.len) =>
             IsCutAtFiles(ReadOffset(e), e.len)

(* The files of length 0 that verify_file visits: those before the end of   *)
(* the torrent which the search does not skip where a piece begins.         *)
EmptyFilesAreVisited ==
  \A f \in Files : Offset(f) = Offset(f + 1) =>
    /\ Offset(f) < TotalLength
    /\ Offset(f) % PieceLength = 0 => SearchIndex(Offset(f)) <= f

(* "verify files. rename it if finished." (store): when the last piece is   *)
(* complete and announced, every file has its final name.                   *)
EveryFileFinishes ==
  WasSent(DownloadCompleted) => finished = Files

(* Once complete, a piece stays complete, and its bytes are not written      *)
(* again, however late or often its blocks arrive: only data that is longer *)
(* than the block it is for, which must be one of another piece that is     *)
(* still incomplete, can reach them.                                        *)
CompletedIsFrozen ==
  [][\A p \in pieceDone :
       /\ p \in pieceDone'
       /\ \A x \in PiecePositions(p) :
            \/ x \in good <=> x \in good'
            \/ \E e \in StoreEvents :
                 Receives(e) /\ e.piece \notin pieceDone /\ x \in Spill(e, Len(e.data))]_vars

(* Seen through its announcements and replies, the task is a store of       *)
(* pieces that become complete and are announced at once, and that answers  *)
(* or cancels every request: no repeated, late or invalid block and no      *)
(* failing file operation shows in any other way.                           *)
Promise == INSTANCE PieceStore WITH
  running <- alive,
  complete <- pieceDone,
  announced <- {p \in Pieces : WasSent(PieceCompleted(p))},
  allAnnounced <- WasSent(DownloadCompleted)

ImplementsPieceStore == Promise!FairSpec
=============================================================================
