--------------------------- MODULE DownloadProofs ---------------------------
(***************************************************************************)
(* What Download guarantees for every layout, every set of faults and any   *)
(* number of peers.                                                         *)
(***************************************************************************)
EXTENDS Download, FileLayoutProofs

-----------------------------------------------------------------------------
(* Types.                                                                  *)
LEMMA InitType == Init => TypeOK
  BY DownloadAssumption DEF Init, TypeOK

LEMMA ReceivesType ==
  ASSUME TypeOK, NEW e, Receives(e)
  PROVE  e \in Events /\ Tail(rx) \in Seq(Events)
  BY DEF TypeOK, Receives

LEMMA EndLoopType ==
  ASSUME TypeOK, EndLoop
  PROVE  /\ alive' \in BOOLEAN
         /\ rx' \in Seq(Events)
         /\ reply' \in [Peers -> {"none", "waiting", "answered", "cancelled"}]
<1>1. <<>> \in Seq(Events)
  OBVIOUS
<1>2. reply' \in [Peers -> {"none", "waiting", "answered", "cancelled"}]
  BY DEF TypeOK, EndLoop
<1> QED  BY <1>1, <1>2 DEF EndLoop

LEMMA AnnouncementsType ==
  ASSUME NEW b \in Blocks
  PROVE  Announcements(b) \in Seq(Broadcasts)
<1>1. BlockCompleted(b) \in Broadcasts /\ PieceCompleted(b[1]) \in Broadcasts
  BY BlockOfPiece DEF Broadcasts
<1>2. DownloadCompleted \in Broadcasts
  BY DEF Broadcasts
<1>3. <<BlockCompleted(b), PieceCompleted(b[1])>> \in Seq(Broadcasts)
  BY <1>1
<1>4. <<DownloadCompleted>> \in Seq(Broadcasts) /\ <<>> \in Seq(Broadcasts)
  BY <1>2
<1> QED  BY <1>3, <1>4 DEF Announcements

(* What arrives names a piece and an offset, of which it takes the block.   *)
LEMMA EventFields ==
  ASSUME NEW e \in StoreEvents
  PROVE  /\ e.piece \in Nat /\ e.offset \in Nat /\ e.data \in Seq(BOOLEAN)
         /\ Len(e.data) \in Nat /\ Block(e)[1] = e.piece
         /\ Block(e) \in Blocks => e.piece \in Pieces /\ Block(e) \in BlocksOf(e.piece)
<1>1. PICK a \in Arrivals : e = [type |-> "Piece", piece |-> a.piece, offset |-> a.offset,
                                  data |-> a.data]
  BY DEF StoreEvents
<1>2. a.piece \in Nat /\ a.offset \in Nat /\ a.data \in Seq(BOOLEAN)
  BY DownloadAssumption
<1>3. Block(e)[1] = e.piece
  BY DEF Block
<1> QED  BY <1>1, <1>2, <1>3, BlockOfPiece

LEMMA RequestFields ==
  ASSUME NEW e \in DataRequests
  PROVE  e.piece \in Nat /\ e.offset \in Nat /\ e.len \in Nat /\ e.from \in Peers
<1>1. PICK r \in Ranges, q \in Peers :
        e = [type |-> "RequireData", piece |-> r.piece, offset |-> r.offset, len |-> r.len,
             from |-> q]
  BY DEF DataRequests
<1>2. r.piece \in Nat /\ r.offset \in Nat /\ r.len \in Nat
  BY DownloadAssumption
<1> QED  BY <1>1, <1>2

(* A store writes inside of the torrent, and to a complete piece only what   *)
(* lies beyond the block that it is for.                                    *)
LEMMA StoreBlockEffect ==
  ASSUME TypeOK, NEW e \in StoreEvents, Stores(e), NEW k \in 0..Len(e.data), StoreBlock(e, k)
  PROVE  /\ good' \subseteq Positions /\ spilled' \subseteq Positions
         /\ spilled \subseteq spilled' /\ e.piece \notin pieceDone
         /\ \A p \in pieceDone : \A x \in PiecePositions(p) :
              \/ x \in good <=> x \in good'
              \/ x \in spilled' /\ x \in Spill(e, Len(e.data))
<1>1. Block(e) \in Blocks /\ Block(e)[1] = e.piece /\ e.piece \in Pieces
  BY EventFields DEF Stores
<1>2. /\ Place(e) \in Nat /\ BlockLength(Block(e)) \in Nat
      /\ PieceOffset(e.piece) \in Nat /\ PieceSize(e.piece) \in Nat
      /\ PieceOffset(e.piece) <= Place(e)
      /\ Place(e) + BlockLength(Block(e)) <= PieceOffset(e.piece) + PieceSize(e.piece)
  BY <1>1, BlockFits, PieceFits, OffsetsType DEF Place
<1>3. k \in Nat /\ Len(e.data) \in Nat /\ k <= Len(e.data)
  BY EventFields
<1>4. Place(e) + Len(e.data) <= TotalLength /\ TotalLength \in Nat
  <2>1. ~(Place(e) + Len(e.data) > TotalLength)
    BY DEF Stores, Outside
  <2> QED  BY <1>2, <1>3, <2>1, OffsetsType
<1>5. e.piece \notin pieceDone
  BY <1>1 DEF Stores, Known
<1>6. WrittenPositions(e, k) \subseteq Positions
        /\ WrittenPositions(e, k) \subseteq WrittenPositions(e, Len(e.data))
  <2>1. PICK start \in Nat, n \in Nat : start = Place(e) /\ n = Len(e.data)
    BY <1>2, <1>3
  <2>2. \A x \in start..(start + k - 1) :
          x \in 0..(TotalLength - 1) /\ x \in start..(start + n - 1)
    BY <1>3, <1>4, <2>1
  <2> QED  BY <2>1, <2>2 DEF WrittenPositions, Positions
<1>7. Spill(e, k) \subseteq Positions /\ Spill(e, k) \subseteq Spill(e, Len(e.data))
  BY <1>6 DEF Spill
<1>8. ASSUME NEW p \in pieceDone, NEW x \in PiecePositions(p), x \in WrittenPositions(e, k)
      PROVE  x \in Spill(e, k)
  <2>1. p \in Pieces /\ p # e.piece
    BY <1>5, <1>8 DEF TypeOK
  <2>2. x \in Positions /\ x \div PieceLength = p
    BY <1>8, <2>1, PieceOfPosition
  <2>3. x \in Nat /\ Place(e) <= x
    BY <1>2, <1>3, <1>8 DEF WrittenPositions
  <2>4. x \notin PiecePositions(e.piece)
    BY <1>1, <2>1, <2>2, PieceOfPosition
  <2>5. x >= Place(e) + BlockLength(Block(e))
    BY <1>2, <2>3, <2>4 DEF PiecePositions
  <2> QED  BY <1>8, <2>2, <2>5 DEF Spill
<1>9. ASSUME NEW x \in Positions, x \notin WrittenPositions(e, k)
      PROVE  x \in good <=> x \in good'
  BY <1>9 DEF StoreBlock, Written
<1>10. ASSUME NEW p \in pieceDone, NEW x \in PiecePositions(p) PROVE x \in Positions
  BY <1>10, PieceOfPosition DEF TypeOK
<1>11. good' \subseteq Positions /\ spilled' \subseteq Positions /\ spilled \subseteq spilled'
         /\ Spill(e, k) \subseteq spilled'
  BY <1>7 DEF StoreBlock, Written, TypeOK
<1> QED  BY <1>5, <1>7, <1>8, <1>9, <1>10, <1>11

LEMMA MarksFields ==
  ASSUME NEW e \in StoreEvents, MarksComplete(e)
  PROVE  /\ alive /\ rx # <<>> /\ Head(rx) = e /\ e.piece \notin pieceDone
         /\ Block(e) \in Blocks /\ e.piece \in Pieces
         /\ Block(e)[1] = e.piece /\ Block(e) \in BlocksOf(e.piece)
         /\ pieceDone' = pieceDone \cup {e.piece} /\ blockDone' = blockDone \cup {Block(e)}
<1>1. Block(e)[1] = e.piece
  BY EventFields
<1> QED  BY <1>1, EventFields DEF MarksComplete, Stores, Receives, Known

LEMMA WholeDataIsPrefix ==
  ASSUME NEW e \in StoreEvents
  PROVE  Len(e.data) \in 0..Len(e.data)
  BY EventFields

LEMMA StoreType ==
  ASSUME TypeOK, NEW e \in StoreEvents, Store(e)
  PROVE  TypeOK'
<1>1. ASSUME Stores(e) PROVE Block(e) \in Blocks /\ e.piece \in Pieces
  BY <1>1, EventFields DEF Stores
<1>2. ASSUME NEW k \in 0..Len(e.data), Stores(e), StoreBlock(e, k)
      PROVE  good' \subseteq Positions /\ spilled' \subseteq Positions
  BY <1>2, StoreBlockEffect
<1>3. ASSUME Receives(e), Continue PROVE alive' \in BOOLEAN /\ rx' \in Seq(Events)
  BY <1>3, ReceivesType DEF Continue, TypeOK
<1>4. CASE StoreIgnored(e)
  BY <1>3, <1>4 DEF StoreIgnored, TypeOK, Events, Broadcasts
<1>5. CASE StorePanics(e)
  BY <1>5, EndLoopType DEF StorePanics, TypeOK
<1>6. CASE StoreWriteFails(e)
  BY <1>2, <1>6, EndLoopType DEF StoreWriteFails, TypeOK
<1>7. CASE StoreReadFails(e)
  <2>1. good' \subseteq Positions /\ spilled' \subseteq Positions
    BY <1>2, <1>7, WholeDataIsPrefix DEF StoreReadFails
  <2> QED  BY <1>1, <1>7, <2>1, EndLoopType DEF StoreReadFails, TypeOK
<1>8. CASE StoreInvalid(e)
  <2>1. good' \subseteq Positions /\ spilled' \subseteq Positions
    BY <1>2, <1>8, WholeDataIsPrefix DEF StoreInvalid
  <2>2. Receives(e)
    BY <1>8 DEF StoreInvalid, Stores
  <2> QED  BY <1>3, <1>8, <2>1, <2>2 DEF StoreInvalid, ResetBlocks, TypeOK
<1>9. ASSUME MarksComplete(e)
      PROVE  /\ blockDone' \subseteq Blocks /\ pieceDone' \subseteq Pieces
             /\ good' \subseteq Positions /\ spilled' \subseteq Positions
             /\ Receives(e)
  <2>1. good' \subseteq Positions /\ spilled' \subseteq Positions
    BY <1>2, <1>9, WholeDataIsPrefix DEF MarksComplete
  <2> QED  BY <1>1, <1>9, <2>1 DEF MarksComplete, Stores, TypeOK
<1>10. CASE StoreCompletes(e)
  <2>1. sent' \in Seq(Broadcasts)
    <3>1. Block(e) \in Blocks
      BY <1>1, <1>10 DEF StoreCompletes, MarksComplete
    <3> QED  BY <1>10, <3>1, AnnouncementsType DEF StoreCompletes, TypeOK
  <2>2. finished' \subseteq Files
    BY <1>10 DEF StoreCompletes, TypeOK, NewlyFinished, TouchedFiles
  <2>3. MarksComplete(e)
    BY <1>10 DEF StoreCompletes
  <2> QED  BY <1>3, <1>9, <1>10, <2>1, <2>2, <2>3 DEF StoreCompletes, TypeOK
<1>11. ASSUME NEW f \in Files, StoreVerifyFileFails(e, f) PROVE TypeOK'
  <2>1. finished' \subseteq Files
    BY <1>11 DEF StoreVerifyFileFails, TypeOK, NewlyFinished, TouchedFiles
  <2>2. MarksComplete(e)
    BY <1>11 DEF StoreVerifyFileFails
  <2> QED  BY <1>9, <1>11, <2>1, <2>2, EndLoopType DEF StoreVerifyFileFails, TypeOK
<1> QED  BY <1>4, <1>5, <1>6, <1>7, <1>8, <1>10, <1>11 DEF Store

(* A range that is served lies inside of the torrent.                       *)
LEMMA ServedPositions ==
  ASSUME TypeOK, NEW e \in DataRequests, MayServe(e), ~Outside(ReadOffset(e), e.len)
  PROVE  {<<e.piece, x>> : x \in (ReadOffset(e)..(ReadOffset(e) + e.len - 1)) \ good}
           \subseteq Pieces \X Positions
<1>1. e.piece \in Pieces
  BY DEF MayServe, TypeOK
<1>2. ReadOffset(e) \in Nat /\ e.len \in Nat /\ TotalLength \in Nat
  BY <1>1, PieceFits, RequestFields, OffsetsType DEF ReadOffset
<1>3. ReadOffset(e) + e.len <= TotalLength
  BY <1>2 DEF Outside
<1>4. (ReadOffset(e)..(ReadOffset(e) + e.len - 1)) \subseteq Positions
  BY <1>2, <1>3 DEF Positions
<1> QED  BY <1>1, <1>4

LEMMA TypeStep == TypeOK /\ [Next]_vars => TypeOK'
<1> SUFFICES ASSUME TypeOK, [Next]_vars PROVE TypeOK'
  OBVIOUS
<1>1. CASE UNCHANGED vars
  BY <1>1 DEF TypeOK, vars
<1>2. ASSUME NEW e \in DataRequests, RequireData(e) PROVE TypeOK'
  <2>1. Tail(rx) \in Seq(Events)
    BY <1>2, ReceivesType DEF RequireData
  <2>2. unverified' \subseteq Pieces \X Positions
    BY <1>2, ServedPositions DEF RequireData, TypeOK
  <2>3. e.from \in Peers
    BY RequestFields
  <2> QED  BY <1>2, <2>1, <2>2, <2>3 DEF RequireData, Answer, Continue, TypeOK
<1>3. ASSUME NEW e \in DataRequests, RequireDataFails(e) PROVE TypeOK'
  BY <1>3, EndLoopType DEF RequireDataFails, TypeOK
<1>4. ASSUME NEW e \in BlockRequests \cup HaveRequests, AnswerFromFlags(e) PROVE TypeOK'
  <2>1. e.from \in Peers
    BY DEF BlockRequests, HaveRequests
  <2>2. Tail(rx) \in Seq(Events)
    BY <1>4, ReceivesType DEF AnswerFromFlags
  <2> QED  BY <1>4, <2>1, <2>2 DEF AnswerFromFlags, Answer, Continue, TypeOK
<1>5. ASSUME NEW e \in StoreEvents, SendBlock(e) PROVE TypeOK'
  BY <1>5 DEF SendBlock, TypeOK, Events
<1>6. ASSUME NEW e \in Requests, SendRequest(e) PROVE TypeOK'
  <2>1. e.from \in Peers /\ e \in Events
    BY RequestFields DEF Requests, BlockRequests, HaveRequests, Events
  <2>2. rx' \in Seq(Events)
    BY <1>6, <2>1 DEF SendRequest, TypeOK
  <2> QED  BY <1>6, <2>1, <2>2 DEF SendRequest, TypeOK
<1>7. ASSUME NEW q \in Peers, TakeReply(q) PROVE TypeOK'
  BY <1>7 DEF TakeReply, TypeOK
<1> QED  BY <1>1, <1>2, <1>3, <1>4, <1>5, <1>6, <1>7, StoreType
         DEF Next, DownloadLoop, Environment

(* The flags, files, replies and announcements stay within their types.     *)
THEOREM TypeCorrect == Spec => []TypeOK
  BY InitType, TypeStep, PTL DEF Spec

-----------------------------------------------------------------------------
(* What one store does to the pieces: it adds at most the piece of its      *)
(* block, by MarksComplete, and changes the bytes of complete pieces only   *)
(* beyond that block.                                                       *)
OnlySpills(e) ==
  /\ spilled \subseteq spilled'
  /\ \A p \in pieceDone : \A x \in PiecePositions(p) :
       \/ x \in good <=> x \in good'
       \/ /\ Receives(e) /\ e.piece \notin pieceDone
          /\ x \in Spill(e, Len(e.data)) /\ x \in spilled'

LEMMA StoreEffect ==
  ASSUME TypeOK, NEW e \in StoreEvents, Store(e)
  PROVE  /\ pieceDone \subseteq pieceDone'
         /\ OnlySpills(e)
         /\ pieceDone' # pieceDone =>
              MarksComplete(e) /\ pieceDone' = pieceDone \cup {e.piece}
         /\ unverified' = unverified
<1>1. ASSUME NEW k \in 0..Len(e.data), Stores(e), StoreBlock(e, k) PROVE OnlySpills(e)
  <2>1. Receives(e)
    BY <1>1 DEF Stores
  <2> QED  BY <1>1, <2>1, StoreBlockEffect DEF OnlySpills
<1>2. ASSUME good' = good, spilled' = spilled PROVE OnlySpills(e)
  BY <1>2 DEF OnlySpills
<1>3. CASE StoreIgnored(e)
  BY <1>2, <1>3 DEF StoreIgnored
<1>4. CASE StorePanics(e)
  BY <1>2, <1>4 DEF StorePanics
<1>5. CASE StoreWriteFails(e)
  BY <1>1, <1>5 DEF StoreWriteFails
<1>6. CASE StoreReadFails(e)
  BY <1>1, <1>6, WholeDataIsPrefix DEF StoreReadFails
<1>7. CASE StoreInvalid(e)
  BY <1>1, <1>7, WholeDataIsPrefix DEF StoreInvalid
<1>8. ASSUME MarksComplete(e), unverified' = unverified
      PROVE  /\ pieceDone \subseteq pieceDone'
             /\ OnlySpills(e)
             /\ pieceDone' # pieceDone =>
                  MarksComplete(e) /\ pieceDone' = pieceDone \cup {e.piece}
             /\ unverified' = unverified
  BY <1>1, <1>8, WholeDataIsPrefix DEF MarksComplete
<1>9. CASE StoreCompletes(e)
  BY <1>8, <1>9 DEF StoreCompletes
<1>10. ASSUME NEW f \in Files, StoreVerifyFileFails(e, f)
       PROVE  MarksComplete(e) /\ unverified' = unverified
  BY <1>10 DEF StoreVerifyFileFails
<1> QED  BY <1>3, <1>4, <1>5, <1>6, <1>7, <1>8, <1>9, <1>10 DEF Store

(* Every step that is not a store leaves the flags and the files alone.     *)
LEMMA OtherEffect ==
  ASSUME TypeOK, [Next]_vars, \A e \in StoreEvents : ~Store(e)
  PROVE  UNCHANGED <<pieceDone, blockDone, good, spilled, finished, sent>>
  BY DEF Next, DownloadLoop, Environment, RequireData, RequireDataFails, AnswerFromFlags,
         SendBlock, SendRequest, TakeReply, vars

(* Only an answer to RequireData hands out bytes, and then of a complete    *)
(* piece.                                                                   *)
LEMMA ServingEffect ==
  ASSUME TypeOK, [Next]_vars
  PROVE  \/ unverified' = unverified
         \/ \E e \in DataRequests :
              /\ e.piece \in pieceDone
              /\ unverified' = unverified
                   \cup {<<e.piece, x>> : x \in (ReadOffset(e)..(ReadOffset(e) + e.len - 1)) \ good}
<1>1. ASSUME NEW e \in StoreEvents, Store(e) PROVE unverified' = unverified
  BY <1>1, StoreEffect
<1> QED  BY <1>1 DEF Next, DownloadLoop, Environment, RequireData, MayServe, RequireDataFails,
            AnswerFromFlags, SendBlock, SendRequest, TakeReply, vars

-----------------------------------------------------------------------------
(* A complete piece stays complete, and its bytes are not written again     *)
(* (the first guard of store), whatever arrives and whatever fails, but by  *)
(* data that is longer than the block of another piece it is for.           *)
THEOREM CompletePiecesAreFrozen == Spec => CompletedIsFrozen
<1> DEFINE Frozen ==
             \A p \in pieceDone :
               /\ p \in pieceDone'
               /\ \A x \in PiecePositions(p) :
                    \/ x \in good <=> x \in good'
                    \/ \E e \in StoreEvents :
                         Receives(e) /\ e.piece \notin pieceDone /\ x \in Spill(e, Len(e.data))
<1>1. ASSUME TypeOK, [Next]_vars PROVE Frozen
  <2>1. CASE \E e \in StoreEvents : Store(e)
    <3>1. PICK e \in StoreEvents : Store(e)
      BY <2>1
    <3>2. pieceDone \subseteq pieceDone' /\ OnlySpills(e)
      BY <1>1, <3>1, StoreEffect
    <3> QED  BY <3>2 DEF OnlySpills
  <2>2. CASE \A e \in StoreEvents : ~Store(e)
    BY <1>1, <2>2, OtherEffect
  <2> QED  BY <2>1, <2>2
<1>2. TypeOK /\ [Next]_vars => [Frozen]_vars
  BY <1>1
<1> QED  BY <1>2, TypeCorrect, PTL DEF Spec, CompletedIsFrozen

(* The hash is looked at before a one-block piece is marked complete.       *)
LEMMA SingleBlockStep ==
  ASSUME TypeOK, SingleBlockIsVerified, [Next]_vars
  PROVE  SingleBlockIsVerified'
<1>1. CASE \E e \in StoreEvents : Store(e)
  <2>1. PICK e \in StoreEvents : Store(e)
    BY <1>1
  <2>2. /\ OnlySpills(e)
        /\ pieceDone' # pieceDone => MarksComplete(e) /\ pieceDone' = pieceDone \cup {e.piece}
    BY <2>1, StoreEffect
  <2> SUFFICES ASSUME NEW p \in pieceDone', NumBlocks(p) = 1
               PROVE  PiecePositions(p) \subseteq good' \cup spilled'
    BY DEF SingleBlockIsVerified
  <2>3. CASE p \in pieceDone
    <3>1. PiecePositions(p) \subseteq good \cup spilled
      BY <2>3 DEF SingleBlockIsVerified
    <3> QED  BY <2>2, <2>3, <3>1 DEF OnlySpills
  <2>4. CASE p \notin pieceDone
    <3>1. MarksComplete(e) /\ p = e.piece
      BY <2>2, <2>4
    <3>2. Block(e) \in Blocks /\ Block(e)[1] = p
      BY <3>1, EventFields DEF MarksComplete, Stores
    <3>3. BlocksOf(p) = {Block(e)}
      BY <3>2, SingleBlock
    <3>4. HasAllBlocks(Block(e))
      BY <3>2, <3>3 DEF HasAllBlocks
    <3> QED  BY <3>1, <3>4 DEF MarksComplete, MayBeValid, StoreBlock
  <2> QED  BY <2>3, <2>4
<1>2. CASE \A e \in StoreEvents : ~Store(e)
  BY <1>2, OtherEffect DEF SingleBlockIsVerified
<1> QED  BY <1>1, <1>2

(* A complete piece of one block holds the torrent's bytes, whatever is      *)
(* delivered for it and also when reads are short and writes fail, but for  *)
(* bytes that data longer than another piece's block has overrun.           *)
THEOREM SingleBlockPiecesAreVerified == Spec => []SingleBlockIsVerified
<1>1. Init => SingleBlockIsVerified
  BY DEF Init, SingleBlockIsVerified
<1>2. TypeOK /\ SingleBlockIsVerified /\ [Next]_vars => SingleBlockIsVerified'
  BY SingleBlockStep
<1> QED  BY <1>1, <1>2, TypeCorrect, PTL DEF Spec

LEMMA SpilledGrows ==
  ASSUME TypeOK, [Next]_vars
  PROVE  spilled \subseteq spilled'
  BY StoreEffect, OtherEffect DEF OnlySpills

(* What a request for such a piece, of whatever range, reads inside of it   *)
(* are the torrent's bytes, with the same exception, although writes, reads *)
(* and renames may fail.                                                    *)
THEOREM ServedPiecesAreVerified == Spec => []ServedIsVerified
<1>1. Init => ServedIsVerified
  BY DEF Init, ServedIsVerified
<1>2. ASSUME TypeOK, SingleBlockIsVerified, ServedIsVerified, [Next]_vars
      PROVE  ServedIsVerified'
  <2> SUFFICES ASSUME NEW u \in unverified', NumBlocks(u[1]) = 1, u[2] \in PiecePositions(u[1])
               PROVE  u[2] \in spilled'
    BY DEF ServedIsVerified
  <2>1. CASE u \in unverified
    BY <1>2, <2>1, SpilledGrows DEF ServedIsVerified
  <2>2. CASE u \notin unverified
    <3>1. PICK e \in DataRequests :
            /\ e.piece \in pieceDone
            /\ unverified' = unverified
                 \cup {<<e.piece, x>> : x \in (ReadOffset(e)..(ReadOffset(e) + e.len - 1)) \ good}
      BY <1>2, <2>2, ServingEffect
    <3>2. PICK x : u = <<e.piece, x>> /\ x \notin good
      BY <2>2, <3>1
    <3>3. PiecePositions(u[1]) \subseteq good \cup spilled
      BY <1>2, <3>1, <3>2 DEF SingleBlockIsVerified
    <3> QED  BY <1>2, <3>2, <3>3, SpilledGrows
  <2> QED  BY <2>1, <2>2
<1> QED  BY <1>1, <1>2, TypeCorrect, SingleBlockPiecesAreVerified, PTL DEF Spec
-----------------------------------------------------------------------------
(* The announcements.                                                       *)
Lists(s, x) == \E i \in DOMAIN s : s[i] = x

LEMMA InConcat ==
  ASSUME NEW s \in Seq(Broadcasts), NEW t \in Seq(Broadcasts), NEW x
  PROVE  Lists(s \o t, x) <=> Lists(s, x) \/ Lists(t, x)
<1>1. ASSUME NEW i \in DOMAIN (s \o t), (s \o t)[i] = x
      PROVE  (\E j \in DOMAIN s : s[j] = x) \/ (\E j \in DOMAIN t : t[j] = x)
  <2>1. CASE i <= Len(s)
    BY <1>1, <2>1
  <2>2. CASE i > Len(s)
    <3>1. i - Len(s) \in DOMAIN t /\ t[i - Len(s)] = x
      BY <1>1, <2>2
    <3> QED  BY <3>1
  <2> QED  BY <2>1, <2>2
<1>2. ASSUME NEW i \in DOMAIN s, s[i] = x
      PROVE  \E j \in DOMAIN (s \o t) : (s \o t)[j] = x
  <2>1. i \in DOMAIN (s \o t) /\ (s \o t)[i] = x
    BY <1>2
  <2> QED  BY <2>1
<1>3. ASSUME NEW i \in DOMAIN t, t[i] = x
      PROVE  \E j \in DOMAIN (s \o t) : (s \o t)[j] = x
  <2>1. (Len(s) + i) \in DOMAIN (s \o t) /\ (s \o t)[Len(s) + i] = x
    BY <1>3
  <2> QED  BY <2>1
<1> QED  BY <1>1, <1>2, <1>3 DEF Lists

LEMMA AnnouncedBy ==
  ASSUME NEW b \in Blocks, NEW x
  PROVE  Lists(Announcements(b), x)
           <=> \/ x = BlockCompleted(b)
               \/ x = PieceCompleted(b[1])
               \/ IsComplete(b[1]) /\ x = DownloadCompleted
<1> DEFINE two == <<BlockCompleted(b), PieceCompleted(b[1])>>
           rest == IF IsComplete(b[1]) THEN <<DownloadCompleted>> ELSE <<>>
<1>1. two \in Seq(Broadcasts) /\ rest \in Seq(Broadcasts)
  <2>1. BlockCompleted(b) \in Broadcasts /\ PieceCompleted(b[1]) \in Broadcasts
    BY BlockOfPiece DEF Broadcasts
  <2>2. DownloadCompleted \in Broadcasts
    BY DEF Broadcasts
  <2>3. two \in Seq(Broadcasts)
    BY <2>1
  <2>4. <<DownloadCompleted>> \in Seq(Broadcasts) /\ <<>> \in Seq(Broadcasts)
    BY <2>2
  <2> QED  BY <2>3, <2>4
<1>2. Lists(two, x) <=> x = BlockCompleted(b) \/ x = PieceCompleted(b[1])
  <2>1. DOMAIN two = {1, 2} /\ two[1] = BlockCompleted(b) /\ two[2] = PieceCompleted(b[1])
    OBVIOUS
  <2> QED  BY <2>1 DEF Lists
<1>3. Lists(rest, x) <=> IsComplete(b[1]) /\ x = DownloadCompleted
  BY DEF Lists
<1>4. Announcements(b) = two \o rest
  BY DEF Announcements
<1> HIDE DEF two, rest
<1>5. Lists(two \o rest, x) <=> Lists(two, x) \/ Lists(rest, x)
  BY <1>1, InConcat
<1> QED  BY <1>2, <1>3, <1>4, <1>5

(* What has been announced after a store that completes a piece.            *)
LEMMA SentByStore ==
  ASSUME TypeOK, NEW e \in StoreEvents, StoreCompletes(e), NEW x
  PROVE  WasSent(x)' <=>
           \/ WasSent(x)
           \/ x = BlockCompleted(Block(e))
           \/ x = PieceCompleted(e.piece)
           \/ IsComplete(e.piece) /\ x = DownloadCompleted
<1>1. Block(e) \in Blocks /\ Block(e)[1] = e.piece
  BY MarksFields DEF StoreCompletes
<1>2. Announcements(Block(e)) \in Seq(Broadcasts) /\ sent \in Seq(Broadcasts)
  BY <1>1, AnnouncementsType DEF TypeOK
<1>3. sent' = sent \o Announcements(Block(e))
  BY DEF StoreCompletes
<1> DEFINE new == Announcements(Block(e))
<1> HIDE DEF new
<1>4. Lists(sent \o new, x) <=> Lists(sent, x) \/ Lists(new, x)
  BY <1>2, InConcat DEF new
<1>5. Lists(new, x)
        <=> \/ x = BlockCompleted(Block(e))
            \/ x = PieceCompleted(e.piece)
            \/ IsComplete(e.piece) /\ x = DownloadCompleted
  BY <1>1, AnnouncedBy DEF new
<1>6. WasSent(x) = Lists(sent, x) /\ WasSent(x)' = Lists(sent', x)
  BY DEF WasSent, Lists
<1> QED  BY <1>3, <1>4, <1>5, <1>6 DEF new

LEMMA DistinctAnnouncements ==
  /\ \A p, q : PieceCompleted(p) = PieceCompleted(q) => p = q
  /\ \A p, b : PieceCompleted(p) # BlockCompleted(b)
  /\ \A p : PieceCompleted(p) # DownloadCompleted
  /\ \A b : BlockCompleted(b) # DownloadCompleted
  /\ \A b, c : BlockCompleted(b) = BlockCompleted(c) => b = c
  BY DEF PieceCompleted, BlockCompleted, DownloadCompleted
(* A store either completes and announces its piece, or announces nothing   *)
(* and completes one only at the end of the loop.                           *)
LEMMA StoreAnnounces ==
  ASSUME TypeOK, NEW e \in StoreEvents, Store(e)
  PROVE  \/ StoreCompletes(e)
         \/ sent' = sent /\ alive' = alive /\ pieceDone' = pieceDone
         \/ sent' = sent /\ ~alive'
<1>1. CASE StoreIgnored(e)
  BY <1>1 DEF StoreIgnored, Continue
<1>6. CASE StorePanics(e)
  BY <1>6 DEF StorePanics, EndLoop
<1>2. CASE StoreWriteFails(e)
  BY <1>2 DEF StoreWriteFails, EndLoop
<1>3. CASE StoreReadFails(e)
  BY <1>3 DEF StoreReadFails, EndLoop
<1>4. CASE StoreInvalid(e)
  BY <1>4 DEF StoreInvalid, Continue
<1>5. ASSUME NEW f \in Files, StoreVerifyFileFails(e, f) PROVE sent' = sent /\ ~alive'
  BY <1>5 DEF StoreVerifyFileFails, EndLoop
<1> QED  BY <1>1, <1>2, <1>3, <1>4, <1>5, <1>6 DEF Store

LEMMA NoRevival ==
  ASSUME TypeOK, [Next]_vars, alive'
  PROVE  alive
<1>1. ASSUME NEW e \in StoreEvents, Store(e) PROVE alive
  BY <1>1 DEF Store, StoreIgnored, StorePanics, StoreWriteFails, StoreReadFails, StoreInvalid,
              StoreCompletes, StoreVerifyFileFails, MarksComplete, Stores, Receives
<1> QED  BY <1>1 DEF Next, DownloadLoop, Environment, RequireData, RequireDataFails,
            AnswerFromFlags, SendBlock, SendRequest, TakeReply, Receives, vars

LEMMA SnapshotStep ==
  ASSUME TypeOK, SnapshotMatchesAnnouncements, [Next]_vars
  PROVE  SnapshotMatchesAnnouncements'
<1> SUFFICES ASSUME alive'
             PROVE  \A p \in Pieces : p \in pieceDone' <=> WasSent(PieceCompleted(p))'
  BY TypeStep DEF SnapshotMatchesAnnouncements, TypeOK
<1>1. \A p \in Pieces : p \in pieceDone <=> WasSent(PieceCompleted(p))
  BY NoRevival DEF SnapshotMatchesAnnouncements
<1>2. ASSUME UNCHANGED <<pieceDone, sent>>
      PROVE  \A p \in Pieces : p \in pieceDone' <=> WasSent(PieceCompleted(p))'
  BY <1>1, <1>2 DEF WasSent
<1>3. CASE \E e \in StoreEvents : Store(e)
  <2>1. PICK e \in StoreEvents : Store(e)
    BY <1>3
  <2>2. CASE StoreCompletes(e)
    <3>1. pieceDone' = pieceDone \cup {e.piece}
      BY <2>2 DEF StoreCompletes, MarksComplete
    <3> QED  BY <1>1, <2>2, <3>1, SentByStore, DistinctAnnouncements
  <2> QED  BY <1>2, <2>1, <2>2, StoreAnnounces
<1>4. CASE \A e \in StoreEvents : ~Store(e)
  BY <1>2, <1>4, OtherEffect
<1> QED  BY <1>3, <1>4

(* While the loop runs, the complete pieces are those announced, so that a   *)
(* snapshot and the announcements after it leave no piece out.              *)
THEOREM SnapshotsAreAnnounced == Spec => []SnapshotMatchesAnnouncements
<1>1. Init => SnapshotMatchesAnnouncements
  BY DEF Init, SnapshotMatchesAnnouncements, WasSent
<1> QED  BY <1>1, SnapshotStep, TypeCorrect, PTL DEF Spec
-----------------------------------------------------------------------------
(* Flags are only added together with the end of the loop or with their     *)
(* piece, and a failed verification takes all of a piece's away.            *)
LEMMA RetriableStep ==
  ASSUME TypeOK, IncompletePieceIsRetriable, [Next]_vars
  PROVE  IncompletePieceIsRetriable'
<1> SUFFICES ASSUME alive', NEW p \in Pieces \ pieceDone'
             PROVE  BlocksOf(p) \ blockDone' # {}
  BY DEF IncompletePieceIsRetriable, IncompleteBlocksForPiece
<1>1. p \notin pieceDone => BlocksOf(p) \ blockDone # {}
  BY NoRevival DEF IncompletePieceIsRetriable, IncompleteBlocksForPiece
<1>2. CASE UNCHANGED <<pieceDone, blockDone>>
  BY <1>1, <1>2
<1>3. ASSUME NEW e \in StoreEvents, Store(e), ~UNCHANGED <<pieceDone, blockDone>>
      PROVE  BlocksOf(p) \ blockDone' # {}
  <2>1. p \notin pieceDone
    BY <1>3, StoreEffect
  <2>2. CASE StoreInvalid(e)
    <3>1. blockDone' = blockDone \ BlocksOf(e.piece)
      BY <2>2 DEF StoreInvalid, ResetBlocks
    <3>2. PICK b \in BlocksOf(p) : b \notin blockDone
      BY <1>1, <2>1
    <3> QED  BY <3>1, <3>2
  <2>3. CASE StoreCompletes(e)
    <3>1. p # e.piece /\ blockDone' = blockDone \cup {Block(e)}
      BY <2>3, MarksFields DEF StoreCompletes
    <3>2. Block(e) \notin BlocksOf(p)
      BY <3>1, EventFields, BlockOfPiece
    <3> QED  BY <1>1, <2>1, <3>1, <3>2
  <2> QED  BY <1>3, <2>2, <2>3 DEF Store, StoreIgnored, StorePanics, StoreWriteFails, StoreReadFails,
              StoreVerifyFileFails, EndLoop
<1>4. CASE \A e \in StoreEvents : ~Store(e)
  BY <1>2, <1>4, OtherEffect
<1> QED  BY <1>2, <1>3, <1>4

(* Until the loop ends, a piece that is not complete has a block that can be *)
(* asked for again.                                                         *)
THEOREM PiecesStayRetriable == Spec => []IncompletePieceIsRetriable
<1>1. Init => IncompletePieceIsRetriable
  BY PieceHasBlock DEF Init, IncompletePieceIsRetriable, IncompleteBlocksForPiece
<1> QED  BY <1>1, RetriableStep, TypeCorrect, PTL DEF Spec

-----------------------------------------------------------------------------
(* The refinement.  A request in the channel is that of a waiting peer, and *)
(* a peer has one: an answer of the loop is an Answer of the store.         *)
RequestsAreAwaited ==
  /\ \A i \in DOMAIN rx : rx[i] \in Requests => reply[rx[i].from] = "waiting"
  /\ \A i, j \in DOMAIN rx :
       rx[i] \in Requests /\ rx[j] \in Requests /\ rx[i].from = rx[j].from => i = j

(* Once the download is announced nothing is left to complete.              *)
DoneMeansAll == alive /\ WasSent(DownloadCompleted) => pieceDone = Pieces
LEMMA RequestKinds ==
  /\ \A e \in StoreEvents : e \notin Requests
  /\ \A e \in Requests : e.from \in Peers
<1>1. \A e \in StoreEvents : e.type = "Piece"
  BY DEF StoreEvents
<1>2. \A e \in DataRequests : e.type = "RequireData" /\ e.from \in Peers
  BY DEF DataRequests
<1>3. \A e \in BlockRequests \cup HaveRequests : e.type # "Piece" /\ e.from \in Peers
  BY DEF BlockRequests, HaveRequests
<1> QED  BY <1>1, <1>2, <1>3 DEF Requests

LEMMA AwaitedTail ==
  ASSUME TypeOK, RequestsAreAwaited, rx # <<>>
  PROVE  \A i \in DOMAIN Tail(rx) :
           /\ Tail(rx)[i] = rx[i + 1] /\ i + 1 \in DOMAIN rx /\ i + 1 # 1
           /\ Tail(rx)[i] \in Requests => reply[Tail(rx)[i].from] = "waiting"
           /\ Head(rx) \in Requests /\ Tail(rx)[i] \in Requests =>
                Tail(rx)[i].from # Head(rx).from
<1>1. rx \in Seq(Events) /\ Len(rx) \in Nat /\ Len(rx) # 0
  BY DEF TypeOK
<1>2. Head(rx) = rx[1] /\ 1 \in DOMAIN rx
  BY <1>1
<1>3. \A i \in DOMAIN Tail(rx) : Tail(rx)[i] = rx[i + 1] /\ i + 1 \in DOMAIN rx /\ i + 1 # 1
  BY <1>1
<1> QED  BY <1>2, <1>3 DEF RequestsAreAwaited

LEMMA AwaitedInit == Init => RequestsAreAwaited /\ DoneMeansAll
  BY DEF Init, RequestsAreAwaited, DoneMeansAll, WasSent

LEMMA AwaitedStep ==
  ASSUME TypeOK, RequestsAreAwaited, [Next]_vars
  PROVE  RequestsAreAwaited'
<1>1. rx \in Seq(Events) /\ reply \in [Peers -> {"none", "waiting", "answered", "cancelled"}]
  BY DEF TypeOK
<1>2. CASE UNCHANGED <<rx, reply>>
  BY <1>2 DEF RequestsAreAwaited
<1>3. CASE EndLoop
  BY <1>3 DEF EndLoop, RequestsAreAwaited
<1>4. ASSUME rx # <<>>, rx' = Tail(rx), reply' = reply PROVE RequestsAreAwaited'
  <2>1. \A i, j \in DOMAIN Tail(rx) : i + 1 = j + 1 => i = j
    BY <1>1, <1>4
  <2> QED  BY <1>4, <2>1, AwaitedTail DEF RequestsAreAwaited
<1>5. ASSUME rx # <<>>, rx' = Tail(rx), Head(rx) \in Requests, Answer(Head(rx).from)
      PROVE  RequestsAreAwaited'
  <2>1. \A i, j \in DOMAIN Tail(rx) : i + 1 = j + 1 => i = j
    BY <1>1, <1>5
  <2>2. \A i \in DOMAIN Tail(rx) : Tail(rx)[i] \in Requests =>
          reply'[Tail(rx)[i].from] = "waiting"
    BY <1>1, <1>5, AwaitedTail, RequestKinds DEF Answer
  <2> QED  BY <1>5, <2>1, <2>2, AwaitedTail DEF RequestsAreAwaited
<1>6. ASSUME NEW e \in StoreEvents, Store(e) PROVE RequestsAreAwaited'
  BY <1>3, <1>4, <1>6 DEF Store, StoreIgnored, StorePanics, StoreWriteFails, StoreReadFails,
       StoreInvalid, StoreCompletes, StoreVerifyFileFails, MarksComplete, Stores, Receives, Continue
<1>7. ASSUME NEW e \in Requests, Receives(e), Continue, Answer(e.from)
      PROVE  RequestsAreAwaited'
  BY <1>5, <1>7 DEF Receives, Continue
<1>8. ASSUME NEW e \in Events, rx' = Append(rx, e), NEW i \in DOMAIN rx'
      PROVE  (i \in DOMAIN rx /\ rx'[i] = rx[i]) \/ (i = Len(rx) + 1 /\ rx'[i] = e)
  BY <1>1, <1>8
<1>9. ASSUME NEW e \in StoreEvents, SendBlock(e) PROVE RequestsAreAwaited'
  <2>1. e \in Events /\ rx' = Append(rx, e) /\ reply' = reply
    BY <1>9 DEF SendBlock, Events
  <2> QED  BY <1>8, <2>1, RequestKinds DEF RequestsAreAwaited
<1>10. ASSUME NEW e \in Requests, SendRequest(e) PROVE RequestsAreAwaited'
  <2>1. e \in Events /\ rx' = Append(rx, e) /\ reply[e.from] = "none"
    BY <1>10 DEF SendRequest, Events
  <2>2. e.from \in Peers /\ reply' = [reply EXCEPT ![e.from] = "waiting"]
    BY <1>10, RequestKinds DEF SendRequest
  <2>3. \A i \in DOMAIN rx : rx[i] \in Requests => rx[i].from # e.from
    BY <2>1 DEF RequestsAreAwaited
  <2>4. \A i \in DOMAIN rx : rx[i] \in Requests => reply'[rx[i].from] = "waiting"
    BY <1>1, <2>2, <2>3, RequestKinds DEF RequestsAreAwaited
  <2>5. reply'[e.from] = "waiting"
    BY <1>1, <2>2
  <2> QED  BY <1>8, <2>1, <2>3, <2>4, <2>5 DEF RequestsAreAwaited
<1>11. ASSUME NEW q \in Peers, TakeReply(q) PROVE RequestsAreAwaited'
  <2>1. \A i \in DOMAIN rx : rx[i] \in Requests => rx[i].from # q
    BY <1>11 DEF TakeReply, RequestsAreAwaited
  <2> QED  BY <1>1, <1>11, <2>1, RequestKinds DEF TakeReply, RequestsAreAwaited
<1> QED  BY <1>2, <1>3, <1>6, <1>7, <1>9, <1>10, <1>11 DEF Next, DownloadLoop, Environment,
            RequireData, RequireDataFails, AnswerFromFlags, Requests, vars

LEMMA DoneStep ==
  ASSUME TypeOK, DoneMeansAll, [Next]_vars
  PROVE  DoneMeansAll'
<1> SUFFICES ASSUME alive', WasSent(DownloadCompleted)' PROVE pieceDone' = Pieces
  BY DEF DoneMeansAll
<1>1. alive
  BY NoRevival
<1>2. CASE UNCHANGED <<pieceDone, sent>>
  BY <1>1, <1>2 DEF DoneMeansAll, WasSent
<1>3. ASSUME NEW e \in StoreEvents, StoreCompletes(e) PROVE pieceDone' = Pieces
  <2>1. pieceDone' = pieceDone \cup {e.piece} /\ e.piece \in Pieces
    BY <1>3, MarksFields DEF StoreCompletes
  <2>2. WasSent(DownloadCompleted) \/ IsComplete(e.piece)
    BY <1>3, SentByStore, DistinctAnnouncements
  <2> QED  BY <1>1, <2>1, <2>2 DEF DoneMeansAll, IsComplete, TypeOK
<1> QED  BY <1>2, <1>3, StoreAnnounces, OtherEffect
LEMMA AbstractInit == Init => Promise!Init
  BY DEF Init, Promise!Init, WasSent

LEMMA CompletesIsComplete ==
  ASSUME TypeOK, SnapshotMatchesAnnouncements, DoneMeansAll, NEW e \in StoreEvents,
         StoreCompletes(e)
  PROVE  Promise!Complete(e.piece)
<1> DEFINE p == e.piece
<1>1. p \in Pieces /\ p \notin pieceDone /\ alive
  BY MarksFields DEF StoreCompletes
<1>2. pieceDone' = pieceDone \cup {p} /\ alive' = alive /\ reply' = reply
  BY DEF StoreCompletes, MarksComplete, Continue
<1>3. \A q \in Pieces : WasSent(PieceCompleted(q))' <=> WasSent(PieceCompleted(q)) \/ q = p
  BY SentByStore, DistinctAnnouncements
<1>4. ~WasSent(DownloadCompleted)
  BY <1>1 DEF DoneMeansAll
<1>5. WasSent(DownloadCompleted)' <=> IsComplete(p)
  BY <1>4, SentByStore, DistinctAnnouncements
<1>6. IsComplete(p) <=> pieceDone' = Pieces
  BY <1>1, <1>2 DEF IsComplete, TypeOK
<1>7. {q \in Pieces : WasSent(PieceCompleted(q))}'
        = {q \in Pieces : WasSent(PieceCompleted(q))} \cup {p}
  BY <1>1, <1>3
<1> QED  BY <1>1, <1>2, <1>5, <1>6, <1>7 DEF Promise!Complete, WasSent

(* Every way out of the loop is a Crash.                                    *)
LEMMA EndIsCrash ==
  ASSUME alive, EndLoop, sent' = sent,
         pieceDone' = pieceDone \/ \E p \in Pieces : pieceDone' = pieceDone \cup {p}
  PROVE  Promise!Crash
  BY DEF Promise!Crash, EndLoop, WasSent

LEMMA StoreRefines ==
  ASSUME TypeOK, SnapshotMatchesAnnouncements, DoneMeansAll, NEW e \in StoreEvents, Store(e)
  PROVE  Promise!Next \/ UNCHANGED Promise!vars
<1>1. ASSUME MarksComplete(e)
      PROVE  alive /\ e.piece \in Pieces /\ pieceDone' = pieceDone \cup {e.piece}
  BY <1>1, MarksFields
<1>2. CASE StoreIgnored(e) \/ StoreInvalid(e)
  BY <1>2 DEF StoreIgnored, StoreInvalid, Continue, Promise!vars, WasSent
<1>3. CASE StorePanics(e) \/ StoreWriteFails(e) \/ StoreReadFails(e)
  BY <1>3, EndIsCrash
     DEF StorePanics, StoreWriteFails, StoreReadFails, Stores, Receives, Promise!Next
<1>4. CASE StoreCompletes(e)
  <2>1. MarksComplete(e)
    BY <1>4 DEF StoreCompletes
  <2> QED  BY <1>1, <1>4, <2>1, CompletesIsComplete DEF Promise!Next
<1>5. ASSUME NEW f \in Files, StoreVerifyFileFails(e, f) PROVE Promise!Next
  <2>1. MarksComplete(e) /\ EndLoop /\ sent' = sent
    BY <1>5 DEF StoreVerifyFileFails
  <2> QED  BY <1>1, <2>1, EndIsCrash DEF Promise!Next
<1> QED  BY <1>2, <1>3, <1>4, <1>5 DEF Store

LEMMA AnswerRefines ==
  ASSUME RequestsAreAwaited, NEW e \in Requests, Receives(e), Continue, Answer(e.from),
         pieceDone' = pieceDone, sent' = sent, rx \in Seq(Events)
  PROVE  Promise!Answer(e.from)
<1>1. 1 \in DOMAIN rx /\ rx[1] = e
  BY DEF Receives
<1>2. reply[e.from] = "waiting"
  BY <1>1 DEF RequestsAreAwaited
<1> QED  BY <1>2 DEF Receives, Continue, Answer, Promise!Answer, Promise!Change, WasSent

LEMMA NextRefines ==
  ASSUME TypeOK, SnapshotMatchesAnnouncements, DoneMeansAll, RequestsAreAwaited, [Next]_vars
  PROVE  [Promise!Next]_(Promise!vars)
<1>1. CASE UNCHANGED vars
  BY <1>1 DEF vars, Promise!vars, WasSent
<1>2. ASSUME NEW e \in DataRequests, RequireData(e) PROVE Promise!Next
  BY <1>2, AnswerRefines, RequestKinds DEF RequireData, Requests, Promise!Next, TypeOK
<1>3. ASSUME NEW e \in DataRequests, RequireDataFails(e) PROVE Promise!Next
  BY <1>3, EndIsCrash DEF RequireDataFails, Receives, Promise!Next
<1>4. ASSUME NEW e \in BlockRequests \cup HaveRequests, AnswerFromFlags(e) PROVE Promise!Next
  BY <1>4, AnswerRefines, RequestKinds DEF AnswerFromFlags, Requests, Promise!Next, TypeOK
<1>5. ASSUME NEW e \in StoreEvents, SendBlock(e) PROVE UNCHANGED Promise!vars
  BY <1>5 DEF SendBlock, Promise!vars, WasSent
<1>6. ASSUME NEW e \in Requests, SendRequest(e) PROVE Promise!Next
  <2>1. Promise!Ask(e.from)
    BY <1>6 DEF SendRequest, Promise!Ask, Promise!Change, WasSent
  <2> QED  BY <2>1, RequestKinds DEF Promise!Next
<1>7. ASSUME NEW q \in Peers, TakeReply(q) PROVE Promise!Next
  <2>1. Promise!Collect(q)
    BY <1>7 DEF TakeReply, Promise!Collect, Promise!Change, WasSent
  <2> QED  BY <2>1 DEF Promise!Next
<1> QED  BY <1>1, <1>2, <1>3, <1>4, <1>5, <1>6, <1>7, StoreRefines
         DEF Next, DownloadLoop, Environment

(* The download task implements the store of pieces, as far as safety goes: *)
(* every handler, error paths included, is one step of it or none.          *)
THEOREM DownloadImplementsPieceStore == Spec => Promise!Spec
<1>1. Spec => [](RequestsAreAwaited /\ DoneMeansAll)
  BY AwaitedInit, AwaitedStep, DoneStep, TypeCorrect, PTL DEF Spec
<1> QED  BY <1>1, AbstractInit, NextRefines, TypeCorrect, SnapshotsAreAnnounced, PTL
         DEF Spec, Promise!Spec
-----------------------------------------------------------------------------
(* The protocol of the announcements.  What has been announced belongs to    *)
(* complete pieces, so that nothing that a store announces is old.          *)
AnnouncedIsComplete ==
  /\ \A b \in Blocks : WasSent(BlockCompleted(b)) => b[1] \in pieceDone
  /\ \A p \in Pieces : WasSent(PieceCompleted(p)) => p \in pieceDone
  /\ WasSent(DownloadCompleted) => Pieces \subseteq pieceDone

LEMMA AnnouncedStep ==
  ASSUME TypeOK, AnnouncedIsComplete, [Next]_vars
  PROVE  AnnouncedIsComplete'
<1>1. ASSUME pieceDone \subseteq pieceDone', sent' = sent PROVE AnnouncedIsComplete'
  BY <1>1 DEF AnnouncedIsComplete, WasSent
<1>2. ASSUME NEW e \in StoreEvents, StoreCompletes(e) PROVE AnnouncedIsComplete'
  <2>1. pieceDone' = pieceDone \cup {e.piece} /\ e.piece \in Pieces
    BY <1>2, MarksFields DEF StoreCompletes
  <2>2. \A b \in Blocks : WasSent(BlockCompleted(b))' => b[1] \in pieceDone'
    BY <1>2, <2>1, EventFields, SentByStore, DistinctAnnouncements DEF AnnouncedIsComplete
  <2>3. \A p \in Pieces : WasSent(PieceCompleted(p))' => p \in pieceDone'
    BY <1>2, <2>1, SentByStore, DistinctAnnouncements DEF AnnouncedIsComplete
  <2>4. WasSent(DownloadCompleted)' => Pieces \subseteq pieceDone'
    BY <1>2, <2>1, SentByStore, DistinctAnnouncements DEF AnnouncedIsComplete, IsComplete
  <2> QED  BY <2>2, <2>3, <2>4 DEF AnnouncedIsComplete
<1> QED  BY <1>1, <1>2, StoreAnnounces, StoreEffect, OtherEffect

(* Where an announcement of a store stands.                                 *)
LEMMA NewPositions ==
  ASSUME TypeOK, NEW e \in StoreEvents, StoreCompletes(e)
  PROVE  /\ Len(sent) \in Nat
         /\ DOMAIN sent = 1..Len(sent)
         /\ \A i \in DOMAIN sent : i \in DOMAIN sent' /\ sent'[i] = sent[i]
         /\ Len(sent) + 1 \in DOMAIN sent' /\ sent'[Len(sent) + 1] = BlockCompleted(Block(e))
         /\ Len(sent) + 2 \in DOMAIN sent' /\ sent'[Len(sent) + 2] = PieceCompleted(e.piece)
         /\ \A i \in DOMAIN sent' :
              \/ i \in DOMAIN sent
              \/ i = Len(sent) + 1
              \/ i = Len(sent) + 2
              \/ /\ i = Len(sent) + 3 /\ i = Len(sent') /\ sent'[i] = DownloadCompleted
                 /\ IsComplete(e.piece)
<1> DEFINE two == <<BlockCompleted(Block(e)), PieceCompleted(e.piece)>>
           rest == IF IsComplete(e.piece) THEN <<DownloadCompleted>> ELSE <<>>
           new == two \o rest
           three == {BlockCompleted(Block(e)), PieceCompleted(e.piece), DownloadCompleted}
<1>1. sent \in Seq(Broadcasts) /\ new \in Seq(Broadcasts) /\ sent' = sent \o new
  <2>1. Block(e) \in Blocks /\ Block(e)[1] = e.piece
    BY MarksFields DEF StoreCompletes
  <2>2. new = Announcements(Block(e))
    BY <2>1 DEF Announcements
  <2> QED  BY <2>1, <2>2, AnnouncementsType DEF TypeOK, StoreCompletes
<1>2. two \in Seq(three)
  OBVIOUS
<1>3. Len(two) = 2 /\ two[1] = BlockCompleted(Block(e)) /\ two[2] = PieceCompleted(e.piece)
  OBVIOUS
<1>4. rest \in Seq(three)
  <2>1. <<DownloadCompleted>> \in Seq(three) /\ <<>> \in Seq(three)
    OBVIOUS
  <2> QED  BY <2>1
<1>5. \/ IsComplete(e.piece) /\ Len(rest) = 1 /\ rest[1] = DownloadCompleted
      \/ Len(rest) = 0
  OBVIOUS
<1> HIDE DEF two, rest, three
<1>6. /\ Len(new) = 2 + Len(rest)
      /\ new[1] = BlockCompleted(Block(e)) /\ new[2] = PieceCompleted(e.piece)
      /\ Len(rest) = 1 => new[3] = rest[1]
  <2>1. /\ Len(new) = Len(two) + Len(rest)
        /\ \A i \in 1..Len(two) : new[i] = two[i]
        /\ \A i \in 1..Len(rest) : new[Len(two) + i] = rest[i]
    BY <1>2, <1>4
  <2>2. Len(rest) = 1 => new[2 + 1] = rest[1]
    BY <1>3, <2>1
  <2> HIDE DEF new
  <2>3. new[1] = two[1] /\ new[2] = two[2]
    BY <1>3, <2>1
  <2> QED  BY <1>3, <2>1, <2>2, <2>3
<1> HIDE DEF new
<1>7. /\ Len(sent) \in Nat /\ Len(new) \in Nat /\ Len(sent') = Len(sent) + Len(new)
      /\ DOMAIN sent = 1..Len(sent) /\ DOMAIN sent' = 1..Len(sent')
      /\ \A i \in DOMAIN sent : sent'[i] = sent[i]
      /\ \A i \in 1..Len(new) : sent'[Len(sent) + i] = new[i]
  BY <1>1
<1>8. \A i \in DOMAIN sent' : i \in DOMAIN sent \/ i - Len(sent) \in 1..Len(new)
  BY <1>7
<1>9. Len(sent) + 1 \in DOMAIN sent' /\ Len(sent) + 2 \in DOMAIN sent'
  BY <1>5, <1>6, <1>7
<1>10. \A i \in DOMAIN sent : i \in DOMAIN sent' /\ sent'[i] = sent[i]
  BY <1>7
<1>11. sent'[Len(sent) + 1] = BlockCompleted(Block(e)) /\ sent'[Len(sent) + 2] = PieceCompleted(e.piece)
  BY <1>5, <1>6, <1>7
<1>12. ASSUME NEW i \in DOMAIN sent', i \notin DOMAIN sent
       PROVE  \/ i = Len(sent) + 1
              \/ i = Len(sent) + 2
              \/ /\ i = Len(sent) + 3 /\ i = Len(sent') /\ sent'[i] = DownloadCompleted
                 /\ IsComplete(e.piece)
  <2>1. i - Len(sent) \in 1..Len(new) /\ i \in Int
    BY <1>7, <1>8, <1>12
  <2>2. CASE Len(rest) = 0
    BY <1>6, <1>7, <2>1, <2>2
  <2>3. CASE IsComplete(e.piece) /\ Len(rest) = 1 /\ rest[1] = DownloadCompleted
    <3>1. sent'[Len(sent) + 3] = DownloadCompleted /\ Len(sent') = Len(sent) + 3
      BY <1>6, <1>7, <2>3
    <3>2. i = Len(sent) + 1 \/ i = Len(sent) + 2 \/ i = Len(sent) + 3
      BY <1>6, <1>7, <2>1, <2>3
    <3> QED  BY <2>3, <3>1, <3>2
  <2> QED  BY <1>5, <2>2, <2>3
<1> QED  BY <1>7, <1>9, <1>10, <1>11, <1>12

LEMMA ProtocolStep ==
  ASSUME TypeOK, SnapshotMatchesAnnouncements, AnnouncedIsComplete, AnnouncementProtocol,
         NEW e \in StoreEvents, StoreCompletes(e)
  PROVE  AnnouncementProtocol'
<1> DEFINE b == Block(e)
           p == e.piece
           n == Len(sent)
<1>1. b \in Blocks /\ p \in Pieces /\ b \in BlocksOf(p) /\ p \notin pieceDone /\ alive
  BY MarksFields DEF StoreCompletes
<1>2. /\ ~WasSent(BlockCompleted(b)) /\ ~WasSent(PieceCompleted(p))
      /\ ~WasSent(DownloadCompleted)
  <2>1. b[1] = p
    BY EventFields
  <2> QED  BY <1>1, <2>1 DEF AnnouncedIsComplete
<1>3. \A i \in DOMAIN sent :
        /\ sent[i] # BlockCompleted(b) /\ sent[i] # PieceCompleted(p)
        /\ sent[i] # DownloadCompleted
  BY <1>2 DEF WasSent
<1>4. /\ BlockCompleted(b).type = "BlockCompleted" /\ PieceCompleted(p).type = "PieceCompleted"
      /\ DownloadCompleted.type = "DownloadCompleted" /\ PieceCompleted(p).of = p
  BY DEF BlockCompleted, PieceCompleted, DownloadCompleted
<1>5. ASSUME NEW i \in DOMAIN sent', NEW j \in DOMAIN sent', sent'[i] = sent'[j] PROVE i = j
  <2>1. i \in DOMAIN sent <=> j \in DOMAIN sent
    BY <1>3, <1>5, NewPositions
  <2>2. CASE i \in DOMAIN sent
    BY <1>5, <2>1, <2>2, NewPositions DEF AnnouncementProtocol
  <2>3. CASE i \notin DOMAIN sent
    BY <1>4, <1>5, <2>1, <2>3, NewPositions
  <2> QED  BY <2>2, <2>3
<1>6. ASSUME NEW i \in DOMAIN sent', sent'[i].type = "PieceCompleted"
      PROVE  \E j \in 1..(i - 1), c \in BlocksOf(sent'[i].of) : sent'[j] = BlockCompleted(c)
  <2>1. CASE i \in DOMAIN sent
    <3>1. PICK j \in 1..(i - 1), c \in BlocksOf(sent[i].of) : sent[j] = BlockCompleted(c)
      BY <1>6, <2>1, NewPositions DEF AnnouncementProtocol
    <3>2. j \in DOMAIN sent
      BY <2>1, NewPositions
    <3> QED  BY <2>1, <3>1, <3>2, NewPositions
  <2>2. CASE i = n + 2
    <3>1. n + 1 \in 1..(i - 1)
      BY <2>2, NewPositions
    <3> QED  BY <1>1, <1>4, <2>2, <3>1, NewPositions
  <2>3. i \in DOMAIN sent \/ i = n + 2
    BY <1>4, <1>6, NewPositions
  <2> QED  BY <2>1, <2>2, <2>3
<1>7. ASSUME NEW i \in DOMAIN sent', sent'[i] = DownloadCompleted
      PROVE  i = Len(sent') /\ \A q \in Pieces : \E j \in 1..(i - 1) : sent'[j] = PieceCompleted(q)
  <2>1. i = n + 3 /\ i = Len(sent') /\ IsComplete(p)
    BY <1>3, <1>4, <1>7, NewPositions
  <2>2. ASSUME NEW q \in Pieces PROVE \E j \in 1..(i - 1) : sent'[j] = PieceCompleted(q)
    <3>1. CASE q = p
      <4>1. n + 2 \in 1..(i - 1)
        BY <2>1, NewPositions
      <4> QED  BY <3>1, <4>1, NewPositions
    <3>2. CASE q \in pieceDone
      <4>1. PICK j \in DOMAIN sent : sent[j] = PieceCompleted(q)
        BY <1>1, <3>2 DEF SnapshotMatchesAnnouncements, WasSent
      <4>2. j \in 1..(i - 1)
        BY <2>1, NewPositions
      <4> QED  BY <4>1, <4>2, NewPositions
    <3> QED  BY <2>1, <3>1, <3>2 DEF IsComplete
  <2> QED  BY <2>1, <2>2
<1> QED  BY <1>5, <1>6, <1>7 DEF AnnouncementProtocol

(* Whatever the order of events and wherever the loop ends, no announcement *)
(* is made twice, a piece's follows one of its blocks', and the download's   *)
(* comes last, after those of all pieces.                                   *)
THEOREM AnnouncementsFollowProtocol == Spec => []AnnouncementProtocol
<1>1. Init => AnnouncedIsComplete /\ AnnouncementProtocol
  BY DEF Init, AnnouncedIsComplete, AnnouncementProtocol, WasSent
<1>2. TypeOK /\ SnapshotMatchesAnnouncements /\ AnnouncedIsComplete /\ AnnouncementProtocol
        /\ [Next]_vars => AnnouncementProtocol'
  <2> SUFFICES ASSUME TypeOK, SnapshotMatchesAnnouncements, AnnouncedIsComplete,
                      AnnouncementProtocol, [Next]_vars
               PROVE  AnnouncementProtocol'
    OBVIOUS
  <2>1. CASE sent' = sent
    BY <2>1 DEF AnnouncementProtocol
  <2> QED  BY <2>1, ProtocolStep, StoreAnnounces, OtherEffect
<1> QED  BY <1>1, <1>2, AnnouncedStep, TypeCorrect, SnapshotsAreAnnounced, PTL DEF Spec
-----------------------------------------------------------------------------
(* Finished files.  The range of pieces that verify_file looks at has every  *)
(* piece that shares a byte with the file.                                  *)
LEMMA OverlapIsContained ==
  ASSUME NEW f \in Files, NEW p \in Pieces, Overlaps(f, p)
  PROVE  p \in ContainedPieces(f)
<1>1. PieceLength \in Nat \ {0} /\ p \in Int /\ PieceOffset(p) = p * PieceLength
  BY LayoutAssumption DEF Pieces, PieceOffset
<1>2. Offset(f) \in Nat /\ Offset(f + 1) \in Nat
  BY LayoutAssumption DEF Offset, Files, NumFiles
<1>3. (p + 1) * PieceLength = p * PieceLength + PieceLength /\ p * PieceLength \in Nat
  BY <1>1, PieceFits
<1>4. Offset(f) < (p + 1) * PieceLength
  BY <1>1, <1>2, <1>3, PieceFits DEF Overlaps
<1>5. p * PieceLength <= Offset(f + 1) - 1 /\ Offset(f + 1) - 1 \in Nat
  BY <1>1, <1>2, <1>3 DEF Overlaps
<1>6. Offset(f) \div PieceLength <= p
  BY <1>1, <1>2, <1>4, DivisionBounds
<1>7. p <= (Offset(f + 1) - 1) \div PieceLength
  BY <1>1, <1>5, DivisionBounds
<1>8. Offset(f) \div PieceLength \in Int /\ (Offset(f + 1) - 1) \div PieceLength \in Int
  BY <1>1, <1>2, <1>5
<1> QED  BY <1>1, <1>6, <1>7, <1>8 DEF ContainedPieces

FinishedAreCovered == \A f \in finished : ContainedPieces(f) \subseteq pieceDone

LEMMA CoveredStep ==
  ASSUME TypeOK, FinishedAreCovered, [Next]_vars
  PROVE  FinishedAreCovered'
<1>1. ASSUME pieceDone \subseteq pieceDone', finished' = finished PROVE FinishedAreCovered'
  BY <1>1 DEF FinishedAreCovered
<1>2. ASSUME NEW e \in StoreEvents, MarksComplete(e),
             finished' \subseteq finished \cup NewlyFinished(e.piece)
      PROVE  FinishedAreCovered'
  BY <1>2 DEF FinishedAreCovered, MarksComplete, NewlyFinished, Completes
<1>3. ASSUME NEW e \in StoreEvents, Store(e) PROVE FinishedAreCovered'
  <2>1. CASE StoreCompletes(e)
    BY <1>2, <2>1 DEF StoreCompletes
  <2>2. ASSUME NEW f \in Files, StoreVerifyFileFails(e, f) PROVE FinishedAreCovered'
    <3>1. finished' \subseteq finished \cup NewlyFinished(e.piece)
      BY <2>2 DEF StoreVerifyFileFails
    <3> QED  BY <1>2, <2>2, <3>1 DEF StoreVerifyFileFails
  <2> QED  BY <1>1, <1>3, <2>1, <2>2 DEF Store, StoreIgnored, StorePanics, StoreWriteFails, StoreReadFails,
              StoreInvalid
<1> QED  BY <1>1, <1>3, OtherEffect

(* A file has its final name only if every piece that shares a byte with it *)
(* is complete, for every layout of files, empty ones included.             *)
THEOREM FinishedAreWhole == Spec => []FinishedFilesAreWhole
<1>1. Init => FinishedAreCovered
  BY DEF Init, FinishedAreCovered
<1>2. TypeOK /\ FinishedAreCovered => FinishedFilesAreWhole
  BY OverlapIsContained DEF TypeOK, FinishedAreCovered, FinishedFilesAreWhole
<1> QED  BY <1>1, <1>2, CoveredStep, TypeCorrect, PTL DEF Spec

-----------------------------------------------------------------------------
(* Every file finishes.  A file that is not empty, or is inside of a piece, *)
(* or begins one and is not skipped by the search, is looked at by          *)
(* verify_file for the piece that it begins in and for all that it shares   *)
(* bytes with.                                                              *)
Visiting(f) == ContainedPieces(f) \cup {Offset(f) \div PieceLength}

LEMMA EmptyAtPieceIsVisited ==
  ASSUME EmptyFilesAreVisited, NEW f \in Files, Offset(f) = Offset(f + 1),
         Offset(f) % PieceLength = 0
  PROVE  Visiting(f) \subseteq Pieces /\ \A p \in Visiting(f) : f \in TouchedFiles(p)
<1> DEFINE p == Offset(f) \div PieceLength
<1>1. PieceLength \in Nat \ {0} /\ TotalLength \in Nat \ {0} /\ Offset(f) \in Nat
  BY LayoutAssumption, OffsetsType DEF Files
<1>2. Offset(f) < TotalLength /\ SearchIndex(Offset(f)) <= f
  BY DEF EmptyFilesAreVisited
<1>3. p \in Nat /\ p * PieceLength = Offset(f)
  BY <1>1
<1> HIDE DEF p
<1>4. PieceOffset(p) = Offset(f)
  BY <1>3 DEF PieceOffset
<1>5. p \in Pieces
  <2>1. (p + 1) * PieceLength = p * PieceLength + PieceLength
    BY <1>1, <1>3
  <2>2. TotalLength + PieceLength - 1 \in Nat
          /\ (p + 1) * PieceLength <= TotalLength + PieceLength - 1
    BY <1>1, <1>2, <1>3, <2>1
  <2>3. p + 1 <= NumPieces /\ NumPieces \in Int
    BY <1>1, <1>3, <2>2, DivisionBounds DEF NumPieces, CeilDiv
  <2> QED  BY <1>3, <2>3 DEF Pieces
<1>6. f \in TouchedFiles(p)
  <2>1. PieceSize(p) \in Nat \ {0}
    BY <1>5, PieceFits
  <2> QED  BY <1>1, <1>2, <1>4, <1>5, <2>1, TouchesFromFirst
<1>7. ContainedPieces(f) = {}
  <2>1. PICK n \in Int : n = Offset(f) - 1
    BY <1>1
  <2>2. n < p * PieceLength
    BY <1>1, <1>3, <2>1
  <2>3. n \div PieceLength <= p - 1
    <3>1. n \in Int /\ PieceLength \in Nat \ {0} /\ p \in Int
      BY <1>1, <1>3
    <3> QED  BY <2>2, <3>1, DivisionBelow, Zenon
  <2>5. n \div PieceLength \in Int
    BY <1>1
  <2>4. ContainedPieces(f) = p..(n \div PieceLength)
    BY <2>1 DEF ContainedPieces, p
  <2> QED  BY <1>3, <2>3, <2>4, <2>5
<1> QED  BY <1>5, <1>6, <1>7 DEF Visiting, p

LEMMA FileIsVisited ==
  ASSUME EmptyFilesAreVisited, NEW f \in Files,
         Offset(f) = Offset(f + 1) => Offset(f) % PieceLength # 0
  PROVE  Visiting(f) \subseteq Pieces /\ \A p \in Visiting(f) : f \in TouchedFiles(p)
<1> DEFINE low == Offset(f) \div PieceLength
           high == (Offset(f + 1) - 1) \div PieceLength
<1>1. PieceLength \in Nat \ {0} /\ TotalLength \in Nat \ {0}
  BY LayoutAssumption, OffsetsType
<1>2. f \in 0..NumFiles /\ f + 1 \in 0..NumFiles /\ f <= f + 1
  BY OffsetsType DEF Files
<1>3. /\ Offset(f) \in Nat /\ Offset(f + 1) \in Nat
      /\ Offset(f) <= Offset(f + 1) /\ Offset(f + 1) <= TotalLength
  BY <1>2, OffsetsType, OffsetsRise
<1>4. /\ low * PieceLength <= Offset(f) /\ Offset(f) < low * PieceLength + PieceLength
      /\ Offset(f) = low * PieceLength + (Offset(f) % PieceLength) /\ low \in Nat
  BY <1>1, <1>3
<1>5. Offset(f) < TotalLength /\ low * PieceLength <= Offset(f + 1) - 1
  <2>1. CASE Offset(f) < Offset(f + 1)
    BY <1>1, <1>3, <1>4, <2>1
  <2>2. CASE Offset(f) = Offset(f + 1)
    <3>1. Offset(f) % PieceLength # 0 /\ Offset(f) < TotalLength
      BY <2>2 DEF EmptyFilesAreVisited
    <3>2. low * PieceLength \in Nat
      BY <1>1, <1>4
    <3>3. low * PieceLength # Offset(f)
      <4>1. Offset(f) % PieceLength \in Nat \ {0}
        BY <1>1, <1>3, <3>1
      <4> QED  BY <1>3, <1>4, <3>2, <4>1
    <3> QED  BY <1>3, <1>4, <2>2, <3>1, <3>2, <3>3
  <2> QED  BY <1>3, <2>1, <2>2
<1>6. Offset(f + 1) - 1 \in Nat
  <2>1. low * PieceLength \in Nat
    BY <1>1, <1>4
  <2> QED  BY <1>3, <1>5, <2>1
<1>7. high \in Nat /\ high * PieceLength <= Offset(f + 1) - 1
  BY <1>1, <1>6
<1>8. low <= high
  BY <1>1, <1>4, <1>5, <1>6, DivisionBounds
<1> HIDE DEF low, high
<1>9. ContainedPieces(f) = low..high
  BY DEF ContainedPieces, low, high
<1>10. ASSUME NEW p \in low..high PROVE p \in Pieces /\ f \in TouchedFiles(p)
  <2>1. p \in Nat /\ low <= p /\ p <= high
    BY <1>4, <1>7
  <2>2. p * PieceLength <= high * PieceLength /\ low * PieceLength <= p * PieceLength
    BY <1>1, <1>4, <1>7, <2>1
  <2>3. p * PieceLength \in Nat /\ (p + 1) * PieceLength = p * PieceLength + PieceLength
    BY <1>1, <2>1
  <2>4. p * PieceLength <= Offset(f + 1) - 1 /\ p * PieceLength < TotalLength
    BY <1>3, <1>6, <1>7, <2>2, <2>3, <1>1
  <2>5. p \in Pieces
    <3>1. TotalLength + PieceLength - 1 \in Nat
            /\ (p + 1) * PieceLength <= TotalLength + PieceLength - 1
      BY <1>1, <2>3, <2>4
    <3>2. p + 1 <= NumPieces
      BY <1>1, <2>1, <3>1, DivisionBounds DEF NumPieces, CeilDiv
    <3>3. NumPieces \in Int
      BY <1>1 DEF NumPieces, CeilDiv
    <3> QED  BY <2>1, <3>2, <3>3 DEF Pieces
  <2>6. PieceOffset(p) < Offset(f + 1)
    BY <1>3, <2>3, <2>4 DEF PieceOffset
  <2>7. Offset(f) < PieceOffset(p) + PieceSize(p)
    <3>1. Offset(f) < p * PieceLength + PieceLength
      BY <1>1, <1>3, <1>4, <2>2, <2>3
    <3> QED  BY <1>5, <2>5, <3>1, PieceFits DEF PieceOffset
  <2> QED  BY <2>5, <2>6, <2>7, TouchesFiles
<1>11. low \in low..high
  BY <1>4, <1>7, <1>8
<1>12. Visiting(f) = low..high
  BY <1>9, <1>11 DEF Visiting, low
<1> QED  BY <1>10, <1>12

LEMMA VisitedFiles ==
  ASSUME EmptyFilesAreVisited, NEW f \in Files
  PROVE  Visiting(f) \subseteq Pieces /\ \A p \in Visiting(f) : f \in TouchedFiles(p)
  BY EmptyAtPieceIsVisited, FileIsVisited

(* While the loop runs, no file waits for its name once its pieces are      *)
(* complete.                                                                *)
CoveredAreFinished ==
  alive => \A f \in Files : Visiting(f) \subseteq pieceDone => f \in finished

LEMMA FinishesInit ==
  ASSUME EmptyFilesAreVisited, Init
  PROVE  CoveredAreFinished /\ EveryFileFinishes
  BY DEF Init, CoveredAreFinished, EveryFileFinishes, WasSent, Visiting

LEMMA FinishesStep ==
  ASSUME EmptyFilesAreVisited, TypeOK, DoneMeansAll, CoveredAreFinished, EveryFileFinishes,
         [Next]_vars
  PROVE  CoveredAreFinished' /\ EveryFileFinishes'
<1>1. CASE UNCHANGED <<pieceDone, finished, sent>>
  BY <1>1, NoRevival DEF CoveredAreFinished, EveryFileFinishes, WasSent
<1>2. ASSUME NEW e \in StoreEvents, StoreCompletes(e)
      PROVE  CoveredAreFinished' /\ EveryFileFinishes'
  <2> DEFINE p == e.piece
  <2>1. /\ alive /\ p \in Pieces /\ pieceDone' = pieceDone \cup {p}
        /\ finished' = finished \cup NewlyFinished(p)
    BY <1>2, MarksFields DEF StoreCompletes
  <2>2. ASSUME NEW f \in Files, Visiting(f) \subseteq pieceDone' PROVE f \in finished'
    <3>1. CASE Visiting(f) \subseteq pieceDone
      BY <2>1, <3>1 DEF CoveredAreFinished
    <3>2. CASE p \in Visiting(f)
      <4>1. f \in TouchedFiles(p)
        BY <3>2, VisitedFiles
      <4>2. Completes(f, p)
        BY <2>1, <2>2 DEF Completes, Visiting
      <4> QED  BY <2>1, <4>1, <4>2 DEF NewlyFinished
    <3> QED  BY <2>1, <2>2, <3>1, <3>2
  <2>3. CASE IsComplete(p)
    <3>1. Pieces \subseteq pieceDone'
      BY <2>1, <2>3 DEF IsComplete
    <3>2. Files \subseteq finished'
      BY <2>2, <3>1, VisitedFiles
    <3>3. finished' \subseteq Files
      BY <1>2, TypeStep DEF TypeOK
    <3> QED  BY <2>2, <3>2, <3>3 DEF CoveredAreFinished, EveryFileFinishes
  <2>4. CASE ~IsComplete(p)
    <3>1. WasSent(DownloadCompleted)' => WasSent(DownloadCompleted)
      BY <1>2, <2>4, SentByStore, DistinctAnnouncements
    <3>2. finished = Files => finished' = Files
      BY <1>2, <2>1, TypeStep DEF TypeOK
    <3> QED  BY <2>2, <3>1, <3>2 DEF CoveredAreFinished, EveryFileFinishes
  <2> QED  BY <2>3, <2>4
<1>3. ASSUME NEW e \in StoreEvents, Store(e), ~StoreCompletes(e)
      PROVE  CoveredAreFinished' /\ EveryFileFinishes'
  <2>1. sent' = sent /\ (~alive' \/ (alive' = alive /\ pieceDone' = pieceDone))
    BY <1>3, StoreAnnounces
  <2>2. finished \subseteq finished' /\ finished' \subseteq Files
    <3>1. finished \subseteq finished'
      BY <1>3 DEF Store, StoreIgnored, StorePanics, StoreWriteFails, StoreReadFails, StoreInvalid,
                  StoreVerifyFileFails
    <3> QED  BY <1>3, <3>1, TypeStep DEF TypeOK
  <2> QED  BY <2>1, <2>2 DEF CoveredAreFinished, EveryFileFinishes, WasSent
<1> QED  BY <1>1, <1>2, <1>3, OtherEffect

(* When the download has been announced every file has its final name, in   *)
(* any order of blocks and whatever fails on the way, if every file of      *)
(* length 0 comes before the end of the torrent and, where a piece begins   *)
(* with it, is not one that the binary search over file_offsets skips.      *)
THEOREM AllFilesFinish == EmptyFilesAreVisited => (Spec => []EveryFileFinishes)
<1> SUFFICES ASSUME EmptyFilesAreVisited PROVE Spec => []EveryFileFinishes
  OBVIOUS
<1>1. Init => CoveredAreFinished /\ EveryFileFinishes
  BY FinishesInit
<1>2. TypeOK /\ DoneMeansAll /\ CoveredAreFinished /\ EveryFileFinishes /\ [Next]_vars
        => CoveredAreFinished' /\ EveryFileFinishes'
  BY FinishesStep
<1>3. Init => DoneMeansAll
  BY AwaitedInit
<1>4. TypeOK /\ DoneMeansAll /\ [Next]_vars => DoneMeansAll'
  BY DoneStep
<1> QED  BY <1>1, <1>2, <1>3, <1>4, TypeCorrect, PTL DEF Spec
-----------------------------------------------------------------------------
(* Whichever ranges the task handles, it reads and writes them and their     *)
(* pieces byte by byte at their places: RangesAreExact for the ranges that  *)
(* events can name.                                                         *)
LEMMA InsideIsExact ==
  ASSUME NEW offset \in Nat, NEW len \in Nat, ~Outside(offset, len)
  PROVE  IsCutAtFiles(offset, len)
<1>1. offset + len <= TotalLength /\ TotalLength \in Nat
  BY OffsetsType DEF Outside
<1>2. CASE len = 0
  BY <1>2 DEF IsCutAtFiles
<1>3. CASE len # 0
  <2>1. offset \in 0..(TotalLength - 1) /\ len \in 0..(TotalLength - offset)
    BY <1>1, <1>3
  <2> QED  BY <2>1, RangesAreExact
<1> QED  BY <1>2, <1>3

THEOREM BlocksAreExact == Spec => []BlocksAreCutAtFiles
<1>1. ASSUME NEW p \in Pieces PROVE IsCutAtFiles(PieceOffset(p), PieceSize(p))
  <2>1. PieceOffset(p) \in 0..(TotalLength - 1) /\ PieceSize(p) \in 0..(TotalLength - PieceOffset(p))
    BY PieceFits, OffsetsType
  <2> QED  BY <2>1, RangesAreExact
<1>2. ASSUME NEW e \in StoreEvents, Block(e) \in Blocks
      PROVE  /\ ~Outside(Place(e), Len(e.data)) => IsCutAtFiles(Place(e), Len(e.data))
             /\ IsCutAtFiles(PieceOffset(e.piece), PieceSize(e.piece))
  <2>1. e.piece \in Pieces /\ Len(e.data) \in Nat
    BY <1>2, EventFields
  <2>2. Place(e) \in Nat
    BY <1>2, BlockFits, OffsetsType DEF Place
  <2> QED  BY <1>1, <2>1, <2>2, InsideIsExact
<1>3. ASSUME NEW e \in DataRequests, e.piece \in Pieces, ~Outside(ReadOffset(e), e.len)
      PROVE  IsCutAtFiles(ReadOffset(e), e.len)
  <2>1. ReadOffset(e) \in Nat /\ e.len \in Nat
    BY <1>3, RequestFields, PieceFits DEF ReadOffset
  <2> QED  BY <1>3, <2>1, InsideIsExact
<1>4. ASSUME NEW e \in Events
      PROVE  /\ e.type = "Piece" => e \in StoreEvents
             /\ e.type = "RequireData" => e \in DataRequests
  BY <1>4 DEF Events, StoreEvents, Requests, DataRequests, BlockRequests, HaveRequests
<1>5. TypeOK => BlocksAreCutAtFiles
  BY <1>2, <1>3, <1>4 DEF TypeOK, BlocksAreCutAtFiles
<1> QED  BY <1>5, TypeCorrect, PTL
=============================================================================
