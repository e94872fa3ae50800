----------------------------- MODULE FileLayout -----------------------------
(***************************************************************************)
(* How a torrent's bytes are cut into pieces, blocks and files: the        *)
(* arithmetic of base/download.rs.  Pieces, blocks, files and byte         *)
(* positions are numbered from 0, as in the code.                          *)
(***************************************************************************)
EXTENDS Integers, Sequences

CONSTANTS
  FileOffsets,  \* create_files: start of every file, then the total length
  PieceLength,  \* meta_info.piece_length()
  BlockSize     \* BLOCK_SIZE

ASSUME LayoutAssumption ==
  /\ PieceLength \in Nat \ {0}
  /\ BlockSize \in Nat \ {0}
  /\ FileOffsets \in Seq(Nat)
  /\ Len(FileOffsets) >= 2
  /\ FileOffsets[1] = 0
  /\ FileOffsets[Len(FileOffsets)] > 0
  /\ \A i \in 1..(Len(FileOffsets) - 1) : FileOffsets[i] <= FileOffsets[i + 1]

CeilDiv(n, d) == (n + d - 1) \div d

NumFiles == Len(FileOffsets) - 1
Files == 0..(NumFiles - 1)
Offset(i) == FileOffsets[i + 1]
TotalLength == Offset(NumFiles)

(* create_pieces: as many pieces as hashes; its two assertions leave this   *)
(* number as the only one possible.                                        *)
NumPieces == CeilDiv(TotalLength, PieceLength)
Pieces == 0..(NumPieces - 1)
PieceOffset(p) == p * PieceLength
PieceSize(p) ==
  IF p < NumPieces - 1 THEN PieceLength ELSE TotalLength - PieceOffset(p)

NumBlocks(p) == CeilDiv(PieceSize(p), BlockSize)
BlocksOf(p) == {<<p, b>> : b \in 0..(NumBlocks(p) - 1)}
Blocks == UNION {BlocksOf(p) : p \in Pieces}
PiecePositions(p) == PieceOffset(p)..(PieceOffset(p) + PieceSize(p) - 1)
Positions == 0..(TotalLength - 1)
BlockOffset(b) == PieceOffset(b[1]) + b[2] * BlockSize
BlockLength(b) ==
  IF b[2] < NumBlocks(b[1]) - 1 THEN BlockSize ELSE PieceSize(b[1]) - b[2] * BlockSize

-----------------------------------------------------------------------------
(* search_index: a binary search over file_offsets.  Where files of length *)
(* 0 repeat an offset it returns whichever of them the halving meets.       *)
SearchIndex(offset) ==
  LET Search[r \in [left : 0..(NumFiles + 1), right : -1..NumFiles]] ==
        LET mid == (r.left + r.right) \div 2
        IN  IF r.left > r.right THEN r.right
            ELSE IF offset = Offset(mid) THEN mid
            ELSE IF offset < Offset(mid) THEN Search[[r EXCEPT !.right = mid - 1]]
            ELSE Search[[r EXCEPT !.left = mid + 1]]
  IN  Search[[left |-> 0, right |-> NumFiles]]

(* A segment: len bytes of the torrent from position ptr of the file on,    *)
(* which are those from position data of the range.                         *)
Segment ==
  {s \in [file : Files, ptr : Nat, data : Nat, len : Nat] :
     /\ Offset(s.file) + s.ptr <= Offset(s.file + 1)
     /\ Offset(s.file) + s.ptr + s.len <= TotalLength}

(* search_ptrs cuts the range of len bytes at offset where files end: what  *)
(* goes beyond the end of its file is left to the next ones.                *)
Cut[s \in Segment] ==
  LET l == Offset(s.file + 1) - Offset(s.file) - s.ptr
  IN  IF s.len + Offset(s.file) + s.ptr > Offset(s.file + 1)
      THEN <<[s EXCEPT !.len = l]>>
             \o Cut[[file |-> s.file + 1, ptr |-> 0, data |-> s.data + l, len |-> s.len - l]]
      ELSE <<s>>

(* The range of len bytes at offset is not all in the torrent, or begins    *)
(* where no file does: search_ptrs takes an offset that file_offsets does   *)
(* not have, and panics.                                                    *)
Outside(offset, len) == offset + len > TotalLength \/ SearchIndex(offset) = NumFiles

(* Mutant of SearchPtrs: the first file is read from its beginning.         *)
SearchPtrsFromStart(offset, len) ==
  Cut[[file |-> SearchIndex(offset), ptr |-> 0, data |-> 0, len |-> len]]

SearchPtrs(offset, len) ==
  LET first == SearchIndex(offset)
  IN  Cut[[file |-> first, ptr |-> offset - Offset(first), data |-> 0, len |-> len]]

(* Mutant of TouchedFiles: only the file where the piece starts.            *)
FirstTouchedFile(p) == {SearchPtrs(PieceOffset(p), PieceSize(p))[1].file}

(* Mutant of ContainedPieces: the end of the range is excluded.             *)
ContainedPiecesButLast(f) ==
  (Offset(f) \div PieceLength) .. ((Offset(f + 1) - 1) \div PieceLength - 1)

(* verify_file visits the files of the piece's segments and, for each,      *)
(* looks at the pieces low..high that its byte range falls in.              *)
TouchedFiles(p) ==
  LET segments == SearchPtrs(PieceOffset(p), PieceSize(p))
  IN  {f \in Files : \E k \in DOMAIN segments : segments[k].file = f}

ContainedPieces(f) ==
  (Offset(f) \div PieceLength) .. ((Offset(f + 1) - 1) \div PieceLength)

-----------------------------------------------------------------------------
(* The positions of the range that a segment stands for.                    *)
PositionsOf(s) == s.data..(s.data + s.len - 1)

(* The range is cut exactly: position x of it is in one segment, which has  *)
(* it at its place in the torrent and inside of its file.                   *)
IsCutAtFiles(offset, len) ==
  LET w == SearchPtrs(offset, len)
      Place(k, x) == Offset(w[k].file) + w[k].ptr + (x - w[k].data)
  IN  \A x \in 0..(len - 1) : \E k \in DOMAIN w :
        /\ \A j \in DOMAIN w : x \in PositionsOf(w[j]) <=> j = k
        /\ Place(k, x) = offset + x
        /\ Place(k, x) < Offset(w[k].file + 1)
=============================================================================
