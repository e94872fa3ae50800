----------------------------- MODULE MCDownload -----------------------------
(***************************************************************************)
(* Layouts on which TLC checks Download, and what it delivers and requests. *)
(***************************************************************************)
EXTENDS Download

(* Two pieces of which the first has two blocks (PieceLength 4, BlockSize   *)
(* 2); four files: inside piece 0, empty between two bytes of piece 0,      *)
(* across both pieces, inside piece 1.                                      *)
TwoPieces == <<0, 1, 1, 5, 6>>

(* Single-block pieces and a last file of length 0 (PieceLength 2).         *)
EmptyLastFile == <<0, 2, 4, 4>>

Data(p, offset, data) == [piece |-> p, offset |-> offset, data |-> data]
Range(p, offset, len) == [piece |-> p, offset |-> offset, len |-> len]

(* The blocks as they are cut, right and wrong.                             *)
AlignedBlocks ==
  {Data(b[1], b[2] * BlockSize, [i \in 1..BlockLength(b) |-> ok]) : b \in Blocks, ok \in BOOLEAN}

(* Data that runs on, right in its block and wrong in the next one: within   *)
(* a piece and into the next piece; that is short; at an offset inside of   *)
(* its block; beyond the last block, the last piece and the last byte.      *)
UnevenData ==
  {Data(0, 0, <<TRUE, TRUE, FALSE>>), Data(0, 2, <<TRUE, TRUE, FALSE>>),
   Data(1, 0, <<TRUE>>), Data(0, 3, <<FALSE>>),
   Data(1, 2, <<TRUE>>), Data(2, 0, <<TRUE>>), Data(1, 0, <<TRUE, TRUE, TRUE>>)}

AnyData == AlignedBlocks \cup UnevenData

(* A block, a range across both pieces, one beyond the end, an empty one at  *)
(* the end, one of a piece that does not exist.                             *)
AnyRange ==
  {Range(1, 0, 2), Range(0, 2, 4), Range(1, 1, 2), Range(1, 2, 0), Range(2, 0, 1)}

(* The files are new, or hold the torrent, or part of piece 1.              *)
NewOrOld == {{}, Positions, {4}}
New == {{}}
=============================================================================
