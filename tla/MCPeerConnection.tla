-------------------------- MODULE MCPeerConnection --------------------------
(***************************************************************************)
(* What the remote side may send when TLC checks PeerConnection.            *)
(***************************************************************************)
EXTENDS PeerConnection

(* A remote side that we download from; it also requests what we may not    *)
(* have.                                                                    *)
Seeder ==
  {Signal("Choke"), Signal("UnChoke"), Signal("Interested"), Bitfield(Pieces),
   OfPiece("Have", 0), OfBlock("Piece", <<0, 0>>), OfBlock("Request", <<1, 0>>),
   Signal("KeepAlive"), Signal("Port")}

(* One that downloads from us.                                              *)
Leecher ==
  {Signal("Interested"), Signal("NotInterested")}
    \cup {OfBlock("Request", b) : b \in Blocks}
    \cup {OfBlock("Cancel", <<0, 0>>)}

(* One that does both.                                                      *)
Trader ==
  {Signal("Interested"), Signal("UnChoke"), OfPiece("Have", 1), OfBlock("Request", <<0, 0>>)}
=============================================================================
