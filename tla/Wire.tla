-------------------------------- MODULE Wire --------------------------------
(***************************************************************************)
(* A connection as bytes: the handshake (handshake, send_handshake and      *)
(* receive_handshake in peer/peer_connection.rs) and the frames of messages *)
(* (serialize and new in base/ipc.rs, conn_write_loop and conn_read_loop).  *)
(* We connect and send our handshake first; the remote side runs the same   *)
(* code the other way round and reads what we write.  TCP delivers a prefix *)
(* of what was written; a connection that is lost loses the rest.           *)
(***************************************************************************)
EXTENDS Integers, Sequences, FiniteSets

CONSTANTS
  Protocol,     \* "BitTorrent protocol"
  OurId,        \* our_peer_id, which is one byte here as the hash is
  TheirId,      \* the peer id of the remote side
  WireMessages, \* the messages that are written
  NumPieces,    \* the pieces of the torrent
  MaxMessages   \* bound: messages written

(* What connections write: pieces are the torrent's, numbers and data those *)
(* of unsigned types.                                                       *)
WellFormed(m) ==
  \/ m[1] \in {"KeepAlive", "Choke", "UnChoke", "Interested", "NotInterested", "Port"}
     /\ m = <<m[1]>>
  \/ m[1] = "Have" /\ m = <<m[1], m[2]>> /\ m[2] \in 0..(NumPieces - 1)
  \/ m[1] = "Bitfield" /\ m = <<m[1], m[2]>> /\ m[2] \subseteq 0..(NumPieces - 1)
  \/ /\ m[1] \in {"Request", "Cancel"} /\ m = <<m[1], m[2], m[3], m[4]>>
     /\ m[2] \in Nat /\ m[3] \in Nat /\ m[4] \in Nat
  \/ /\ m[1] = "Piece" /\ m = <<m[1], m[2], m[3], m[4]>>
     /\ m[2] \in Nat /\ m[3] \in Nat /\ m[4] \in Seq(Nat)

ASSUME WireAssumption ==
  /\ NumPieces \in Nat
  /\ MaxMessages \in Nat
  /\ Protocol \in Seq(Nat)
  /\ \A m \in WireMessages : WellFormed(m)

VARIABLES
  us,        \* "idle", "sending" or "receiving" the handshake, "open", "failed"
  them,      \* "receiving" or "sending" it, "open", "failed", "panicked"
  toThem,    \* the bytes on their way to the remote side
  toUs,      \* the bytes on their way to us
  lost,      \* the connection is closed or broken
  written,   \* the messages that conn_write_loop has written
  received,  \* the messages that conn_read_loop of the remote side has read
  hasPieces  \* he.has_pieces of the remote side, as a set

wireVars == <<us, them, toThem, toUs, lost, written, received, hasPieces>>

WireInit ==
  /\ us = "idle"
  /\ them = "receiving"
  /\ toThem = <<>>
  /\ toUs = <<>>
  /\ lost = FALSE
  /\ written = <<>>
  /\ received = <<>>
  /\ hasPieces = {}

-----------------------------------------------------------------------------
BytesToU32(bytes) ==
  bytes[1] * 16777216 + bytes[2] * 65536 + bytes[3] * 256 + bytes[4]

U32ToBytes(n) ==
  <<n \div 16777216, (n \div 65536) % 256, (n \div 256) % 256, n % 256>>

(* send_bitfield: the first piece is the high bit of the first byte.        *)
Mask(i) == <<128, 64, 32, 16, 8, 4, 2, 1>>[(i % 8) + 1]

BitfieldBytes(pieces) ==
  [k \in 1..((NumPieces + 7) \div 8) |->
    LET Bit(i) == IF i \in pieces THEN Mask(i) ELSE 0
        first == 8 * (k - 1)
    IN  Bit(first) + Bit(first + 1) + Bit(first + 2) + Bit(first + 3)
          + Bit(first + 4) + Bit(first + 5) + Bit(first + 6) + Bit(first + 7)]

BitfieldPieces(bytes) ==
  {i \in 0..(NumPieces - 1) : (bytes[i \div 8 + 1] \div Mask(i)) % 2 = 1}

(* serialize writes a Piece with the id of a Request.                       *)
Id(type) ==
  CASE type = "Choke" -> 0 [] type = "UnChoke" -> 1
    [] type = "Interested" -> 2 [] type = "NotInterested" -> 3
    [] type = "Have" -> 4 [] type = "Bitfield" -> 5
    [] type = "Request" -> 6 [] type = "Piece" -> 6
    [] type = "Cancel" -> 8 [] type = "Port" -> 9

Payload(m) ==
  CASE m[1] = "KeepAlive" -> <<>>
    [] m[1] = "Have" -> <<Id("Have")>> \o U32ToBytes(m[2])
    [] m[1] = "Bitfield" -> <<Id("Bitfield")>> \o BitfieldBytes(m[2])
    [] m[1] \in {"Request", "Cancel"} ->
         <<Id(m[1])>> \o U32ToBytes(m[2]) \o U32ToBytes(m[3]) \o U32ToBytes(m[4])
    [] m[1] = "Piece" -> <<Id("Piece")>> \o U32ToBytes(m[2]) \o U32ToBytes(m[3]) \o m[4]
    [] m[1] \in {"Choke", "UnChoke", "Interested", "NotInterested", "Port"} -> <<Id(m[1])>>

(* Mutant of Serialize: the size counts its own four bytes.                 *)
SerializeSized(m) == U32ToBytes(4 + Len(Payload(m))) \o Payload(m)
Serialize(m) == U32ToBytes(Len(Payload(m))) \o Payload(m)

Words32(body) == [k \in 1..(Len(body) \div 4) |-> BytesToU32(SubSeq(body, 4 * k - 3, 4 * k))]

(* Message::new, whose slices panic on a body that is too short.            *)
TooShort(id, body) ==
  \/ id = 4 /\ Len(body) < 4
  \/ id = 7 /\ Len(body) < 8
  \/ id \in {6, 8} /\ Len(body) < 12

Message(id, body) ==
  LET word == Words32(body)
  IN  CASE id = 0 -> <<"Choke">> [] id = 1 -> <<"UnChoke">>
        [] id = 2 -> <<"Interested">> [] id = 3 -> <<"NotInterested">>
        [] id = 4 -> <<"Have", word[1]>> [] id = 5 -> <<"Bitfield", body>>
        [] id = 6 -> <<"Request", word[1], word[2], word[3]>>
        [] id = 7 -> <<"Piece", word[1], word[2], SubSeq(body, 9, Len(body))>>
        [] id = 8 -> <<"Cancel", word[1], word[2], word[3]>>
        [] id = 9 -> <<"Port">>

-----------------------------------------------------------------------------
(* A handshake: the length of the protocol's name, the name, the reserved   *)
(* bytes, the info hash and the peer id.                                    *)
Reserved == <<0, 0>>
Handshake(hash, id) == <<Len(Protocol)>> \o Protocol \o Reserved \o <<hash, id>>

HandshakeLength(bytes) == 1 + bytes[1] + Len(Reserved) + 2
HasHandshake(bytes) == bytes # <<>> /\ Len(bytes) >= HandshakeLength(bytes)
HashOf(bytes) == bytes[HandshakeLength(bytes) - 1]
IdOf(bytes) == bytes[HandshakeLength(bytes)]
Accepts(bytes, hash, id) == HashOf(bytes) = hash /\ IdOf(bytes) # id
After(bytes, n) == SubSeq(bytes, n + 1, Len(bytes))

frameVars == <<written, received, hasPieces>>

(* Mutant of Connect: both sides wait for the other's handshake.            *)
ConnectReceiving ==
  /\ us = "idle"
  /\ us' = "receiving"
  /\ UNCHANGED <<them, toThem, toUs, lost, frameVars>>

Connect ==
  /\ us = "idle"
  /\ us' = "sending"
  /\ UNCHANGED <<them, toThem, toUs, lost, frameVars>>

WeSendHandshake(hash) ==
  /\ us = "sending"
  /\ us' = IF lost THEN "failed" ELSE "receiving"
  /\ toThem' = IF lost THEN toThem ELSE toThem \o Handshake(hash, OurId)
  /\ UNCHANGED <<them, toUs, lost, frameVars>>

(* A side that refuses the other closes the connection.                     *)
TheyReceiveHandshake(hash) ==
  /\ them = "receiving"
  /\ HasHandshake(toThem)
  /\ IF Accepts(toThem, hash, TheirId)
     THEN them' = "sending" /\ UNCHANGED lost
     ELSE them' = "failed" /\ lost' = TRUE
  /\ toThem' = After(toThem, HandshakeLength(toThem))
  /\ UNCHANGED <<us, toUs, frameVars>>

TheySendHandshake(hash) ==
  /\ them = "sending"
  /\ them' = IF lost THEN "failed" ELSE "open"
  /\ toUs' = IF lost THEN toUs ELSE toUs \o Handshake(hash, TheirId)
  /\ UNCHANGED <<us, toThem, lost, frameVars>>

WeReceiveHandshake(hash) ==
  /\ us = "receiving"
  /\ HasHandshake(toUs)
  /\ IF Accepts(toUs, hash, OurId)
     THEN us' = "open" /\ UNCHANGED lost
     ELSE us' = "failed" /\ lost' = TRUE
  /\ toUs' = After(toUs, HandshakeLength(toUs))
  /\ UNCHANGED <<them, toThem, frameVars>>

-----------------------------------------------------------------------------
(* A loop ends, and with it the connection, when it cannot write any more.  *)
Write(m) ==
  /\ us = "open"
  /\ Len(written) < MaxMessages
  /\ IF lost
     THEN us' = "failed" /\ UNCHANGED <<toThem, written>>
     ELSE /\ toThem' = toThem \o Serialize(m)
          /\ written' = Append(written, m)
          /\ UNCHANGED us
  /\ UNCHANGED <<them, toUs, lost, received, hasPieces>>

HasFrame == Len(toThem) >= 4 /\ Len(toThem) >= 4 + BytesToU32(toThem)
Frame == SubSeq(toThem, 5, 4 + BytesToU32(toThem))

Noted(m) ==
  CASE m[1] = "Have" -> hasPieces \cup {m[2]}
    [] m[1] = "Bitfield" -> BitfieldPieces(m[2])
    [] m[1] \notin {"Have", "Bitfield"} -> hasPieces

(* process_message has no case for a Port: it is an error, which ends the   *)
(* connection.                                                              *)
GoOnAfter(m) ==
  IF m = <<"Port">> THEN them' = "failed" /\ lost' = TRUE ELSE UNCHANGED <<them, lost>>

(* Mutant of Take: the capacity of the bits is noted, not the pieces.       *)
TakeAll(m) ==
  /\ received' = Append(received, m)
  /\ hasPieces' = IF m[1] = "Bitfield" THEN 0..(8 * Len(m[2]) - 1) ELSE Noted(m)
  /\ GoOnAfter(m)

Take(m) ==
  /\ received' = Append(received, m)
  /\ hasPieces' = Noted(m)
  /\ GoOnAfter(m)

Read ==
  /\ them = "open"
  /\ HasFrame
  /\ IF Frame = <<>> THEN Take(<<"KeepAlive">>)
     ELSE IF TooShort(Frame[1], Tail(Frame))
     THEN them' = "panicked" /\ lost' = TRUE /\ UNCHANGED <<received, hasPieces>>
     ELSE Take(Message(Frame[1], Tail(Frame)))
  /\ toThem' = After(toThem, 4 + Len(Frame))
  /\ UNCHANGED <<us, toUs, written>>

(* The end of the stream, before all the bytes that read_n is to read.      *)
ReadFails ==
  /\ lost
  /\ \/ /\ \/ them = "receiving" /\ ~HasHandshake(toThem)
           \/ them = "open" /\ ~HasFrame
        /\ them' = "failed"
        /\ UNCHANGED us
     \/ /\ us = "receiving" /\ ~HasHandshake(toUs)
        /\ us' = "failed"
        /\ UNCHANGED them
  /\ UNCHANGED <<toThem, toUs, lost, frameVars>>

Lose ==
  /\ us # "idle"
  /\ ~lost
  /\ lost' = TRUE
  /\ \E n \in 0..Len(toThem) : toThem' = SubSeq(toThem, 1, n)
  /\ \E n \in 0..Len(toUs) : toUs' = SubSeq(toUs, 1, n)
  /\ UNCHANGED <<us, them, frameVars>>

-----------------------------------------------------------------------------
(* A connection on its own, whose sides know their torrents by the hashes   *)
(* ours and theirs.                                                         *)
Handshakes(ours, theirs) ==
  \/ WeSendHandshake(ours)
  \/ TheyReceiveHandshake(theirs)
  \/ TheySendHandshake(theirs)
  \/ WeReceiveHandshake(ours)

WireNext(ours, theirs) ==
  \/ Connect
  \/ Handshakes(ours, theirs)
  \/ \E m \in WireMessages : Write(m)
  \/ Read
  \/ ReadFails
  \/ Lose

WireSpec(ours, theirs) == WireInit /\ [][WireNext(ours, theirs)]_wireVars

-----------------------------------------------------------------------------
(* The type invariant.                                                      *)
WireTypeOK ==
  /\ us \in {"idle", "sending", "receiving", "open", "failed"}
  /\ them \in {"receiving", "sending", "open", "failed", "panicked"}
  /\ lost \in BOOLEAN
  /\ written \in Seq(WireMessages)
  /\ Len(received) <= Len(written) /\ Len(written) <= MaxMessages
  /\ hasPieces \subseteq 0..(NumPieces - 1)

(* A Piece, written with the id of a Request, is read as one: its data are  *)
(* taken for a length.                                                      *)
ReadAs(m) ==
  CASE m[1] = "Piece" -> <<"Request", m[2], m[3], BytesToU32(m[4])>>
    [] m[1] = "Bitfield" -> <<"Bitfield", BitfieldBytes(m[2])>>
    [] m[1] \notin {"Piece", "Bitfield"} -> m

(* The pieces that the first n messages announce: a Bitfield takes the      *)
(* place of everything before it.                                           *)
Mentions(m) ==
  CASE m[1] = "Have" -> {m[2]}
    [] m[1] = "Bitfield" -> m[2]
    [] m[1] \notin {"Have", "Bitfield"} -> {}

Announced(n) ==
  UNION {Mentions(written[k]) : k \in {i \in 1..n : \A j \in (i + 1)..n : written[j][1] # "Bitfield"}}

(* Frames keep their bounds: whatever is lost with the connection, and      *)
(* wherever, the remote side has read a prefix of the messages written,     *)
(* each as itself but for a Piece, and has noted the pieces they announce.  *)
FramesAreReadAsWritten ==
  /\ \A k \in DOMAIN received : received[k] = ReadAs(written[k])
  /\ hasPieces = Announced(Len(received))

(* Neither side goes on to messages, nor answers a handshake, with one that *)
(* knows its torrent by another hash.                                       *)
SameTorrent(ours, theirs) ==
  us = "open" \/ them \in {"sending", "open", "panicked"} => ours = theirs
=============================================================================
