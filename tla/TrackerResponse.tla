--------------------------- MODULE TrackerResponse ---------------------------
(***************************************************************************)
(* The answer of a tracker (TrackerResponse in tracker_supervisor.rs, Peer  *)
(* in peer_connection.rs): the peers as a list of dicts or in the compact   *)
(* form of six bytes for each.                                              *)
(***************************************************************************)
EXTENDS Bencode

CONSTANTS
  Compact,  \* per string of compact peers: the peers of its full chunks
  Ragged    \* those of them whose last chunk is short

(* The names of the fields are texts.                                       *)
MinInterval == "min interval"
ResponseFields == {"complete", "incomplete", "interval", "ip", MinInterval, "peers", "port"}

ASSUME ResponseAssumption == ResponseFields \subseteq Strings \ Binary

Peer(ip, port) == [ip |-> ip, port |-> port]

U32From(v) == IntegerFrom(v, Width \div 2)
(* Mutant of U16From: a port of one byte.                                   *)
U8From(v) == IntegerFrom(v, Width \div 8)
U16From(v) == IntegerFrom(v, Width \div 4)

PeerFrom(v) ==
  Then(GetField(v, "ip", StringFrom), LAMBDA ip :
    Then(GetField(v, "port", U16From), LAMBDA port : Ok(Peer(ip.value, port.value), 0)))

(* from_bytes reads six bytes of every chunk and panics on a short one.     *)
PeersOfChunks(w) ==
  IF w \in Ragged THEN [Malformed(0) EXCEPT !.status = "panic"] ELSE Ok(Compact[w], 0)

PeersFrom(v) ==
  CASE v[1] = "List" -> ListFrom(v, PeerFrom)
    [] v[1] = "Bytes" -> PeersOfChunks(v[2])
    [] v[1] \notin {"List", "Bytes"} -> Malformed(0)

ResponseFrom(v) ==
  Then(GetField(v, "peers", PeersFrom), LAMBDA peers :
    Then(GetField(v, "interval", U32From), LAMBDA interval :
      Then(GetOptionField(v, MinInterval, U32From), LAMBDA minInterval :
        Then(GetField(v, "complete", U32From), LAMBDA complete :
          Then(GetField(v, "incomplete", U32From), LAMBDA incomplete :
            Ok([interval |-> interval.value, minInterval |-> minInterval.value,
                complete |-> complete.value, incomplete |-> incomplete.value,
                peers |-> peers.value], 0))))))

ParseResponse(s) == Then(DecodeValue(s, 1), LAMBDA r : ResponseFrom(r.value))
=============================================================================
