------------------------------- MODULE Session -------------------------------
(***************************************************************************)
(* From the torrent file to the first messages: main reads the file         *)
(* (bin/run_tracker.rs), a tracker is asked with its info hash and answers  *)
(* (tracker/tracker.rs), and a connection to a peer of the answer shakes    *)
(* hands with that hash.  The remote side has the same torrent and knows it *)
(* by the bytes that the file has for its info.                             *)
(***************************************************************************)
EXTENDS MetaInfo, TrackerResponse, Wire

CONSTANTS
  Files,     \* the torrent files, by their fields: see Document
  Replies,   \* answers of the tracker: see Answer
  Talking    \* bound: the files for which the connection is lost, or goes on
             \* to messages

VARIABLES
  file,   \* the torrent file
  phase,  \* "reading", "asking", "found", "panicked", or "refused" when the
          \* tracker's task has ended
  meta,   \* the TorrentMetaInfo, or <<>>
  urls,   \* the trackers taken from it
  reply,  \* the tracker's answer, or <<>>
  peers,  \* the peers taken from it
  hashes  \* the info hashes by which we and the remote side know the torrent

sessionVars == <<file, phase, meta, urls, reply, peers>>
vars == <<sessionVars, hashes, wireVars>>

-----------------------------------------------------------------------------
(* A file is [before, info, files, after]: the fields of the outer dict     *)
(* around its info and those of the info.  A field is a key and the tokens  *)
(* of its value; that of "files" is given by the fields of each file.       *)
DictOf(fields) ==
  <<Dict>> \o FlattenSeq([i \in DOMAIN fields |-> <<Str(fields[i][1])>> \o fields[i][2]]) \o <<End>>

InfoFields(f) ==
  IF f.files = <<>> THEN f.info
  ELSE <<<<"files", <<List>> \o FlattenSeq([i \in DOMAIN f.files |-> DictOf(f.files[i])]) \o <<End>>>>>>
         \o f.info

Source(f) == DictOf(InfoFields(f))
OuterFields(f) == f.before \o <<<<"info", Source(f)>>>> \o f.after
Document(f) == DictOf(OuterFields(f))

ASSUME FilesAssumption == \A f \in Files : Document(f) \in Seq(Tokens)

(* The values of the fields of an answer, but for its peers.                *)
Text == Strings \ Binary
Scalars ==
  ({"String"} \X Text) \cup ({"Bytes"} \X (Strings \cap Binary)) \cup ({"Integer"} \X Signed(Width))
IsFlat(fields) == DOMAIN fields \subseteq Text /\ fields \in [DOMAIN fields -> Scalars]

(* An answer is [form, peers, chunks, others]: its peers as a list of dicts *)
(* or, in the compact form, as a byte string, which may happen to be a text *)
(* or to be ragged, and its other fields; a failure has no peers.           *)
PeersValue(r) ==
  CASE r.form = "list" -> ListValue([i \in DOMAIN r.peers |-> <<"Dict", r.peers[i]>>])
    [] r.form = "text" -> StringValue(r.chunks)
    [] r.form \in {"compact", "ragged"} -> <<"Bytes", r.chunks>>
Answer(r) ==
  <<"Dict", r.others ++ IF r.form = "failure" THEN NoEntry ELSE Entry("peers", PeersValue(r))>>

ASSUME RepliesAssumption ==
  \A r \in Replies :
    /\ IsFlat(r.others) /\ "peers" \notin DOMAIN r.others
    /\ \/ /\ r.form = "list" /\ r.peers \in Seq({r.peers[i] : i \in DOMAIN r.peers})
          /\ \A i \in DOMAIN r.peers : IsFlat(r.peers[i])
       \/ r.form = "compact" /\ r.chunks \in (Strings \cap Binary \cap DOMAIN Compact) \ Ragged
       \/ r.form = "text" /\ r.chunks \in Text
       \/ r.form = "ragged" /\ r.chunks \in Strings \cap Binary \cap Ragged
       \/ r.form = "failure"

Init ==
  /\ file \in Files
  /\ phase = "reading"
  /\ meta = <<>>
  /\ urls = <<>>
  /\ reply = <<>>
  /\ peers = <<>>
  /\ hashes = <<>>
  /\ WireInit

ReadFile ==
  /\ phase = "reading"
  /\ LET parsed == Parse(Document(file))
     IN  IF parsed.status = "ok"
         THEN phase' = "asking" /\ meta' = parsed.value /\ urls' = GetUrls(parsed.value)
         ELSE phase' = "panicked" /\ UNCHANGED <<meta, urls>>
  /\ UNCHANGED <<file, reply, peers, hashes, wireVars>>

(* An answer that does not decode is InvalidInput, which ends the task.     *)
Ask ==
  /\ phase = "asking"
  /\ urls # <<>>
  /\ \E r \in Replies :
       LET parsed == ParseResponse(Encode(Answer(r)))
       IN  /\ reply' = r
           /\ phase' = CASE parsed.status = "ok" -> "found"
                         [] parsed.status = "panic" -> "panicked"
                         [] parsed.status \notin {"ok", "panic"} -> "refused"
           /\ peers' = IF parsed.status = "ok" THEN parsed.value.peers ELSE <<>>
  /\ UNCHANGED <<file, meta, urls, hashes, wireVars>>

ConnectToPeer ==
  /\ phase = "found"
  /\ peers # <<>>
  /\ Connect
  /\ hashes' = <<InfoHash(meta), Source(file)>>
  /\ UNCHANGED sessionVars

Messages ==
  \/ \E m \in WireMessages : file \in Talking /\ Write(m)
  \/ Read

Loss == file \in Talking /\ Lose

Connection ==
  /\ Handshakes(hashes[1], hashes[2]) \/ Messages \/ ReadFails \/ Loss
  /\ UNCHANGED <<sessionVars, hashes>>

Next == ReadFile \/ Ask \/ ConnectToPeer \/ Connection

Spec == Init /\ [][Next]_vars

(* Tasks that can go on do; only the tracker, the messages and the loss of  *)
(* the connection are not the program's.                                    *)
FairSpec ==
  /\ Spec
  /\ WF_vars(ConnectToPeer)
  /\ WF_vars(/\ Handshakes(hashes[1], hashes[2]) \/ Read \/ ReadFails
             /\ UNCHANGED <<sessionVars, hashes>>)

-----------------------------------------------------------------------------
(* The type invariant.                                                      *)
TypeOK ==
  /\ phase \in {"reading", "asking", "found", "panicked", "refused"}
  /\ meta = <<>> \/ DOMAIN meta = {"info", "announce", "announceList", "comment",
                                   "createdBy", "encoding"}
  /\ WireTypeOK

(* The keys of a dict are in order, and each is there once.                 *)
Ordered(fields) == \A i, j \in DOMAIN fields : i < j => Less(fields[i][1], fields[j][1])

(* They are also known.                                                     *)
Plain(fields, keys) == Ordered(fields) /\ \A i \in DOMAIN fields : fields[i][1] \in keys

FileKeys == {"length", "md5sum", "path"}
CommonKeys == {"name", PieceLength, "pieces"}
InfoKeys(f) == CommonKeys \cup IF f.files = <<>> THEN {"length", "md5sum"} ELSE {"files"}

WholeHashes(fields) ==
  \A i \in DOMAIN fields :
    fields[i][1] = "pieces" => Sha1List(fields[i][2][1][2]) = fields[i][2][1][2]

PlainInfo(f) ==
  /\ Plain(InfoFields(f), InfoKeys(f))
  /\ \A i \in DOMAIN f.files : Plain(f.files[i], FileKeys)
  /\ WholeHashes(f.info)

(* The info hash, taken of records that were written anew (info_hash), is   *)
(* that of the file's own bytes exactly for an info with no key that the    *)
(* records lack, in order and without repetition, and with whole hashes.    *)
HashIsOfTheFile ==
  phase = "asking" => (InfoHash(meta) = Source(file) <=> PlainInfo(file))

InOrder(f) ==
  /\ Ordered(OuterFields(f)) /\ Ordered(InfoFields(f))
  /\ \A i \in DOMAIN f.files : Ordered(f.files[i])

(* What only the reader of the stream refuses: no tier at all, as an empty  *)
(* list counts for a missing one, and a length below 0.                     *)
NoTiers(m) == m.announceList \in {<<>>, <<<<>>>>}
NegativeLength(tokens) ==
  \E i \in DOMAIN tokens :
    tokens[i][1] = "i" /\ tokens[i][2] < 0 /\ tokens[i - 1] \in {Str("length"), Str(PieceLength)}

(* What only the reader of values refuses: hashes that happen to be a text, *)
(* a number that is none or too large for an i64, and a key that is not     *)
(* UTF-8.                                                                   *)
TextHashes(f) == \E w \in Strings \ Binary : Contains(f.info, <<"pieces", <<Str(w)>>>>)
NotAValue(tokens) ==
  \E i \in DOMAIN tokens :
    \/ tokens[i] = NotANumber
    \/ tokens[i][1] = "i" /\ tokens[i][2] \notin Signed(Width)
    \/ tokens[i] = Dict /\ tokens[i + 1] \in {Str(w) : w \in Binary}

(* The two readers of the records, from the stream (DecodeTo) and by way of *)
(* a Value (FromValue), both run by the tests of meta_info.rs on the same   *)
(* files, read the same torrent from a file whose keys are in order, or     *)
(* both refuse it: but for the five reasons above, which are all.           *)
ReadersAgree ==
  phase = "reading" /\ InOrder(file) =>
    LET tokens == Document(file)
        value == Parse(tokens)
        streamed == DecodeMetaInfo(tokens)
    IN  /\ value.status = "ok" =>
             streamed.status = "ok" <=> ~NoTiers(value.value) /\ ~NegativeLength(tokens)
        /\ streamed.status = "ok" =>
             value.status = "ok" <=> ~TextHashes(file) /\ ~NotAValue(tokens)
        /\ value.status = "ok" /\ streamed.status = "ok" =>
             streamed = Ok(value.value, Len(tokens) + 1)

(* What was read is read again from the value it is turned into (test       *)
(* into_value), and also from the bytes that this value is written as,      *)
(* unless the hashes happen to be a text.                                   *)
WrittenIsReadBack ==
  phase = "asking" =>
    /\ MetaInfoFrom(MetaInfoValue(meta)) = Ok(meta, 0)
    /\ meta.info.pieces \in Binary => Parse(Encode(MetaInfoValue(meta))) = Ok(meta, 0)

(* Every url of the file, be it in a tier or the announce url, becomes a    *)
(* tracker, as often as the tiers have it, and once if they do not.         *)
Names(string, u) == string \in DOMAIN ParsedUrl /\ ParsedUrl[string] = u
Listings(tiers, u) ==
  UNION {{<<i, j>> : j \in {k \in DOMAIN tiers[i] : Names(tiers[i][k], u)}} : i \in DOMAIN tiers}
IsAnnounced(m, u) == m.announce # <<>> /\ Names(m.announce[1], u)

EachUrlIsTaken ==
  phase = "asking" =>
    \A u \in {ParsedUrl[w] : w \in DOMAIN ParsedUrl} :
      LET listed == Listings(TiersOf(meta), u)
      IN  Cardinality({i \in DOMAIN urls : urls[i] = u}) =
            IF listed = {} /\ IsAnnounced(meta, u) THEN 1 ELSE Cardinality(listed)

Has(fields, key, variant) == key \in DOMAIN fields /\ fields[key][1] = variant

IsPeer(p) == Has(p, "ip", "String") /\ Has(p, "port", "Integer")
ListedPeer(p) == Peer(p["ip"][2], p["port"][2] % TwoTo[Width \div 4])

NamesPeers(r) ==
  r.form = "compact" \/ (r.form = "list" /\ \A i \in DOMAIN r.peers : IsPeer(r.peers[i]))
NamedPeers(r) ==
  IF r.form = "compact" THEN Compact[r.chunks]
  ELSE [i \in DOMAIN r.peers |-> ListedPeer(r.peers[i])]

IsWhole(others) ==
  /\ \A key \in {"complete", "incomplete", "interval"} : Has(others, key, "Integer")
  /\ MinInterval \in DOMAIN others => Has(others, MinInterval, "Integer")

(* The peers that a tracker names, in either form, are those that are taken *)
(* from its answer, their ports cut to 16 bits.  The answer is refused as a *)
(* whole if the compact form happens to be a text, if one listed peer lacks *)
(* its ip or port, or if the interval or one of the counts, which nothing   *)
(* uses, is not there; a compact form with a short end is a panic, whatever *)
(* else the answer has.                                                     *)
PeersInEitherForm ==
  reply # <<>> =>
    /\ phase = "found" <=> NamesPeers(reply) /\ IsWhole(reply.others)
    /\ phase = "panicked" <=> reply.form = "ragged"
    /\ phase = "found" => peers = NamedPeers(reply)

(* A peer of the torrent that the tracker names is connected, unless the    *)
(* connection breaks, exactly if the info is plain.                         *)
PeerOfTheTorrentConnects ==
  (phase = "found" /\ peers # <<>>) ~>
    \/ us = "open" /\ them \in {"open", "panicked"} /\ PlainInfo(file)
    \/ lost /\ (file \in Talking \/ ~PlainInfo(file))
=============================================================================
