------------------------------ MODULE MetaInfo ------------------------------
(***************************************************************************)
(* A torrent file as records (base/meta_info.rs): read by way of a Value,   *)
(* as the program does, or from the stream, written back, and what is       *)
(* derived from it.  SHA-1 is taken to be injective: a hash stands for what *)
(* was hashed.                                                              *)
(***************************************************************************)
EXTENDS Bencode

CONSTANTS
  Whole,    \* per string of concatenated hashes: the string up to its last
            \* full 20 bytes
  ParsedUrl \* per string that is a url: the url

(* The names of the fields are texts.                                       *)
PieceLength == "piece length"
CreatedBy == "created by"
Fields == {"announce", "announce-list", "comment", CreatedBy, "encoding", "files", "info",
           "length", "md5sum", "name", "path", PieceLength, "pieces"}

ASSUME MetaInfoAssumption ==
  /\ Fields \subseteq Strings \ Binary
  /\ \A w \in DOMAIN Whole : Whole[w] \in Strings \ DOMAIN Whole

(* sha1_list drops what follows the last full hash, and into_value puts the *)
(* hashes together again.                                                   *)
Sha1List(w) == IF w \in DOMAIN Whole THEN Whole[w] ELSE w

HashesFrom(v) == IF v[1] = "Bytes" THEN Ok(Sha1List(v[2]), 0) ELSE Malformed(0)
HashesValue(w) == <<"Bytes", w>>

FileInfo(length, md5sum, path) == [length |-> length, md5sum |-> md5sum, path |-> path]
Named(name, pieceLength, pieces) ==
  [name |-> name, pieceLength |-> pieceLength, pieces |-> pieces]
SingleInfo(length, md5sum, named) ==
  [kind |-> "single", length |-> length, md5sum |-> md5sum,
   name |-> named.name, pieceLength |-> named.pieceLength, pieces |-> named.pieces]
MultiInfo(files, named) ==
  [kind |-> "multi", files |-> files,
   name |-> named.name, pieceLength |-> named.pieceLength, pieces |-> named.pieces]
TorrentMetaInfo(info, announce, announceList, comment, createdBy, encoding) ==
  [info |-> info, announce |-> announce, announceList |-> announceList,
   comment |-> comment, createdBy |-> createdBy, encoding |-> encoding]

-----------------------------------------------------------------------------
(* FromValue.  The first field that fails decides.                          *)
U64From(v) == IntegerFrom(v, Width)
StringsFrom(v) == ListFrom(v, StringFrom)

FileInfoFrom(v) ==
  Then(GetField(v, "length", U64From), LAMBDA length :
    Then(GetOptionField(v, "md5sum", StringFrom), LAMBDA md5sum :
      Then(GetField(v, "path", StringsFrom), LAMBDA path :
        Ok(FileInfo(length.value, md5sum.value, path.value), 0))))

NamedFrom(v) ==
  Then(GetField(v, "name", StringFrom), LAMBDA name :
    Then(GetField(v, PieceLength, U64From), LAMBDA pieceLength :
      Then(GetField(v, "pieces", HashesFrom), LAMBDA pieces :
        Ok(Named(name.value, pieceLength.value, pieces.value), 0))))

InfoFrom(v) ==
  IF v[1] # "Dict" THEN Malformed(0)
  ELSE IF "files" \notin DOMAIN v[2]
  THEN Then(GetField(v, "length", U64From), LAMBDA length :
         Then(GetOptionField(v, "md5sum", StringFrom), LAMBDA md5sum :
           Then(NamedFrom(v), LAMBDA named :
             Ok(SingleInfo(length.value, md5sum.value, named.value), 0))))
  ELSE Then(GetField(v, "files", LAMBDA f : ListFrom(f, FileInfoFrom)), LAMBDA files :
         Then(NamedFrom(v), LAMBDA named : Ok(MultiInfo(files.value, named.value), 0)))

MetaInfoFrom(v) ==
  LET Option(key) == GetOptionField(v, key, StringFrom)
  IN  Then(GetField(v, "info", InfoFrom), LAMBDA info :
        Then(Option("announce"), LAMBDA announce :
          Then(GetOptionField(v, "announce-list", LAMBDA l : ListFrom(l, StringsFrom)), LAMBDA tiers :
            Then(Option("comment"), LAMBDA comment :
              Then(Option(CreatedBy), LAMBDA createdBy :
                Then(Option("encoding"), LAMBDA encoding :
                  Ok(TorrentMetaInfo(info.value, announce.value, tiers.value, comment.value,
                                     createdBy.value, encoding.value), 0)))))))

(* TorrentMetaInfo::parse, where an error is a panic; what follows the      *)
(* first value is not looked at.                                            *)
Parse(s) == Then(DecodeValue(s, 1), LAMBDA r : MetaInfoFrom(r.value))

-----------------------------------------------------------------------------
(* DecodeTo.                                                                *)
DecodeStr(s) == [q \in Positions(s) |-> ReadStr(s, q)]
DecodeU64(s) == [q \in Positions(s) |-> ReadInteger(s, q, Unsigned(Width))]
DecodeHashes(s) ==
  [q \in Positions(s) |-> Then(ReadByteString(s, q), LAMBDA r : Ok(Sha1List(r.value), r.at))]
DecodeStrings(s) == [q \in Positions(s) |-> ReadList(s, q, DecodeStr(s))]

(* Mutant of DecodeFileInfo: "path" is asked for before "md5sum".           *)
DecodeFileInfoPathFirst(s) ==
  [p \in Positions(s) |-> ReadStruct(s, p, [q \in Positions(s) |->
    Then(ReadField(s, q, "length", DecodeU64(s)), LAMBDA length :
      Then(ReadField(s, length.at, "path", DecodeStrings(s)), LAMBDA path :
        Then(ReadOption(s, path.at, "md5sum", DecodeStr(s)), LAMBDA md5sum :
          Ok(FileInfo(length.value, md5sum.value, path.value), md5sum.at))))])]

DecodeFileInfo(s) ==
  [p \in Positions(s) |-> ReadStruct(s, p, [q \in Positions(s) |->
    Then(ReadField(s, q, "length", DecodeU64(s)), LAMBDA length :
      Then(ReadOption(s, length.at, "md5sum", DecodeStr(s)), LAMBDA md5sum :
        Then(ReadField(s, md5sum.at, "path", DecodeStrings(s)), LAMBDA path :
          Ok(FileInfo(length.value, md5sum.value, path.value), path.at))))])]

DecodeFiles(s) == [q \in Positions(s) |-> ReadList(s, q, DecodeFileInfo(s))]

DecodeNamed(s, q) ==
  Then(ReadField(s, q, "name", DecodeStr(s)), LAMBDA name :
    Then(ReadField(s, name.at, PieceLength, DecodeU64(s)), LAMBDA pieceLength :
      Then(ReadField(s, pieceLength.at, "pieces", DecodeHashes(s)), LAMBDA pieces :
        Ok(Named(name.value, pieceLength.value, pieces.value), pieces.at))))

(* Whatever has gone wrong with "files", the info is read on as one of a    *)
(* single file, from where that has left the cursor.                        *)
DecodeInfo(s) ==
  [p \in Positions(s) |-> ReadStruct(s, p, [q \in Positions(s) |->
    LET files == ReadField(s, q, "files", DecodeFiles(s))
    IN  IF files.status = "ok"
        THEN Then(DecodeNamed(s, files.at), LAMBDA named :
               Ok(MultiInfo(files.value, named.value), named.at))
        ELSE Then(ReadField(s, files.at, "length", DecodeU64(s)), LAMBDA length :
               Then(ReadOption(s, length.at, "md5sum", DecodeStr(s)), LAMBDA md5sum :
                 Then(DecodeNamed(s, md5sum.at), LAMBDA named :
                   Ok(SingleInfo(length.value, md5sum.value, named.value), named.at))))])]

DecodeMetaInfo(s) ==
  ReadStruct(s, 1, [q \in Positions(s) |->
    Then(ReadOption(s, q, "announce", DecodeStr(s)), LAMBDA announce :
      Then(ReadFieldCombine(s, announce.at, "announce-list", DecodeStrings(s)),
           LAMBDA tiers :
        Then(ReadOption(s, tiers.at, "comment", DecodeStr(s)), LAMBDA comment :
          Then(ReadOption(s, comment.at, CreatedBy, DecodeStr(s)), LAMBDA createdBy :
            Then(ReadOption(s, createdBy.at, "encoding", DecodeStr(s)), LAMBDA encoding :
              Then(ReadField(s, encoding.at, "info", DecodeInfo(s)), LAMBDA info :
                Ok(TorrentMetaInfo(info.value, announce.value, tiers.value, comment.value,
                                   createdBy.value, encoding.value), info.at)))))))])

-----------------------------------------------------------------------------
(* IntoValue.                                                               *)
StringsValue(strings) == ListValue(StringValues(strings))
TierValues(tiers) == [i \in DOMAIN tiers |-> StringsValue(tiers[i])]

(* Mutant of FileInfoValue: md5sum is not written.                          *)
FileInfoValueWithoutSum(f) ==
  <<"Dict", Entry("length", IntegerValue(f.length)) ++ Entry("path", StringsValue(f.path))>>

FileInfoValue(f) ==
  <<"Dict", Entry("length", IntegerValue(f.length))
              ++ OptionEntry("md5sum", StringValues(f.md5sum))
              ++ Entry("path", StringsValue(f.path))>>

InfoValue(info) ==
  <<"Dict", Entry("name", StringValue(info.name))
              ++ Entry(PieceLength, IntegerValue(info.pieceLength))
              ++ Entry("pieces", HashesValue(info.pieces))
              ++ IF info.kind = "multi"
                 THEN Entry("files", ListValue([i \in DOMAIN info.files |-> FileInfoValue(info.files[i])]))
                 ELSE Entry("length", IntegerValue(info.length))
                        ++ OptionEntry("md5sum", StringValues(info.md5sum))>>

MetaInfoValue(m) ==
  <<"Dict", OptionEntry("announce", StringValues(m.announce))
              ++ OptionEntry("announce-list",
                          [i \in DOMAIN m.announceList |-> ListValue(TierValues(m.announceList[i]))])
              ++ OptionEntry("comment", StringValues(m.comment))
              ++ OptionEntry(CreatedBy, StringValues(m.createdBy))
              ++ OptionEntry("encoding", StringValues(m.encoding))
              ++ Entry("info", InfoValue(m.info))>>

-----------------------------------------------------------------------------
(* The info hash is that of the info written anew, not of the file's bytes. *)
InfoHash(m) == Encode(InfoValue(m.info))

(* Those of the strings that are urls, in their order.                      *)
UrlsOf(strings) ==
  FlattenSeq([i \in DOMAIN strings |->
    IF strings[i] \in DOMAIN ParsedUrl THEN <<ParsedUrl[strings[i]]>> ELSE <<>>])

TiersOf(m) == IF m.announceList = <<>> THEN <<>> ELSE m.announceList[1]
ListedUrls(tiers) == FlattenSeq([i \in DOMAIN tiers |-> UrlsOf(tiers[i])])

(* Mutant of GetUrls: the announce url is not looked for in the tiers.      *)
GetAllUrls(m) == ListedUrls(TiersOf(m)) \o UrlsOf(m.announce)

(* The urls that parse, tier by tier, and the announce url behind them      *)
(* unless it is among them.                                                 *)
GetUrls(m) ==
  LET listed == ListedUrls(TiersOf(m))
      announce == UrlsOf(m.announce)
  IN  IF \E i \in DOMAIN listed : announce # <<>> /\ listed[i] = announce[1]
      THEN listed
      ELSE listed \o announce
=============================================================================
