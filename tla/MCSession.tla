------------------------------ MODULE MCSession ------------------------------
(***************************************************************************)
(* Torrent files, answers and messages with which TLC checks Session.       *)
(***************************************************************************)
EXTENDS Session

(* In the order of their bytes; the last ones start with a byte that no     *)
(* text has.                                                                *)
SomeWords ==
  <<"announce", "announce-list", "bad url", "c1 text", "comment", "complete", "created by",
    "encoding", "files", "h text", "http://a", "http://b", "incomplete", "info", "interval",
    "ip", "length", "md5sum", "min interval", "name", "path", "peers", "piece length", "pieces",
    "port", "private", "~c1", "~c1 short", "~h", "~h short">>
SomeBinary == {"~c1", "~c1 short", "~h", "~h short"}
WholePart == [w \in {"~h short"} |-> "~h"]
SomeUrls == [w \in {"http://a", "http://b"} |-> w]
Chunks == [w \in {"c1 text", "~c1"} |-> <<Peer("http://a", 1)>>]
ShortChunks == {"~c1 short"}

ListOf(words) == <<List>> \o [i \in DOMAIN words |-> Str(words[i])] \o <<End>>

(* A field left out, out of order, repeated with another value, unknown, of *)
(* another type or not a number.                                            *)
Varied(fields) ==
  {fields}
    \cup {RemoveAt(fields, i) : i \in DOMAIN fields}
    \cup {[fields EXCEPT ![i] = fields[i + 1], ![i + 1] = fields[i]] : i \in 1..(Len(fields) - 1)}
    \cup {InsertAt(fields, i, <<fields[i][1], tokens>>) :
            i \in DOMAIN fields, tokens \in {<<Num(2)>>, <<Str("~h")>>, ListOf(<<"path">>)}}
    \cup {Append(fields, <<"private", tokens>>) :
            tokens \in {<<Num(-1)>>, <<Num(200)>>, <<NotANumber>>,
                         <<Dict, Str("~h"), List, End, End>>}}
    \cup {[fields EXCEPT ![i] = <<@[1], tokens>>] :
            i \in DOMAIN fields,
            tokens \in {<<Num(-3)>>, <<Num(200)>>, <<NotANumber>>, <<Str("h text")>>,
                        <<Str("~h short")>>, <<Dict, End>>}}

Single ==
  <<<<"length", <<Num(5)>>>>, <<"md5sum", <<Str("h text")>>>>, <<"name", <<Str("name")>>>>,
    <<"piece length", <<Num(4)>>>>, <<"pieces", <<Str("~h")>>>>>>
Multi == SubSeq(Single, 3, 5)
OneFile == <<<<"length", <<Num(3)>>>>, <<"md5sum", <<Str("h text")>>>>,
             <<"path", ListOf(<<"path", "name">>)>>>>
OtherFile == <<<<"length", <<Num(0)>>>>, <<"path", ListOf(<<"name">>)>>>>

Outer ==
  <<<<"announce", <<Str("http://a")>>>>,
    <<"announce-list", <<List>> \o ListOf(<<"http://b", "bad url">>) \o ListOf(<<"http://a">>) \o <<End>>>>,
    <<"comment", <<Str("name")>>>>, <<"created by", <<Str("name")>>>>,
    <<"encoding", <<Str("name")>>>>>>

(* The announce url is not among the tiers.                                 *)
OneUrl ==
  <<<<"announce", <<Str("http://a")>>>>,
    <<"announce-list", <<List>> \o ListOf(<<"http://b", "http://b">>) \o <<End>>>>>>

DocumentOf(before, info, files, after) ==
  [before |-> before, info |-> info, files |-> files, after |-> after]

PlainFile == DocumentOf(Outer, Multi, <<OneFile, OtherFile>>, <<>>)

SomeFiles ==
  {PlainFile}
    \cup {DocumentOf(Outer, i, <<>>, <<>>) : i \in Varied(Single)}
    \cup {DocumentOf(Outer, i, <<OneFile>>, <<>>) : i \in Varied(Multi)}
    \cup {DocumentOf(Outer, Multi, <<f, OneFile>>, <<>>) : f \in Varied(OneFile)}
    \cup {DocumentOf(o, Single, <<>>, <<>>) : o \in Varied(Outer)}
    \cup {DocumentOf(Outer, Multi, <<OneFile>>, <<<<"private", <<NotANumber>>>>>>)}
    \cup {DocumentOf(<<>>, Single, <<>>, Outer), DocumentOf(OneUrl, Single, <<>>, <<>>)}
OneTalks == {PlainFile}

(* The answers of the tracker.                                              *)
Number(key, n) == Entry(key, <<"Integer", n>>)
PeerOf(ip, port) == Entry("ip", StringValue(ip)) ++ Number("port", port)
Known == <<PeerOf("http://a", 1), PeerOf("http://b", 3)>>
Whole3 == Number("complete", 1) ++ Number("incomplete", 0) ++ Number("interval", 1)
Without(fields, key) == [k \in DOMAIN fields \ {key} |-> fields[k]]

(* One of the fields is missing, of another type, or more are there.        *)
SomeOthers ==
  {Whole3, Whole3 ++ Number(MinInterval, -1), Whole3 ++ Entry(MinInterval, StringValue("name")),
   Whole3 ++ Entry("private", <<"Bytes", "~h">>)}
    \cup {Without(Whole3, key) : key \in DOMAIN Whole3}
    \cup {Entry(key, StringValue("name")) ++ Whole3 : key \in DOMAIN Whole3}

AnswerOf(form, listed, chunks, others) ==
  [form |-> form, peers |-> listed, chunks |-> chunks, others |-> others]
ListAnswer(listed) == AnswerOf("list", listed, "~c1", Whole3)
SomeReplies ==
  {ListAnswer(SubSeq(Known, 1, n)) : n \in 0..2}
    \cup {ListAnswer(<<PeerOf("http://b", 6)>>), ListAnswer(<<PeerOf("http://b", -1)>>)}
    \cup {ListAnswer(<<Known[1], Without(Known[2], key)>>) : key \in {"ip", "port"}}
    \cup {ListAnswer(<<Entry("ip", <<"Bytes", "~h">>) ++ Known[1], Known[2]>>),
          ListAnswer(<<Entry("port", StringValue("name")) ++ Known[1]>>)}
    \cup {AnswerOf("compact", <<>>, "~c1", others) : others \in SomeOthers}
    \cup {AnswerOf("ragged", <<>>, "~c1 short", others) : others \in {Whole3, NoEntry}}
    \cup {AnswerOf("text", <<>>, "c1 text", Whole3), AnswerOf("failure", <<>>, "~c1", Whole3)}

SomeProtocol == <<66, 84>>
SomeMessages ==
  {<<"KeepAlive">>, <<"Choke">>, <<"UnChoke">>, <<"Interested">>, <<"NotInterested">>, <<"Port">>,
   <<"Have", 8>>, <<"Bitfield", {0, 7, 9}>>, <<"Request", 258, 16384, 65535>>,
   <<"Cancel", 258, 16384, 65535>>, <<"Piece", 1, 16384, <<0, 0, 1, 2, 9>>>>, <<"Piece", 1, 0, <<5>>>>}
=============================================================================
