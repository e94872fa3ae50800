------------------------------- MODULE Bencode -------------------------------
(***************************************************************************)
(* Reading and writing bencode (bencode/decode.rs, encode.rs, value.rs).    *)
(* A stream is a sequence of tokens: the opening of a dict or a list, an    *)
(* end, a number and a byte string with its length prefix.  A position is   *)
(* the number of the next token; 0 stands for one inside of a token, where  *)
(* an expectation that failed has left the cursor and where every further   *)
(* read fails, as it does behind the last token.                            *)
(***************************************************************************)
EXTENDS Integers, Sequences, SequencesExt

CONSTANTS
  Words,   \* the byte strings of the streams, in the order of their bytes
  Binary,  \* those of them that are not UTF-8
  Width    \* 64: bits of i64, u64 and usize

Strings == {Words[i] : i \in DOMAIN Words}

ASSUME BencodeAssumption ==
  /\ Words \in Seq(Strings)
  /\ \A i, j \in DOMAIN Words : Words[i] = Words[j] => i = j
  /\ Width \in Nat \ {0}

TwoTo[n \in Nat] == IF n = 0 THEN 1 ELSE 2 * TwoTo[n - 1]

Rank(w) == CHOOSE i \in DOMAIN Words : Words[i] = w
Less(v, w) == Rank(v) < Rank(w)

Signed(bits) == -TwoTo[bits - 1]..(TwoTo[bits - 1] - 1)
Unsigned(bits) == 0..(TwoTo[bits] - 1)

Dict == <<"d">>
List == <<"l">>
End == <<"e">>
Num(n) == <<"i", n>>
NotANumber == <<"-">>  \* as "i-0e", "i03e" or "i1-2e"
Str(w) == <<"s", w>>
Tokens == {Dict, List, End, NotANumber} \cup ({"i"} \X Int) \cup ({"s"} \X Strings)

(* What a reader returns: Ok with a value, MissingField, or another error,  *)
(* which nothing tells apart from the rest, each with the position that it  *)
(* leaves behind.                                                           *)
Ok(v, q) == [status |-> "ok", value |-> v, at |-> q]
Missing(q) == [status |-> "missing", value |-> <<>>, at |-> q]
Malformed(q) == [status |-> "malformed", value |-> <<>>, at |-> q]

(* The operator "?".                                                        *)
Then(result, Continue(_)) == IF result.status = "ok" THEN Continue(result) ELSE result

-----------------------------------------------------------------------------
PositionsFrom(s, p) == p..(Len(s) + 1)
Positions(s) == PositionsFrom(s, 0)
Peek(s, q) == IF q \in DOMAIN s THEN s[q] ELSE <<"eof">>

(* "d", "l" and "e" are one byte long and are gone when they are not what   *)
(* was expected.                                                            *)
Expect(s, q, token) ==
  IF Peek(s, q) = token THEN Ok(<<>>, q + 1)
  ELSE Malformed(IF Peek(s, q) \in {Dict, List, End} THEN q + 1 ELSE 0)

ReadByteString(s, q) ==
  IF Peek(s, q)[1] = "s" THEN Ok(s[q][2], q + 1) ELSE Malformed(q)

ReadStr(s, q) ==
  LET bytes == ReadByteString(s, q)
  IN  IF bytes.status = "ok" /\ bytes.value \in Binary THEN Malformed(bytes.at) ELSE bytes

ReadInteger(s, q, range) ==
  IF Peek(s, q)[1] # "i" THEN Malformed(IF Peek(s, q) \in {Dict, List, End} THEN q + 1 ELSE 0)
  ELSE IF s[q][2] \in range THEN Ok(s[q][2], q + 1)
  ELSE Malformed(0)

(* skip_item takes any number and any string.  The modes are the rest of a  *)
(* list and the rest of a dict.                                             *)
Skip(s) ==
  LET skip[mode \in {"item", "list", "dict"}, q \in Positions(s)] ==
        LET Item(then) == Then(skip["item", q], LAMBDA r : skip[then, r.at])
        IN  CASE mode = "item" /\ Peek(s, q) = Dict -> skip["dict", q + 1]
              [] mode = "item" /\ Peek(s, q) = List -> skip["list", q + 1]
              [] mode = "item" /\ Peek(s, q)[1] \in {"i", "s", "-"} -> Ok(<<>>, q + 1)
              [] mode = "item" /\ Peek(s, q)[1] \in {"e", "eof"} -> Malformed(q)
              [] mode # "item" /\ Peek(s, q) = End -> Ok(<<>>, q + 1)
              [] mode = "list" /\ Peek(s, q) # End -> Item("list")
              [] mode = "dict" /\ Peek(s, q) # End ->
                   Then(skip["item", q], LAMBDA r :
                     Then(skip["item", r.at], LAMBDA t : skip["dict", t.at]))
  IN  skip

SkipItem(s, q) == Skip(s)["item", q]

(* The readers of parts are given as functions from the position to what is *)
(* read there.                                                              *)
Items(s, p, decode) ==
  LET rest[q \in PositionsFrom(s, p)] ==
        IF Peek(s, q) = End THEN Ok(<<>>, q + 1)
        ELSE Then(decode[q], LAMBDA item :
               Then(rest[item.at], LAMBDA tail : Ok(<<item.value>> \o tail.value, tail.at)))
  IN  rest[p]

ReadList(s, p, decode) == Then(Expect(s, p, List), LAMBDA r : Items(s, r.at, decode))

(* A map, and what another adds to it under keys that it lacks.             *)
NoEntry == [key \in {} |-> {}]
Entry(key, v) == [k \in {key} |-> v]
f ++ g == [k \in DOMAIN f \cup DOMAIN g |-> IF k \in DOMAIN f THEN f[k] ELSE g[k]]

(* Keys may come in any order, and the last of equal ones counts.           *)
Entries(s, p, decode) ==
  LET rest[q \in PositionsFrom(s, p)] ==
        IF Peek(s, q) = End THEN Ok(NoEntry, q + 1)
        ELSE Then(ReadStr(s, q), LAMBDA key :
               Then(decode[key.at], LAMBDA item :
                 Then(rest[item.at], LAMBDA tail :
                   Ok(tail.value ++ Entry(key.value, item.value), tail.at))))
  IN  rest[p]

ReadDict(s, p, decode) == Then(Expect(s, p, Dict), LAMBDA r : Entries(s, r.at, decode))

-----------------------------------------------------------------------------
(* Structs, whose fields are asked for in lexicographical order.            *)
ReadStruct(s, p, fields) ==
  Then(Expect(s, p, Dict), LAMBDA r :
    Then(fields[r.at], LAMBDA f :
      Then(Skip(s)["dict", f.at], LAMBDA e : Ok(f.value, e.at))))

ReadField(s, p, name, decode) ==
  LET seek[q \in Positions(s)] ==
        IF Peek(s, q) = End THEN Missing(p)
        ELSE Then(ReadStr(s, q), LAMBDA key :
               IF key.value = name THEN decode[key.at]
               ELSE IF Less(key.value, name) THEN Then(SkipItem(s, key.at), LAMBDA r : seek[r.at])
               ELSE Missing(p))
  IN  seek[p]

(* An option is a sequence of at most one value.                            *)
ReadOption(s, p, name, decode) ==
  LET field == ReadField(s, p, name, decode)
  IN  IF field.status = "missing" THEN Ok(<<>>, field.at)
      ELSE Then(field, LAMBDA f : Ok(<<f.value>>, f.at))

(* "Combine the fields with the same name"; none, or only empty ones, is a  *)
(* field that is missing.                                                   *)
ReadFieldCombine(s, p, name, decode) ==
  LET gather[q \in Positions(s), back \in Positions(s)] ==
        IF Peek(s, q) = End THEN Ok(<<>>, back)
        ELSE Then(ReadStr(s, q), LAMBDA key :
               IF key.value = name
               THEN Then(ReadList(s, key.at, decode), LAMBDA l :
                      Then(gather[l.at, l.at], LAMBDA tail :
                        Ok(l.value \o tail.value, tail.at)))
               ELSE IF Less(key.value, name)
               THEN Then(SkipItem(s, key.at), LAMBDA r : gather[r.at, back])
               ELSE Ok(<<>>, back))
  IN  Then(gather[p, p], LAMBDA r :
        IF r.value = <<>> THEN Missing(r.at) ELSE Ok(<<r.value>>, r.at))

-----------------------------------------------------------------------------
(* Values, each with its variant.                                           *)
ReadValue(s, p, decode) ==
  LET As(variant, result) == Then(result, LAMBDA r : Ok(<<variant, r.value>>, r.at))
      bytes == ReadByteString(s, p)
  IN  CASE Peek(s, p) = Dict -> As("Dict", ReadDict(s, p, decode))
        [] Peek(s, p) = List -> As("List", ReadList(s, p, decode))
        [] Peek(s, p)[1] = "s" -> As(IF bytes.value \in Binary THEN "Bytes" ELSE "String", bytes)
        [] Peek(s, p) \notin {Dict, List} /\ Peek(s, p)[1] # "s" ->
             As("Integer", ReadInteger(s, p, Signed(Width)))

Value(s) ==
  LET decode[p \in Positions(s)] == ReadValue(s, p, decode)
  IN  decode

DecodeValue(s, p) == Value(s)[p]

(* The entries of a dict are written in the order of their keys, and what   *)
(* values contain by Part.                                                  *)
EncodeWith(v, Part(_)) ==
  LET Item(w) == IF w \in DOMAIN v[2] THEN <<Str(w)>> \o Part(v[2][w]) ELSE <<>>
  IN  CASE v[1] = "Integer" -> <<Num(v[2])>>
        [] v[1] \in {"Bytes", "String"} -> <<Str(v[2])>>
        [] v[1] = "List" ->
             <<List>> \o FlattenSeq([i \in DOMAIN v[2] |-> Part(v[2][i])]) \o <<End>>
        [] v[1] = "Dict" ->
             <<Dict>> \o FlattenSeq([i \in DOMAIN Words |-> Item(Words[i])]) \o <<End>>

(* Bound: values that nest no deeper than those of a torrent, where a word  *)
(* in the path of a file lies in a list in a dict in a list in a dict in a  *)
(* dict.                                                                    *)
Encode1(v) == EncodeWith(v, LAMBDA w : <<>>)
Encode2(v) == EncodeWith(v, Encode1)
Encode3(v) == EncodeWith(v, Encode2)
Encode4(v) == EncodeWith(v, Encode3)
Encode5(v) == EncodeWith(v, Encode4)
Encode(v) == EncodeWith(v, Encode5)

-----------------------------------------------------------------------------
(* get_field and get_option_field of a value, and what FromValue makes of   *)
(* the value that is found.                                                 *)
GetValue(v, key) ==
  IF v[1] # "Dict" THEN Malformed(0)
  ELSE IF key \in DOMAIN v[2] THEN Ok(v[2][key], 0)
  ELSE Missing(0)

GetOptionValue(v, key) ==
  IF v[1] # "Dict" THEN Malformed(0)
  ELSE Ok(IF key \in DOMAIN v[2] THEN <<v[2][key]>> ELSE <<>>, 0)

GetField(v, key, From(_)) == Then(GetValue(v, key), LAMBDA f : From(f.value))

GetOptionField(v, key, From(_)) ==
  Then(GetOptionValue(v, key), LAMBDA f :
    IF f.value = <<>> THEN f
    ELSE Then(From(f.value[1]), LAMBDA g : Ok(<<g.value>>, 0)))

StringFrom(v) ==
  IF v[1] = "String" \/ (v[1] = "Bytes" /\ v[2] \notin Binary) THEN Ok(v[2], 0)
  ELSE Malformed(0)

(* "*i as Self": the low bits.                                              *)
IntegerFrom(v, bits) == IF v[1] = "Integer" THEN Ok(v[2] % TwoTo[bits], 0) ELSE Malformed(0)

(* The values of a list, or the first error among them.                     *)
Collected(results) ==
  LET rest[i \in 1..(Len(results) + 1)] ==
        IF i > Len(results) THEN Ok(<<>>, 0)
        ELSE Then(results[i], LAMBDA item :
               Then(rest[i + 1], LAMBDA tail : Ok(<<item.value>> \o tail.value, 0)))
  IN  rest

Collect(results) == Collected(results)[1]

ListFrom(v, From(_)) ==
  IF v[1] = "List" THEN Collect([i \in DOMAIN v[2] |-> From(v[2][i])]) ELSE Malformed(0)

(* Mutant of IntegerValue: the sign is not restored.                        *)
UnsignedValue(n) == <<"Integer", n>>

(* "self as i64".                                                           *)
IntegerValue(n) == <<"Integer", IF n \in Signed(Width) THEN n ELSE n - TwoTo[Width]>>
StringValue(w) == <<"String", w>>
ListValue(values) == <<"List", values>>
StringValues(strings) == [i \in DOMAIN strings |-> StringValue(strings[i])]

(* An option that is None leaves no key behind.                             *)
OptionEntry(key, values) == IF values = <<>> THEN NoEntry ELSE Entry(key, values[1])
=============================================================================
