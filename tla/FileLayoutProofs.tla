-------------------------- MODULE FileLayoutProofs --------------------------
(***************************************************************************)
(* What search_index and search_ptrs return for every layout: the recursive *)
(* functions have the values that their equations say, and the segments of  *)
(* a range are the bytes of the range.                                      *)
(***************************************************************************)
EXTENDS FileLayout, Induction, SequenceTheorems

LEMMA OffsetsType ==
  /\ NumFiles \in Nat \ {0}
  /\ \A i \in 0..NumFiles : Offset(i) \in Nat
  /\ Offset(0) = 0
  /\ TotalLength = Offset(NumFiles) /\ TotalLength \in Nat \ {0}
BY LayoutAssumption DEF NumFiles, Offset, TotalLength

LEMMA OffsetsRise ==
  \A i, j \in 0..NumFiles : i <= j => Offset(i) <= Offset(j)
<1> DEFINE Rising == {d \in Nat : \A i \in 0..NumFiles :
                        i + d \in 0..NumFiles => Offset(i) <= Offset(i + d)}
<1>1. 0 \in Rising
  BY OffsetsType
<1>2. ASSUME NEW d \in Nat, d \in Rising PROVE d + 1 \in Rising
  <2>1. ASSUME NEW i \in 0..NumFiles, i + (d + 1) \in 0..NumFiles
        PROVE  Offset(i) <= Offset(i + (d + 1))
    <3>1. i + d \in 0..NumFiles /\ i + d + 1 \in 1..NumFiles
      BY <2>1, OffsetsType
    <3>2. Offset(i) <= Offset(i + d)
      BY <1>2, <3>1
    <3>3. Offset(i + d) <= Offset(i + d + 1)
      BY <3>1, OffsetsType, LayoutAssumption DEF Offset, NumFiles
    <3>4. i + d + 1 = i + (d + 1)
      BY <2>1, OffsetsType
    <3> QED  BY <2>1, <3>1, <3>2, <3>3, <3>4, OffsetsType
  <2> QED  BY <2>1
<1> HIDE DEF Rising
<1>3. Nat \subseteq Rising
  BY <1>1, <1>2, SetInduction
<1> SUFFICES ASSUME NEW i \in 0..NumFiles, NEW j \in 0..NumFiles, i <= j
             PROVE  Offset(i) <= Offset(j)
  OBVIOUS
<1>4. j - i \in Nat /\ i + (j - i) = j
  BY OffsetsType
<1> QED  BY <1>3, <1>4 DEF Rising
-----------------------------------------------------------------------------
(* search_index.                                                            *)
Window == [left : 0..(NumFiles + 1), right : -1..NumFiles]

Mid(r) == (r.left + r.right) \div 2
LeftOf(r) == [r EXCEPT !.right = Mid(r) - 1]
RightOf(r) == [r EXCEPT !.left = Mid(r) + 1]

(* One turn of the loop, whose further turns return what g says.            *)
Halve(offset, g, r) ==
  IF r.left > r.right THEN r.right
  ELSE IF offset = Offset(Mid(r)) THEN Mid(r)
  ELSE IF offset < Offset(Mid(r)) THEN g[LeftOf(r)]
  ELSE g[RightOf(r)]

LEMMA Halves ==
  ASSUME NEW r \in Window, r.left <= r.right
  PROVE  /\ Mid(r) \in r.left..r.right /\ Mid(r) \in 0..NumFiles
         /\ LeftOf(r) \in Window /\ LeftOf(r).left = r.left /\ LeftOf(r).right = Mid(r) - 1
         /\ RightOf(r) \in Window /\ RightOf(r).left = Mid(r) + 1 /\ RightOf(r).right = r.right
<1>1. NumFiles \in Nat /\ r.left \in 0..(NumFiles + 1) /\ r.right \in -1..NumFiles
  BY OffsetsType DEF Window
<1>2. Mid(r) \in r.left..r.right
  BY <1>1 DEF Mid
<1>3. LeftOf(r) = [left |-> r.left, right |-> Mid(r) - 1]
  BY DEF LeftOf, Window
<1>4. RightOf(r) = [left |-> Mid(r) + 1, right |-> r.right]
  BY DEF RightOf, Window
<1> QED  BY <1>1, <1>2, <1>3, <1>4 DEF Window

(* There is a function with the values that the halving asks for: it is     *)
(* found range by range, the short ones first.                              *)
LEMMA SearchExists ==
  ASSUME NEW offset
  PROVE  \E g : g = [r \in Window |-> Halve(offset, g, r)]
<1> DEFINE Upto(n) == {r \in Window : r.right - r.left + 1 <= n}
           Lengths == {n \in Nat : \E g : \A r \in Upto(n) : g[r] = Halve(offset, g, r)}
<1>1. 0 \in Lengths
  <2> DEFINE g == [r \in Window |-> r.right]
  <2>1. \A r \in Upto(0) : r.left > r.right
    BY OffsetsType DEF Window
  <2>2. \A r \in Upto(0) : g[r] = Halve(offset, g, r)
    BY <2>1 DEF Halve
  <2> QED  BY <2>2
<1>2. ASSUME NEW n \in Nat, n \in Lengths PROVE n + 1 \in Lengths
  <2>1. PICK g : \A r \in Upto(n) : g[r] = Halve(offset, g, r)
    BY <1>2
  <2> DEFINE h == [r \in Window |-> Halve(offset, g, r)]
  <2>2. \A r \in Upto(n) : h[r] = g[r]
    BY <2>1
  <2>3. ASSUME NEW r \in Upto(n + 1) PROVE h[r] = Halve(offset, h, r)
    <3>1. h[r] = Halve(offset, g, r)
      OBVIOUS
    <3>2. CASE r.left > r.right
      BY <3>1, <3>2 DEF Halve
    <3>3. CASE ~(r.left > r.right)
      <4>1. r.left <= r.right
        BY <3>3, OffsetsType DEF Window
      <4>2. LeftOf(r) \in Upto(n) /\ RightOf(r) \in Upto(n)
        BY <4>1, Halves, OffsetsType DEF Window
      <4> HIDE DEF Upto, h
      <4> QED  BY <2>2, <3>1, <4>2 DEF Halve
    <3> QED  BY <3>2, <3>3
  <2> HIDE DEF h
  <2> QED  BY <2>3
<1> HIDE DEF Lengths
<1>3. NumFiles + 1 \in Lengths
  BY <1>1, <1>2, SetInduction, OffsetsType
<1>4. Upto(NumFiles + 1) = Window
  <2>1. \A r \in Window : r.right - r.left + 1 <= NumFiles + 1
    BY OffsetsType DEF Window
  <2> QED  BY <2>1
<1>5. PICK g : \A r \in Window : g[r] = Halve(offset, g, r)
  BY <1>3, <1>4 DEF Lengths
<1> HIDE DEF Upto
<1> DEFINE h == [r \in Window |-> Halve(offset, g, r)]
<1>6. \A r \in Window : h[r] = g[r]
  BY <1>5
<1>7. ASSUME NEW r \in Window PROVE Halve(offset, g, r) = Halve(offset, h, r)
  <2>1. CASE r.left > r.right
    BY <2>1 DEF Halve
  <2>2. CASE ~(r.left > r.right)
    <3>1. LeftOf(r) \in Window /\ RightOf(r) \in Window
      BY <2>2, Halves, OffsetsType DEF Window
    <3> HIDE DEF h
    <3> QED  BY <1>6, <3>1 DEF Halve
  <2> QED  BY <2>1, <2>2
<1>8. h = [r \in Window |-> Halve(offset, h, r)]
  BY <1>7
<1> QED  BY <1>8

(* The range in which the loop still looks for the offset.                  *)
Holds(r, offset) ==
  /\ \A i \in 0..NumFiles : i < r.left => Offset(i) < offset
  /\ \A i \in 0..NumFiles : i > r.right => offset < Offset(i)

Found(i, offset) == i \in Files /\ Offset(i) <= offset /\ offset <= Offset(i + 1)

LEMMA SearchFinds ==
  ASSUME NEW offset \in 0..(TotalLength - 1), NEW g, g = [r \in Window |-> Halve(offset, g, r)]
  PROVE  \A r \in Window : Holds(r, offset) => Found(g[r], offset)
<1> DEFINE Lengths == {n \in Nat : \A r \in Window :
                         r.right - r.left + 1 <= n /\ Holds(r, offset) => Found(g[r], offset)}
<1> USE OffsetsType
<1>1. ASSUME NEW r \in Window, r.left > r.right, Holds(r, offset) PROVE Found(g[r], offset)
  <2>1. g[r] = r.right
    BY <1>1 DEF Halve
  <2>2. r.left \in 0..(NumFiles + 1) /\ r.right \in -1..NumFiles
    BY DEF Window
  <2>3. r.right # -1
    BY <1>1, <2>2 DEF Holds
  <2>4. r.right # NumFiles
    BY <1>1, <2>2 DEF Holds
  <2>5. r.right \in Files /\ r.right \in 0..NumFiles /\ r.right + 1 \in 0..NumFiles
    BY <2>2, <2>3, <2>4 DEF Files
  <2>6. Offset(r.right) < offset /\ offset < Offset(r.right + 1)
    BY <1>1, <2>2, <2>5 DEF Holds
  <2> QED  BY <2>1, <2>5, <2>6 DEF Found
<1>2. 0 \in Lengths
  BY <1>1 DEF Window
<1>3. ASSUME NEW n \in Nat, n \in Lengths PROVE n + 1 \in Lengths
  <2> SUFFICES ASSUME NEW r \in Window, r.right - r.left + 1 <= n + 1, Holds(r, offset)
               PROVE  Found(g[r], offset)
    OBVIOUS
  <2>1. CASE r.left > r.right
    BY <1>1, <2>1
  <2>2. CASE ~(r.left > r.right)
    <3>1. r.left \in 0..(NumFiles + 1) /\ r.right \in -1..NumFiles /\ r.left <= r.right
      BY <2>2 DEF Window
    <3>2. g[r] = Halve(offset, g, r)
      OBVIOUS
    <3>3. CASE offset = Offset(Mid(r))
      <4>1. g[r] = Mid(r) /\ Mid(r) \in 0..NumFiles /\ Mid(r) # NumFiles
        BY <2>2, <3>1, <3>2, <3>3, Halves DEF Halve
      <4>2. Offset(Mid(r)) <= Offset(Mid(r) + 1)
        BY <4>1, OffsetsRise
      <4> QED  BY <3>3, <4>1, <4>2 DEF Found, Files
    <3>4. CASE offset < Offset(Mid(r))
      <4>1. g[r] = g[LeftOf(r)]
        BY <2>2, <3>2, <3>4, Halves, <3>1 DEF Halve
      <4>2. Holds(LeftOf(r), offset)
        <5>1. ASSUME NEW i \in 0..NumFiles, i > LeftOf(r).right PROVE offset < Offset(i)
          BY <3>1, <3>4, <5>1, Halves, OffsetsRise
        <5> QED  BY <3>1, <5>1, Halves DEF Holds
      <4>3. LeftOf(r).right - LeftOf(r).left + 1 <= n
        BY <3>1, Halves
      <4> QED  BY <1>3, <3>1, <4>1, <4>2, <4>3, Halves
    <3>5. CASE offset > Offset(Mid(r))
      <4>1. g[r] = g[RightOf(r)]
        BY <2>2, <3>2, <3>5, Halves, <3>1 DEF Halve
      <4>2. Holds(RightOf(r), offset)
        <5>1. ASSUME NEW i \in 0..NumFiles, i < RightOf(r).left PROVE Offset(i) < offset
          BY <3>1, <3>5, <5>1, Halves, OffsetsRise
        <5> QED  BY <3>1, <5>1, Halves DEF Holds
      <4>3. RightOf(r).right - RightOf(r).left + 1 <= n
        BY <3>1, Halves
      <4> QED  BY <1>3, <3>1, <4>1, <4>2, <4>3, Halves
    <3>6. Offset(Mid(r)) \in Nat
      BY <3>1, Halves
    <3> QED  BY <3>3, <3>4, <3>5, <3>6
  <2> QED  BY <2>1, <2>2
<1> HIDE DEF Lengths
<1>4. Nat \subseteq Lengths
  BY <1>2, <1>3, SetInduction
<1>5. ASSUME NEW r \in Window, Holds(r, offset) PROVE Found(g[r], offset)
  <2>1. r.right - r.left + 1 <= NumFiles + 1
    BY DEF Window
  <2> QED  BY <1>4, <1>5, <2>1 DEF Lengths
<1> QED  BY <1>5

(* search_index finds a file in which the offset is, or at whose border.    *)
LEMMA SearchIndexFinds ==
  ASSUME NEW offset \in 0..(TotalLength - 1)
  PROVE  Found(SearchIndex(offset), offset)
<1> DEFINE whole == [left |-> 0, right |-> NumFiles]
           search == CHOOSE g : g = [r \in Window |-> Halve(offset, g, r)]
<1>1. search = [r \in Window |-> Halve(offset, search, r)]
  BY SearchExists
<1>2. SearchIndex(offset) = search[whole]
  BY DEF SearchIndex, Halve, Window, Mid, LeftOf, RightOf
<1> HIDE DEF search
<1>3. whole \in Window /\ Holds(whole, offset)
  BY OffsetsType DEF Window, Holds
<1> QED  BY <1>1, <1>2, <1>3, SearchFinds
-----------------------------------------------------------------------------
(* search_ptrs.                                                             *)
Start(s) == Offset(s.file) + s.ptr
Room(s) == Offset(s.file + 1) - Offset(s.file) - s.ptr
Continues(s) == s.len + Offset(s.file) + s.ptr > Offset(s.file + 1)
InFile(s) == [s EXCEPT !.len = Room(s)]
Rest(s) == [file |-> s.file + 1, ptr |-> 0, data |-> s.data + Room(s), len |-> s.len - Room(s)]

(* One turn of the loop, whose further turns return what g says.            *)
CutOnce(g, s) == IF Continues(s) THEN <<InFile(s)>> \o g[Rest(s)] ELSE <<s>>

LEMMA SegmentType ==
  ASSUME NEW s \in Segment
  PROVE  /\ s.file \in Files /\ s.ptr \in Nat /\ s.data \in Nat /\ s.len \in Nat
         /\ s.file \in 0..NumFiles /\ s.file + 1 \in 0..NumFiles
         /\ Offset(s.file) \in Nat /\ Offset(s.file + 1) \in Nat
         /\ Room(s) \in Nat /\ Start(s) \in Nat
         /\ Start(s) + s.len <= TotalLength
<1>1. /\ s \in [file : Files, ptr : Nat, data : Nat, len : Nat]
      /\ Offset(s.file) + s.ptr <= Offset(s.file + 1)
      /\ Offset(s.file) + s.ptr + s.len <= TotalLength
  BY DEF Segment
<1>2. s.file \in 0..NumFiles /\ s.file + 1 \in 0..NumFiles
  BY <1>1, OffsetsType DEF Files
<1> QED  BY <1>1, <1>2, OffsetsType DEF Room, Start

LEMMA RestType ==
  ASSUME NEW s \in Segment, Continues(s)
  PROVE  /\ Rest(s) \in Segment
         /\ Rest(s).file = s.file + 1 /\ Rest(s).ptr = 0
         /\ Rest(s).data = s.data + Room(s) /\ Rest(s).len = s.len - Room(s)
         /\ InFile(s) \in Segment
         /\ InFile(s).file = s.file /\ InFile(s).ptr = s.ptr
         /\ InFile(s).data = s.data /\ InFile(s).len = Room(s)
<1>1. s.len > Room(s) /\ Start(s) + Room(s) = Offset(s.file + 1)
  BY SegmentType DEF Continues, Room, Start
<1>2. Offset(s.file + 1) < TotalLength
  BY <1>1, SegmentType, OffsetsType
<1>3. s.file + 1 \in Files
  BY <1>2, SegmentType, OffsetsType DEF Files
<1>4. s.file + 2 \in 0..NumFiles /\ Offset(s.file + 1) <= Offset(s.file + 2)
  BY <1>3, SegmentType, OffsetsType, OffsetsRise DEF Files
<1>5. Rest(s) \in [file : Files, ptr : Nat, data : Nat, len : Nat]
  BY <1>1, <1>3, SegmentType DEF Rest
<1>6. Offset(s.file + 1) + 0 + (s.len - Room(s)) <= TotalLength
  BY <1>1, SegmentType, OffsetsType
<1>7. s.file + 1 + 1 = s.file + 2
  BY SegmentType
<1>8. Rest(s) \in Segment
  BY <1>4, <1>5, <1>6, <1>7, SegmentType DEF Rest, Segment
<1>9. InFile(s) = [file |-> s.file, ptr |-> s.ptr, data |-> s.data, len |-> Room(s)]
  BY DEF InFile, Segment
<1>10. InFile(s) \in Segment
  <2>1. InFile(s) \in [file : Files, ptr : Nat, data : Nat, len : Nat]
    BY <1>9, SegmentType
  <2>2. Offset(s.file) + s.ptr <= Offset(s.file + 1)
    BY DEF Segment
  <2>3. Offset(s.file) + s.ptr + Room(s) <= TotalLength
    BY <1>1, <1>2, SegmentType, OffsetsType DEF Start
  <2> QED  BY <1>9, <2>1, <2>2, <2>3 DEF Segment
<1> QED  BY <1>8, <1>9, <1>10 DEF Rest

(* There is such a function; it is found file by file, the last one first.  *)
LEMMA CutExists == \E g : g = [s \in Segment |-> CutOnce(g, s)]
<1> DEFINE Last(n) == {s \in Segment : NumFiles - s.file <= n}
           Counts == {n \in Nat : \E g : \A s \in Last(n) : g[s] = CutOnce(g, s)}
<1>1. 0 \in Counts
  <2>1. Last(0) = {}
    BY OffsetsType, SegmentType DEF Files
  <2> QED  BY <2>1
<1>2. ASSUME NEW n \in Nat, n \in Counts PROVE n + 1 \in Counts
  <2>1. PICK g : \A s \in Last(n) : g[s] = CutOnce(g, s)
    BY <1>2
  <2> DEFINE h == [s \in Segment |-> CutOnce(g, s)]
  <2>2. \A s \in Last(n) : h[s] = g[s]
    BY <2>1
  <2>3. ASSUME NEW s \in Last(n + 1) PROVE h[s] = CutOnce(h, s)
    <3>1. h[s] = CutOnce(g, s)
      OBVIOUS
    <3>2. CASE Continues(s)
      <4>1. Rest(s) \in Last(n)
        BY <3>2, RestType, SegmentType, OffsetsType
      <4> HIDE DEF Last, h
      <4> QED  BY <2>2, <3>1, <4>1 DEF CutOnce
    <3>3. CASE ~Continues(s)
      BY <3>1, <3>3 DEF CutOnce
    <3> QED  BY <3>2, <3>3
  <2> HIDE DEF h, Last
  <2>4. \E f : \A s \in Last(n + 1) : f[s] = CutOnce(f, s)
    BY <2>3
  <2> QED  BY <2>4
<1> HIDE DEF Counts
<1>3. NumFiles \in Counts
  BY <1>1, <1>2, SetInduction, OffsetsType
<1>4. Last(NumFiles) = Segment
  <2>1. \A s \in Segment : NumFiles - s.file <= NumFiles
    BY SegmentType, OffsetsType
  <2> QED  BY <2>1
<1>5. PICK g : \A s \in Segment : g[s] = CutOnce(g, s)
  BY <1>3, <1>4 DEF Counts
<1> HIDE DEF Last
<1> DEFINE h == [s \in Segment |-> CutOnce(g, s)]
<1>6. \A s \in Segment : h[s] = g[s]
  BY <1>5
<1>7. \A s \in Segment : CutOnce(g, s) = CutOnce(h, s)
  <2> HIDE DEF h
  <2> QED  BY <1>6, RestType DEF CutOnce
<1>8. h = [s \in Segment |-> CutOnce(h, s)]
  BY <1>7
<1> QED  BY <1>8

LEMMA CutUnfolds == \A s \in Segment : Cut[s] = CutOnce(Cut, s)
<1> DEFINE cut == CHOOSE g : g = [s \in Segment |-> CutOnce(g, s)]
<1>1. cut = [s \in Segment |-> CutOnce(cut, s)]
  BY CutExists
<1>2. Cut = cut
  BY DEF Cut, CutOnce, Continues, InFile, Rest, Room
<1> HIDE DEF cut
<1> QED  BY <1>1, <1>2

LEMMA Prepend ==
  ASSUME NEW S, NEW a \in S, NEW w \in Seq(S)
  PROVE  /\ <<a>> \o w \in Seq(S)
         /\ Len(w) \in Nat /\ DOMAIN w = 1..Len(w)
         /\ DOMAIN (<<a>> \o w) = 1..(Len(w) + 1)
         /\ (<<a>> \o w)[1] = a
         /\ \A k \in DOMAIN w : (<<a>> \o w)[k + 1] = w[k]
         /\ \A k \in DOMAIN (<<a>> \o w) : k = 1 \/ (k - 1 \in DOMAIN w /\ (<<a>> \o w)[k] = w[k - 1])
<1>1. <<a>> \in Seq(S) /\ Len(<<a>>) = 1 /\ <<a>>[1] = a
  OBVIOUS
<1> DEFINE one == <<a>>
<1> HIDE DEF one
<1>2. one \in Seq(S) /\ Len(one) = 1 /\ one[1] = a
  BY <1>1 DEF one
<1>3. /\ one \o w \in Seq(S)
      /\ Len(w) \in Nat /\ DOMAIN w = 1..Len(w)
      /\ DOMAIN (one \o w) = 1..(Len(w) + 1)
      /\ (one \o w)[1] = a
      /\ \A k \in DOMAIN w : (one \o w)[k + 1] = w[k]
  <2>1. one \o w \in Seq(S) /\ Len(w) \in Nat /\ DOMAIN w = 1..Len(w) /\ DOMAIN one = 1..1
    BY <1>2
  <2>2. /\ Len(one \o w) = Len(one) + Len(w)
        /\ \A k \in 1..(Len(one) + Len(w)) :
             (one \o w)[k] = IF k <= Len(one) THEN one[k] ELSE w[k - Len(one)]
    BY <1>2, ConcatProperties
  <2>3. Len(one \o w) = Len(w) + 1
    BY <1>2, <2>1, <2>2
  <2>4. (one \o w)[1] = a
    BY <1>2, <2>1, <2>2
  <2>5. ASSUME NEW k \in DOMAIN w PROVE (one \o w)[k + 1] = w[k]
    <3>1. PICK l \in Nat : l = Len(w) /\ k \in 1..l
      BY <2>1
    <3>2. PICK i \in 1..(1 + l) : i = k + 1 /\ ~(i <= 1) /\ i - 1 = k
      BY <3>1
    <3>3. \A j \in 1..(1 + l) : (one \o w)[j] = IF j <= 1 THEN one[j] ELSE w[j - 1]
      BY <1>2, <2>2, <3>1
    <3>4. (one \o w)[i] = w[i - 1]
      BY <3>2, <3>3
    <3> QED  BY <3>2, <3>4
  <2>6. DOMAIN (one \o w) = 1..(Len(w) + 1)
    <3>1. DOMAIN (one \o w) = 1..Len(one \o w)
      BY <2>1, LenProperties
    <3> QED  BY <2>3, <3>1
  <2> QED  BY <2>1, <2>4, <2>5, <2>6
<1>4. \A k \in DOMAIN (one \o w) : k = 1 \/ (k - 1 \in DOMAIN w /\ (one \o w)[k] = w[k - 1])
  BY <1>3
<1> QED  BY <1>3, <1>4 DEF one

(* w is what there is of s, cut at the ends of files: each position of the  *)
(* range is in one segment, which has it at its place in the torrent and    *)
(* inside of its file; and the files are those that begin before the end.   *)
Cuts(w, s) ==
  /\ w \in Seq(Segment)
  /\ \A k \in DOMAIN w : w[k].data >= s.data /\ Start(w[k]) - w[k].data = Start(s) - s.data
  /\ \A k \in DOMAIN w : w[k].ptr + w[k].len <= Offset(w[k].file + 1) - Offset(w[k].file)
  /\ \A x \in PositionsOf(s) : \E k \in DOMAIN w :
       x \in PositionsOf(w[k]) /\ \A j \in DOMAIN w : x \in PositionsOf(w[j]) => j = k
  /\ \A f \in Files : (\E k \in DOMAIN w : w[k].file = f) <=>
       (f = s.file \/ (f > s.file /\ Offset(f) < Start(s) + s.len))

LEMMA OneSegment ==
  ASSUME NEW s \in Segment, ~Continues(s)
  PROVE  Cuts(<<s>>, s)
<1>1. <<s>> \in Seq(Segment) /\ DOMAIN <<s>> = {1} /\ <<s>>[1] = s
  OBVIOUS
<1>2. Start(s) + s.len <= Offset(s.file + 1)
  BY SegmentType DEF Continues, Start
<1>3. s.ptr + s.len <= Offset(s.file + 1) - Offset(s.file)
  BY <1>2, SegmentType DEF Start
<1>4. ASSUME NEW f \in Files, f > s.file PROVE ~(Offset(f) < Start(s) + s.len)
  <2>1. f \in 0..NumFiles /\ s.file + 1 <= f
    BY <1>4, SegmentType, OffsetsType DEF Files
  <2>2. Offset(s.file + 1) <= Offset(f) /\ Offset(f) \in Nat
    BY <2>1, SegmentType, OffsetsType, OffsetsRise
  <2> QED  BY <1>2, <2>2, SegmentType
<1> DEFINE w == <<s>>
<1> HIDE DEF w
<1>5. w \in Seq(Segment) /\ DOMAIN w = {1} /\ w[1] = s
  BY <1>1 DEF w
<1>6. Cuts(w, s)
  BY <1>3, <1>4, <1>5, SegmentType DEF Cuts
<1> QED  BY <1>6 DEF w

LEMMA MoreSegments ==
  ASSUME NEW s \in Segment, Continues(s), NEW w, Cuts(w, Rest(s))
  PROVE  Cuts(<<InFile(s)>> \o w, s)
<1> DEFINE c == <<InFile(s)>> \o w
<1>1. w \in Seq(Segment)
  BY DEF Cuts
<1>2. /\ c \in Seq(Segment) /\ DOMAIN c = 1..(Len(w) + 1) /\ Len(w) \in Nat /\ DOMAIN w = 1..Len(w)
      /\ c[1] = InFile(s) /\ \A k \in DOMAIN w : c[k + 1] = w[k]
      /\ \A k \in DOMAIN c : k = 1 \/ (k - 1 \in DOMAIN w /\ c[k] = w[k - 1])
  BY <1>1, RestType, Prepend
<1> HIDE DEF c
<1>3. /\ s.len > Room(s) /\ Start(s) + Room(s) = Offset(s.file + 1)
      /\ Room(s) \in Nat /\ s.len \in Nat /\ s.data \in Nat /\ Start(s) \in Nat
      /\ s.file \in Nat
  BY SegmentType DEF Continues, Room, Start, Files
<1>4. Start(Rest(s)) = Offset(s.file + 1) /\ Start(InFile(s)) = Start(s)
  BY RestType, SegmentType DEF Start
<1>5. \A k \in DOMAIN w : w[k] \in Segment
  BY <1>1
<1>6. ASSUME NEW k \in DOMAIN c
      PROVE  /\ c[k].data >= s.data
             /\ Start(c[k]) - c[k].data = Start(s) - s.data
             /\ c[k].ptr + c[k].len <= Offset(c[k].file + 1) - Offset(c[k].file)
  <2>1. CASE k = 1
    <3>1. c[k] = InFile(s)
      BY <1>2, <2>1
    <3>2. s.ptr + Room(s) = Offset(s.file + 1) - Offset(s.file)
      BY SegmentType DEF Room
    <3> QED  BY <1>3, <1>4, <3>1, <3>2, RestType, SegmentType
  <2>2. CASE k # 1
    <3>1. k - 1 \in DOMAIN w /\ c[k] = w[k - 1]
      BY <1>2, <2>2
    <3>2. /\ w[k - 1].data >= s.data + Room(s)
          /\ Start(w[k - 1]) - w[k - 1].data = Offset(s.file + 1) - (s.data + Room(s))
          /\ w[k - 1].ptr + w[k - 1].len <= Offset(w[k - 1].file + 1) - Offset(w[k - 1].file)
      BY <1>4, <3>1, RestType DEF Cuts
    <3>3. w[k - 1].data \in Nat
      BY <1>5, <3>1, SegmentType
    <3> QED  BY <1>3, <3>1, <3>2, <3>3, SegmentType
  <2> QED  BY <2>1, <2>2
<1>7. ASSUME NEW x \in PositionsOf(s)
      PROVE  \E k \in DOMAIN c :
               x \in PositionsOf(c[k]) /\ \A j \in DOMAIN c : x \in PositionsOf(c[j]) => j = k
  <2>1. x \in Int /\ x >= s.data /\ x < s.data + s.len
    BY <1>3 DEF PositionsOf
  <2>2. x \in PositionsOf(c[1]) <=> x < s.data + Room(s)
    <3>1. c[1].data = s.data /\ c[1].len = Room(s)
      BY <1>2, RestType
    <3>2. PICK d \in Int, r \in Int : d = s.data /\ r = Room(s)
      BY <1>3
    <3>3. x \in d..(d + r - 1) <=> x < d + r
      BY <2>1, <3>2
    <3> QED  BY <3>1, <3>2, <3>3 DEF PositionsOf
  <2>3. \A j \in DOMAIN c : j # 1 => j - 1 \in DOMAIN w /\ c[j] = w[j - 1]
    BY <1>2
  <2>4. CASE x < s.data + Room(s)
    <3>1. \A j \in DOMAIN w : w[j].data >= s.data + Room(s) /\ w[j].data \in Nat /\ w[j].len \in Nat
      BY <1>5, RestType, SegmentType DEF Cuts
    <3>2. \A j \in DOMAIN w : x \notin PositionsOf(w[j])
      BY <1>3, <2>1, <2>4, <3>1 DEF PositionsOf
    <3>3. 1 \in DOMAIN c
      BY <1>2
    <3> QED  BY <2>2, <2>3, <2>4, <3>2, <3>3
  <2>5. CASE ~(x < s.data + Room(s))
    <3>1. x \in PositionsOf(Rest(s))
      BY <1>3, <2>1, <2>5, RestType DEF PositionsOf
    <3>2. PICK k \in DOMAIN w :
            x \in PositionsOf(w[k]) /\ \A j \in DOMAIN w : x \in PositionsOf(w[j]) => j = k
      BY <3>1 DEF Cuts
    <3>3. k + 1 \in DOMAIN c /\ c[k + 1] = w[k]
      BY <1>2
    <3>4. ASSUME NEW j \in DOMAIN c, x \in PositionsOf(c[j]) PROVE j = k + 1
      <4>1. j # 1
        BY <2>2, <2>5, <3>4
      <4>2. j - 1 \in DOMAIN w /\ x \in PositionsOf(w[j - 1])
        BY <2>3, <3>4, <4>1
      <4> QED  BY <1>2, <3>2, <4>2
    <3> QED  BY <3>2, <3>3, <3>4
  <2> QED  BY <2>4, <2>5
<1>8. ASSUME NEW f \in Files
      PROVE  (\E k \in DOMAIN c : c[k].file = f) <=>
               (f = s.file \/ (f > s.file /\ Offset(f) < Start(s) + s.len))
  <2>1. (\E k \in DOMAIN w : w[k].file = f) <=>
          (f = s.file + 1 \/ (f > s.file + 1 /\ Offset(f) < Start(s) + s.len))
    <3>1. Start(Rest(s)) + Rest(s).len = Start(s) + s.len
      BY <1>3, <1>4, RestType, SegmentType
    <3> QED  BY <3>1, RestType DEF Cuts
  <2>2. (\E k \in DOMAIN c : c[k].file = f) <=> (f = s.file \/ \E k \in DOMAIN w : w[k].file = f)
    <3>1. 1 \in DOMAIN c /\ \A k \in DOMAIN w : k + 1 \in DOMAIN c /\ c[k + 1] = w[k]
      BY <1>2
    <3>2. c[1].file = s.file
      BY <1>2, RestType
    <3>3. \A k \in DOMAIN c : k = 1 \/ (k - 1 \in DOMAIN w /\ c[k] = w[k - 1])
      BY <1>2
    <3> QED  BY <3>1, <3>2, <3>3
  <2>3. Offset(s.file + 1) < Start(s) + s.len
    BY <1>3, SegmentType
  <2>4. f \in Nat
    BY OffsetsType DEF Files
  <2> QED  BY <1>3, <2>1, <2>2, <2>3, <2>4
<1>9. Cuts(c, s)
  BY <1>2, <1>6, <1>7, <1>8 DEF Cuts
<1> QED  BY <1>9 DEF c

LEMMA CutCuts == \A s \in Segment : Cuts(Cut[s], s)
<1> DEFINE Last(n) == {s \in Segment : NumFiles - s.file <= n}
           Counts == {n \in Nat : \A s \in Last(n) : Cuts(Cut[s], s)}
<1>1. 0 \in Counts
  BY OffsetsType, SegmentType DEF Files
<1>2. ASSUME NEW n \in Nat, n \in Counts PROVE n + 1 \in Counts
  <2>1. ASSUME NEW s \in Last(n + 1) PROVE Cuts(Cut[s], s)
    <3>1. s \in Segment /\ Cut[s] = CutOnce(Cut, s)
      BY CutUnfolds
    <3>2. CASE Continues(s)
      <4>1. Rest(s) \in Last(n)
        BY <3>2, RestType, SegmentType, OffsetsType
      <4>2. Cuts(Cut[Rest(s)], Rest(s))
        BY <1>2, <4>1
      <4>3. Cut[s] = <<InFile(s)>> \o Cut[Rest(s)]
        BY <3>1, <3>2 DEF CutOnce
      <4> QED  BY <3>1, <3>2, <4>2, <4>3, MoreSegments
    <3>3. CASE ~Continues(s)
      BY <3>1, <3>3, OneSegment DEF CutOnce
    <3> QED  BY <3>2, <3>3
  <2> QED  BY <2>1
<1> HIDE DEF Counts
<1>3. NumFiles \in Counts
  BY <1>1, <1>2, SetInduction, OffsetsType
<1>4. \A s \in Segment : NumFiles - s.file <= NumFiles
  BY SegmentType, OffsetsType
<1> QED  BY <1>3, <1>4 DEF Counts
-----------------------------------------------------------------------------
(* Pieces and blocks.                                                       *)
LEMMA DivisionBounds ==
  ASSUME NEW n \in Nat, NEW d \in Nat \ {0}, NEW k \in Int
  PROVE  /\ k * d <= n => k <= n \div d
         /\ n < (k + 1) * d => n \div d <= k
<1>1. (n \div d) * d <= n /\ n < (n \div d) * d + d /\ n \div d \in Int
  OBVIOUS
<1>2. ASSUME k * d <= n PROVE k <= n \div d
  <2>1. SUFFICES ASSUME k >= n \div d + 1 PROVE FALSE
    BY <1>1
  <2>2. k * d >= (n \div d + 1) * d
    BY <1>1, <2>1
  <2> QED  BY <1>1, <1>2, <2>2
<1>3. ASSUME n < (k + 1) * d PROVE n \div d <= k
  <2>1. SUFFICES ASSUME n \div d >= k + 1 PROVE FALSE
    BY <1>1
  <2>2. (n \div d) * d >= (k + 1) * d
    BY <1>1, <2>1
  <2> QED  BY <1>1, <1>3, <2>2
<1> QED  BY <1>2, <1>3

LEMMA DivisionBelow ==
  ASSUME NEW n \in Int, NEW d \in Nat \ {0}, NEW k \in Int, n < k * d
  PROVE  n \div d <= k - 1
<1>1. (n \div d) * d <= n /\ n \div d \in Int
  OBVIOUS
<1>2. SUFFICES ASSUME n \div d >= k PROVE FALSE
  BY <1>1
<1>3. (n \div d) * d >= k * d
  BY <1>1, <1>2
<1> QED  BY <1>1, <1>3

(* A piece has at least one byte, and none that is not the torrent's.       *)
LEMMA PieceFits ==
  ASSUME NEW p \in Pieces
  PROVE  /\ p \in Nat /\ PieceOffset(p) \in Nat
         /\ PieceSize(p) \in Nat \ {0} /\ PieceSize(p) <= PieceLength
         /\ PieceOffset(p) + PieceSize(p) <= TotalLength
         /\ PieceOffset(p) + PieceSize(p) = TotalLength \/ PieceSize(p) = PieceLength
<1>1. PieceLength \in Nat \ {0} /\ TotalLength \in Nat \ {0}
  BY LayoutAssumption, OffsetsType
<1> DEFINE n == TotalLength + PieceLength - 1
<1>2. /\ (n \div PieceLength) * PieceLength <= n
      /\ n < (n \div PieceLength) * PieceLength + PieceLength
      /\ n \div PieceLength \in Nat
  BY <1>1
<1>3. NumPieces = n \div PieceLength
  BY DEF NumPieces, CeilDiv
<1>4. p \in Nat /\ p <= NumPieces - 1 /\ NumPieces \in Nat
  BY <1>2, <1>3 DEF Pieces
<1>5. p * PieceLength \in Nat /\ (p + 1) * PieceLength = p * PieceLength + PieceLength
  BY <1>1, <1>4
<1>6. (p + 1) * PieceLength <= NumPieces * PieceLength
  BY <1>1, <1>4
<1>7. p * PieceLength < TotalLength
  BY <1>1, <1>2, <1>3, <1>4, <1>5, <1>6
<1>8. CASE p < NumPieces - 1
  <2>1. (p + 2) * PieceLength <= NumPieces * PieceLength
    BY <1>1, <1>4, <1>8
  <2>2. (p + 2) * PieceLength = p * PieceLength + PieceLength + PieceLength
    BY <1>1, <1>4
  <2>3. PieceSize(p) = PieceLength
    BY <1>8 DEF PieceSize
  <2>4. p * PieceLength + PieceLength <= TotalLength
    BY <1>1, <1>2, <1>3, <1>4, <1>5, <2>1, <2>2
  <2> QED  BY <1>1, <1>4, <1>5, <2>3, <2>4 DEF PieceOffset
<1>9. CASE p = NumPieces - 1
  <2>1. p + 1 = NumPieces
    BY <1>4, <1>9
  <2>2. n < p * PieceLength + PieceLength + PieceLength
    BY <1>2, <1>3, <1>5, <2>1
  <2>3. PieceSize(p) = TotalLength - p * PieceLength
    BY <1>9 DEF PieceSize, PieceOffset
  <2> QED  BY <1>1, <1>4, <1>5, <1>7, <2>2, <2>3 DEF PieceOffset
<1> QED  BY <1>4, <1>8, <1>9

(* A piece of the torrent has at least one block.                           *)
LEMMA PieceHasBlock == \A p \in Pieces : BlocksOf(p) # {}
<1> SUFFICES ASSUME NEW p \in Pieces PROVE BlocksOf(p) # {}
  OBVIOUS
<1>1. BlockSize \in Nat \ {0} /\ PieceSize(p) \in Nat \ {0}
  BY LayoutAssumption, PieceFits
<1>2. \A n \in Nat, d \in Nat \ {0} : n >= d => n \div d >= 1 /\ n \div d \in Nat
  OBVIOUS
<1>3. NumBlocks(p) >= 1 /\ NumBlocks(p) \in Nat
  <2>1. PieceSize(p) + BlockSize - 1 \in Nat /\ PieceSize(p) + BlockSize - 1 >= BlockSize
    BY <1>1
  <2> QED  BY <1>1, <1>2, <2>1 DEF NumBlocks, CeilDiv
<1>4. 0 \in 0..(NumBlocks(p) - 1)
  BY <1>3
<1> QED  BY <1>4 DEF BlocksOf

(* A block names its piece.                                                 *)
LEMMA BlockOfPiece ==
  /\ \A p, b : b \in BlocksOf(p) => b[1] = p
  /\ \A b \in Blocks : b[1] \in Pieces /\ b \in BlocksOf(b[1])
  /\ \A p \in Pieces : BlocksOf(p) \subseteq Blocks
<1>1. \A p, b : b \in BlocksOf(p) => b[1] = p
  BY DEF BlocksOf
<1>2. \A b \in Blocks : b[1] \in Pieces /\ b \in BlocksOf(b[1])
  <2> SUFFICES ASSUME NEW b \in Blocks PROVE b[1] \in Pieces /\ b \in BlocksOf(b[1])
    OBVIOUS
  <2>1. PICK p \in Pieces : b \in BlocksOf(p)
    BY DEF Blocks
  <2> QED  BY <1>1, <2>1
<1> QED  BY <1>1, <1>2 DEF Blocks

(* A block has its bytes in its piece.                                      *)
LEMMA BlockFits ==
  ASSUME NEW b \in Blocks
  PROVE  /\ BlockOffset(b) \in 0..(TotalLength - 1)
         /\ BlockLength(b) \in 0..(TotalLength - BlockOffset(b))
         /\ PieceOffset(b[1]) <= BlockOffset(b)
         /\ BlockOffset(b) + BlockLength(b) <= PieceOffset(b[1]) + PieceSize(b[1])
<1>1. PICK p \in Pieces : b \in BlocksOf(p)
  BY DEF Blocks
<1>2. PICK i \in 0..(NumBlocks(p) - 1) : b = <<p, i>>
  BY <1>1 DEF BlocksOf
<1>3. PICK n \in Nat, start \in Nat, d \in Nat \ {0} :
        n = PieceSize(p) /\ start = PieceOffset(p) /\ d = BlockSize
  BY PieceFits, LayoutAssumption
<1>4. n > 0 /\ start + n <= TotalLength /\ TotalLength \in Nat
  BY <1>3, PieceFits, OffsetsType
<1>5. PICK k \in Nat : k = (n + d - 1) \div d
  <2>1. n + d - 1 \in Nat
    BY <1>3
  <2> QED  BY <1>3, <2>1
<1>6. k * d <= n + d - 1
  BY <1>3, <1>5
<1>7. NumBlocks(p) = k
  BY <1>3, <1>5 DEF NumBlocks, CeilDiv
<1>8. i \in Nat /\ i + 1 <= k
  BY <1>5, <1>7, <1>2
<1>9. i * d \in Nat /\ i * d + d <= k * d
  <2>1. (i + 1) * d <= k * d
    BY <1>8, <1>5, <1>3
  <2>2. (i + 1) * d = i * d + d
    BY <1>8, <1>3
  <2> QED  BY <1>8, <1>3, <2>1, <2>2
<1>10. i * d <= n - 1
  BY <1>3, <1>5, <1>6, <1>9
<1>11. BlockOffset(b) = start + i * d
  BY <1>2, <1>3 DEF BlockOffset
<1>12. BlockLength(b) = IF i < k - 1 THEN d ELSE n - i * d
  BY <1>2, <1>3, <1>7 DEF BlockLength
<1>13. i < k - 1 => i * d + d <= n - 1
  <2>1. SUFFICES ASSUME i < k - 1 PROVE i * d + d <= n - 1
    OBVIOUS
  <2>2. (i + 2) * d <= k * d
    BY <1>8, <1>5, <1>3, <2>1
  <2>3. (i + 2) * d = i * d + d + d
    BY <1>8, <1>3
  <2> QED  BY <1>3, <1>5, <1>6, <1>9, <2>2, <2>3
<1>14. BlockLength(b) \in 0..(n - i * d)
  <2>1. CASE i < k - 1
    BY <1>3, <1>9, <1>12, <1>13, <2>1
  <2>2. CASE ~(i < k - 1)
    BY <1>3, <1>9, <1>10, <1>12, <2>2
  <2> QED  BY <2>1, <2>2
<1>15. b[1] = p
  BY <1>2
<1>16. start <= start + i * d /\ start + i * d + BlockLength(b) <= start + n
  BY <1>3, <1>9, <1>14
<1> QED  BY <1>3, <1>4, <1>9, <1>10, <1>11, <1>14, <1>15, <1>16

(* A position belongs to one piece.                                         *)
LEMMA PieceOfPosition ==
  ASSUME NEW p \in Pieces, NEW x \in PiecePositions(p)
  PROVE  x \in Positions /\ x \div PieceLength = p
<1>1. /\ p \in Nat /\ PieceLength \in Nat \ {0} /\ TotalLength \in Nat
      /\ PieceOffset(p) = p * PieceLength /\ PieceOffset(p) \in Nat
      /\ PieceSize(p) \in Nat /\ PieceSize(p) <= PieceLength
      /\ PieceOffset(p) + PieceSize(p) <= TotalLength
  BY PieceFits, LayoutAssumption, OffsetsType DEF PieceOffset
<1>2. x \in Nat /\ PieceOffset(p) <= x /\ x < PieceOffset(p) + PieceSize(p)
  BY <1>1 DEF PiecePositions
<1>3. (p + 1) * PieceLength = p * PieceLength + PieceLength
  BY <1>1
<1>4. p * PieceLength <= x /\ x < (p + 1) * PieceLength
  <2> HIDE DEF PieceOffset
  <2> QED  BY <1>1, <1>2, <1>3
<1>5. p <= x \div PieceLength /\ x \div PieceLength <= p /\ x \div PieceLength \in Int
  BY <1>1, <1>2, <1>4, DivisionBounds
<1>6. x \in 0..(TotalLength - 1)
  BY <1>1, <1>2
<1>7. x \div PieceLength = p
  BY <1>1, <1>5
<1> QED  BY <1>6, <1>7 DEF Positions

LEMMA SingleBlock ==
  ASSUME NEW b \in Blocks, NumBlocks(b[1]) = 1
  PROVE  BlocksOf(b[1]) = {b}
<1>1. BlocksOf(b[1]) = {<<b[1], i>> : i \in 0..0}
  BY DEF BlocksOf
<1>2. BlocksOf(b[1]) = {<<b[1], 0>>}
  BY <1>1
<1> QED  BY <1>2, BlockOfPiece

-----------------------------------------------------------------------------
(* What the operators of FileLayout return.                                 *)
LEMMA WholeRange ==
  ASSUME NEW offset \in 0..(TotalLength - 1), NEW len \in 0..(TotalLength - offset)
  PROVE  LET first == SearchIndex(offset)
             s == [file |-> first, ptr |-> offset - Offset(first), data |-> 0, len |-> len]
         IN  /\ s \in Segment /\ Start(s) = offset /\ Found(first, offset)
             /\ Cuts(SearchPtrs(offset, len), s)
<1> DEFINE first == SearchIndex(offset)
           s == [file |-> first, ptr |-> offset - Offset(first), data |-> 0, len |-> len]
<1>1. Found(first, offset)
  BY SearchIndexFinds
<1> HIDE DEF first
<1>2. first \in Files /\ first \in 0..NumFiles /\ first + 1 \in 0..NumFiles
  BY <1>1, OffsetsType DEF Found, Files
<1>3. Offset(first) \in Nat /\ Offset(first + 1) \in Nat /\ offset \in Nat /\ len \in Nat
  BY <1>2, OffsetsType
<1>4. offset + len <= TotalLength
  BY OffsetsType
<1>5. s \in Segment
  BY <1>1, <1>2, <1>3, <1>4 DEF Found, Segment
<1>6. Start(s) = offset
  BY <1>3 DEF Start
<1>7. SearchPtrs(offset, len) = Cut[s]
  BY DEF SearchPtrs, first
<1>8. Cuts(SearchPtrs(offset, len), s)
  BY <1>5, <1>7, CutCuts
<1> QED  BY <1>1, <1>5, <1>6, <1>8 DEF first

(* Reading or writing a range of the torrent, wherever its files begin and  *)
(* end and however many of them are empty, takes each byte from its place   *)
(* in its file, once.                                                       *)
THEOREM RangesAreExact ==
  \A offset \in 0..(TotalLength - 1) : \A len \in 0..(TotalLength - offset) : IsCutAtFiles(offset, len)
<1> SUFFICES ASSUME NEW offset \in 0..(TotalLength - 1), NEW len \in 0..(TotalLength - offset),
                    NEW x \in 0..(len - 1)
             PROVE  LET w == SearchPtrs(offset, len)
                        Place(k, y) == Offset(w[k].file) + w[k].ptr + (y - w[k].data)
                    IN  \E k \in DOMAIN w :
                          /\ \A j \in DOMAIN w : x \in PositionsOf(w[j]) <=> j = k
                          /\ Place(k, x) = offset + x
                          /\ Place(k, x) < Offset(w[k].file + 1)
  BY DEF IsCutAtFiles
<1> DEFINE s == [file |-> SearchIndex(offset), ptr |-> offset - Offset(SearchIndex(offset)),
                 data |-> 0, len |-> len]
           w == SearchPtrs(offset, len)
<1>1. s \in Segment /\ Start(s) = offset /\ Cuts(w, s)
  BY WholeRange
<1>2. s.data = 0 /\ s.len = len /\ x \in PositionsOf(s)
  BY DEF PositionsOf
<1> HIDE DEF s, w
<1>3. PICK k \in DOMAIN w :
        x \in PositionsOf(w[k]) /\ \A j \in DOMAIN w : x \in PositionsOf(w[j]) => j = k
  BY <1>1, <1>2 DEF Cuts
<1>4. w[k] \in Segment
  BY <1>1 DEF Cuts
<1>5. Start(w[k]) - w[k].data = offset /\ w[k].ptr + w[k].len <= Offset(w[k].file + 1) - Offset(w[k].file)
  BY <1>1, <1>2 DEF Cuts
<1>6. x \in Int /\ x < w[k].data + w[k].len /\ w[k].data \in Nat /\ w[k].len \in Nat /\ w[k].ptr \in Nat
        /\ Offset(w[k].file) \in Nat /\ Offset(w[k].file + 1) \in Nat /\ offset \in Nat
  BY <1>3, <1>4, SegmentType, OffsetsType DEF PositionsOf
<1>7. Offset(w[k].file) + w[k].ptr + (x - w[k].data) = offset + x
  BY <1>5, <1>6 DEF Start
<1>8. Offset(w[k].file) + w[k].ptr + (x - w[k].data) < Offset(w[k].file + 1)
  BY <1>5, <1>6
<1> QED  BY <1>3, <1>7, <1>8 DEF w

(* verify_file visits every file that begins before the end of the piece    *)
(* and does not come before the one that the search finds.                  *)
LEMMA TouchesFromFirst ==
  ASSUME NEW p \in Pieces, NEW f \in Files,
         SearchIndex(PieceOffset(p)) <= f, Offset(f) < PieceOffset(p) + PieceSize(p)
  PROVE  f \in TouchedFiles(p)
<1> DEFINE first == SearchIndex(PieceOffset(p))
           s == [file |-> first, ptr |-> PieceOffset(p) - Offset(first),
                 data |-> 0, len |-> PieceSize(p)]
           w == SearchPtrs(PieceOffset(p), PieceSize(p))
<1>1. PieceOffset(p) \in 0..(TotalLength - 1) /\ PieceSize(p) \in 0..(TotalLength - PieceOffset(p))
  BY PieceFits, OffsetsType
<1>2. s \in Segment /\ Start(s) = PieceOffset(p) /\ Found(first, PieceOffset(p)) /\ Cuts(w, s)
  BY <1>1, WholeRange
<1>3. s.file = first /\ s.len = PieceSize(p)
  OBVIOUS
<1> HIDE DEF first, s, w
<1>4. first \in Files
  BY <1>2 DEF Found
<1>5. first <= f
  BY DEF first
<1>6. f = first \/ f > first
  BY <1>4, <1>5, OffsetsType DEF Files
<1>7. \E k \in DOMAIN w : w[k].file = f
  BY <1>2, <1>3, <1>6 DEF Cuts
<1> QED  BY <1>7 DEF TouchedFiles, w

(* In particular every file that ends after the piece's start.              *)
LEMMA TouchesFiles ==
  ASSUME NEW p \in Pieces, NEW f \in Files,
         PieceOffset(p) < Offset(f + 1), Offset(f) < PieceOffset(p) + PieceSize(p)
  PROVE  f \in TouchedFiles(p)
<1> DEFINE first == SearchIndex(PieceOffset(p))
<1>1. PieceOffset(p) \in 0..(TotalLength - 1)
  BY PieceFits, OffsetsType
<1>2. Found(first, PieceOffset(p))
  BY <1>1, SearchIndexFinds
<1> HIDE DEF first
<1>3. first \in Files /\ Offset(first) <= PieceOffset(p)
  BY <1>2 DEF Found
<1>4. ~(first > f)
  <2>1. SUFFICES ASSUME first > f PROVE FALSE
    OBVIOUS
  <2>2. first \in 0..NumFiles /\ f + 1 \in 0..NumFiles /\ f + 1 <= first
    BY <1>3, <2>1, OffsetsType DEF Files
  <2>3. Offset(f + 1) <= Offset(first) /\ Offset(f + 1) \in Nat /\ Offset(first) \in Nat
    BY <2>2, OffsetsRise, OffsetsType
  <2> QED  BY <1>3, <2>3, PieceFits
<1>5. first <= f
  BY <1>3, <1>4, OffsetsType DEF Files
<1> QED  BY <1>5, TouchesFromFirst DEF first
=============================================================================
