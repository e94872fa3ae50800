----------------------------- MODULE WireProofs -----------------------------
(***************************************************************************)
(* What a connection delivers for any messages, any number of pieces and    *)
(* any hashes, wherever the stream is cut off.                              *)
(***************************************************************************)
EXTENDS Wire, SequenceTheorems, TLAPS

(* Sequences.  The elements of a concatenation are those of its parts.      *)
LEMMA Concat ==
  ASSUME NEW S, NEW s \in Seq(S), NEW t \in Seq(S)
  PROVE  /\ s \o t \in Seq(S) /\ Len(s \o t) = Len(s) + Len(t)
         /\ Len(s) \in Nat /\ Len(t) \in Nat
         /\ \A i \in 1..Len(s) : (s \o t)[i] = s[i]
         /\ \A i \in 1..Len(t) : (s \o t)[Len(s) + i] = t[i]
<1>1. s \o t \in Seq(S) /\ Len(s) \in Nat /\ Len(t) \in Nat
  OBVIOUS
<1>2. /\ Len(s \o t) = Len(s) + Len(t)
      /\ \A i \in 1..(Len(s) + Len(t)) : (s \o t)[i] = IF i <= Len(s) THEN s[i] ELSE t[i - Len(s)]
  BY ConcatProperties
<1>3. ASSUME NEW i \in 1..Len(t) PROVE (s \o t)[Len(s) + i] = t[i]
  <2>1. Len(s) + i \in 1..(Len(s) + Len(t)) /\ ~(Len(s) + i <= Len(s)) /\ Len(s) + i - Len(s) = i
    BY <1>1
  <2> QED  BY <1>2, <2>1
<1>4. \A i \in 1..Len(s) : (s \o t)[i] = s[i]
  BY <1>1, <1>2
<1> QED  BY <1>1, <1>2, <1>3, <1>4

LEMMA SameSequence ==
  ASSUME NEW S, NEW s \in Seq(S), NEW t \in Seq(S), Len(s) = Len(t),
         \A i \in 1..Len(s) : s[i] = t[i]
  PROVE  s = t
BY SeqEqual

LEMMA Part ==
  ASSUME NEW S, NEW s \in Seq(S), NEW m \in Nat \ {0}, NEW n \in Nat, m <= n + 1, n <= Len(s)
  PROVE  /\ SubSeq(s, m, n) \in Seq(S) /\ Len(SubSeq(s, m, n)) = n - m + 1
         /\ \A i \in 1..(n - m + 1) : SubSeq(s, m, n)[i] = s[m + i - 1]
<1>1. Len(s) \in Nat
  OBVIOUS
<1>2. Len(SubSeq(s, m, n)) = n - m + 1 /\ \A i \in 1..(n - m + 1) : SubSeq(s, m, n)[i] = s[m + i - 1]
  <2>1. m \in 1..(Len(s) + 1) /\ n \in (m - 1)..Len(s)
    BY <1>1
  <2> QED  BY <2>1, SubSeqProperties
<1>3. SubSeq(s, m, n) \in Seq(S)
  BY <1>1
<1> QED  BY <1>2, <1>3

(* q is s from m to n.                                                      *)
IsPart(q, s, m, n) == Len(q) = n - m + 1 /\ \A i \in 1..(n - m + 1) : q[i] = s[m + i - 1]

LEMMA PartIs ==
  ASSUME NEW S, NEW s \in Seq(S), NEW m \in Nat \ {0}, NEW n \in Nat, m <= n + 1, n <= Len(s)
  PROVE  SubSeq(s, m, n) \in Seq(S) /\ IsPart(SubSeq(s, m, n), s, m, n)
BY Part DEF IsPart

(* s is what is left of t when its end is cut off.                          *)
CutFrom(s, t) == Len(s) <= Len(t) /\ \A i \in 1..Len(s) : s[i] = t[i]
-----------------------------------------------------------------------------
(* Numbers and bitfields.                                                   *)
LEMMA WordIsKept ==
  ASSUME NEW n \in Nat
  PROVE  /\ U32ToBytes(n) \in Seq(Nat) /\ Len(U32ToBytes(n)) = 4
         /\ \A s : (\A i \in 1..4 : s[i] = U32ToBytes(n)[i]) => BytesToU32(s) = n
<1> DEFINE w == U32ToBytes(n)
<1>1. w = <<n \div 16777216, (n \div 65536) % 256, (n \div 256) % 256, n % 256>>
  BY DEF U32ToBytes
<1>2. n \div 16777216 \in Nat /\ (n \div 65536) % 256 \in Nat /\ (n \div 256) % 256 \in Nat /\ n % 256 \in Nat
  OBVIOUS
<1>3. w \in Seq(Nat) /\ Len(w) = 4
  BY <1>1, <1>2
<1>4. w[1] * 16777216 + w[2] * 65536 + w[3] * 256 + w[4] = n
  <2>1. n = (n \div 256) * 256 + (n % 256)
    OBVIOUS
  <2>2. (n \div 256) \in Nat /\ n \div 65536 = (n \div 256) \div 256
    OBVIOUS
  <2>3. n \div 256 = (n \div 65536) * 256 + ((n \div 256) % 256)
    BY <2>2
  <2>4. n \div 65536 \in Nat /\ n \div 16777216 = (n \div 65536) \div 256
    OBVIOUS
  <2>5. n \div 65536 = (n \div 16777216) * 256 + ((n \div 65536) % 256)
    BY <2>4
  <2>6. w[1] = n \div 16777216 /\ w[2] = (n \div 65536) % 256 /\ w[3] = (n \div 256) % 256 /\ w[4] = n % 256
    BY <1>1
  <2> HIDE DEF w
  <2> QED  BY <1>2, <2>1, <2>2, <2>3, <2>4, <2>5, <2>6
<1> HIDE DEF w
<1>5. ASSUME NEW s, \A i \in 1..4 : s[i] = w[i] PROVE BytesToU32(s) = n
  <2>1. s[1] = w[1] /\ s[2] = w[2] /\ s[3] = w[3] /\ s[4] = w[4]
    BY <1>5
  <2> QED  BY <1>4, <2>1 DEF BytesToU32
<1> QED  BY <1>3, <1>5 DEF w

(* The remote side notes the pieces that we have, be their number a         *)
(* multiple of 8 or not.                                                    *)
THEOREM BitfieldIsKept ==
  ASSUME NEW pieces, pieces \subseteq 0..(NumPieces - 1)
  PROVE  /\ BitfieldBytes(pieces) \in Seq(Nat)
         /\ BitfieldPieces(BitfieldBytes(pieces)) = pieces
<1> DEFINE bytes == BitfieldBytes(pieces)
           Bit(i) == IF i \in pieces THEN Mask(i) ELSE 0
           first(k) == 8 * (k - 1)
           size == (NumPieces + 7) \div 8
<1>1. NumPieces \in Nat /\ size \in Nat
  BY WireAssumption
<1>2. \A k \in Nat \ {0} : /\ first(k) % 8 = 0 /\ (first(k) + 1) % 8 = 1 /\ (first(k) + 2) % 8 = 2
                           /\ (first(k) + 3) % 8 = 3 /\ (first(k) + 4) % 8 = 4
                           /\ (first(k) + 5) % 8 = 5 /\ (first(k) + 6) % 8 = 6
                           /\ (first(k) + 7) % 8 = 7
  OBVIOUS
<1>3. \A k \in Nat \ {0} : /\ Mask(first(k)) = 128 /\ Mask(first(k) + 1) = 64 /\ Mask(first(k) + 2) = 32
                           /\ Mask(first(k) + 3) = 16 /\ Mask(first(k) + 4) = 8
                           /\ Mask(first(k) + 5) = 4 /\ Mask(first(k) + 6) = 2
                           /\ Mask(first(k) + 7) = 1
  BY <1>2 DEF Mask
<1>4. bytes = [k \in 1..size |->
        Bit(first(k)) + Bit(first(k) + 1) + Bit(first(k) + 2) + Bit(first(k) + 3)
          + Bit(first(k) + 4) + Bit(first(k) + 5) + Bit(first(k) + 6) + Bit(first(k) + 7)]
  BY DEF BitfieldBytes
<1> HIDE DEF bytes, first, size
<1>5. ASSUME NEW k \in 1..size
      PROVE  /\ bytes[k] \in Nat
             /\ \A j \in 0..7 : (bytes[k] \div Mask(first(k) + j)) % 2 = 1 <=> first(k) + j \in pieces
  <2>1. k \in Nat \ {0} /\ first(k) \in Nat
    BY <1>1 DEF first
  <2>2. /\ Bit(first(k)) \in {0, 128} /\ Bit(first(k) + 1) \in {0, 64} /\ Bit(first(k) + 2) \in {0, 32}
        /\ Bit(first(k) + 3) \in {0, 16} /\ Bit(first(k) + 4) \in {0, 8}
        /\ Bit(first(k) + 5) \in {0, 4} /\ Bit(first(k) + 6) \in {0, 2} /\ Bit(first(k) + 7) \in {0, 1}
    BY <1>3, <2>1
  <2>3. /\ Bit(first(k)) = 128 <=> first(k) \in pieces
        /\ Bit(first(k) + 1) = 64 <=> first(k) + 1 \in pieces
        /\ Bit(first(k) + 2) = 32 <=> first(k) + 2 \in pieces
        /\ Bit(first(k) + 3) = 16 <=> first(k) + 3 \in pieces
        /\ Bit(first(k) + 4) = 8 <=> first(k) + 4 \in pieces
        /\ Bit(first(k) + 5) = 4 <=> first(k) + 5 \in pieces
        /\ Bit(first(k) + 6) = 2 <=> first(k) + 6 \in pieces
        /\ Bit(first(k) + 7) = 1 <=> first(k) + 7 \in pieces
    BY <1>3, <2>1
  <2> DEFINE a == Bit(first(k))  b == Bit(first(k) + 1)  c == Bit(first(k) + 2)
             d == Bit(first(k) + 3)  e == Bit(first(k) + 4)  f == Bit(first(k) + 5)
             g == Bit(first(k) + 6)  h == Bit(first(k) + 7)
  <2>4. bytes[k] = a + b + c + d + e + f + g + h
    BY <1>4
  <2>5. a \in {0, 128} /\ b \in {0, 64} /\ c \in {0, 32} /\ d \in {0, 16}
          /\ e \in {0, 8} /\ f \in {0, 4} /\ g \in {0, 2} /\ h \in {0, 1}
    BY <2>2
  <2> HIDE DEF a, b, c, d, e, f, g, h
  <2>6. bytes[k] \in Nat
    BY <2>4, <2>5
  <2>7. (bytes[k] \div 128) % 2 = 1 <=> a = 128
    BY <2>4, <2>5
  <2>8. (bytes[k] \div 64) % 2 = 1 <=> b = 64
    BY <2>4, <2>5
  <2>9. (bytes[k] \div 32) % 2 = 1 <=> c = 32
    BY <2>4, <2>5
  <2>10. (bytes[k] \div 16) % 2 = 1 <=> d = 16
    BY <2>4, <2>5
  <2>11. (bytes[k] \div 8) % 2 = 1 <=> e = 8
    BY <2>4, <2>5
  <2>12. (bytes[k] \div 4) % 2 = 1 <=> f = 4
    BY <2>4, <2>5
  <2>13. (bytes[k] \div 2) % 2 = 1 <=> g = 2
    BY <2>4, <2>5
  <2>14. (bytes[k] \div 1) % 2 = 1 <=> h = 1
    BY <2>4, <2>5
  <2>15. ASSUME NEW j \in 0..7
        PROVE  (bytes[k] \div Mask(first(k) + j)) % 2 = 1 <=> first(k) + j \in pieces
    <3>1. first(k) + 0 = first(k)
      BY <2>1
    <3>2. j = 0 \/ j = 1 \/ j = 2 \/ j = 3 \/ j = 4 \/ j = 5 \/ j = 6 \/ j = 7
      OBVIOUS
    <3> QED  BY <1>3, <2>1, <2>3, <2>7, <2>8, <2>9, <2>10, <2>11, <2>12, <2>13, <2>14, <3>1, <3>2
         DEF a, b, c, d, e, f, g, h
  <2> QED  BY <2>6, <2>15
<1>6. bytes \in Seq(Nat)
  <2>1. bytes \in [1..size -> Nat]
    BY <1>4, <1>5
  <2> QED  BY <1>1, <2>1
<1>7. ASSUME NEW i \in 0..(NumPieces - 1)
      PROVE  (bytes[(i \div 8) + 1] \div Mask(i)) % 2 = 1 <=> i \in pieces
  <2>1. i \in Nat /\ i <= NumPieces - 1
    BY <1>1
  <2>2. (i \div 8) + 1 \in 1..size
    BY <1>1, <2>1 DEF size
  <2>3. i % 8 \in 0..7 /\ first((i \div 8) + 1) + (i % 8) = i
    BY <2>1 DEF first
  <2> QED  BY <1>5, <2>2, <2>3
<1>8. BitfieldPieces(bytes) = pieces
  BY <1>7 DEF BitfieldPieces
<1> QED  BY <1>6, <1>8 DEF bytes
-----------------------------------------------------------------------------
(* The contents of frames.                                                  *)
LEMMA SameWord ==
  ASSUME NEW s, NEW t, \A i \in 1..4 : s[i] = t[i]
  PROVE  BytesToU32(s) = BytesToU32(t)
<1>1. s[1] = t[1] /\ s[2] = t[2] /\ s[3] = t[3] /\ s[4] = t[4]
  OBVIOUS
<1> QED  BY <1>1, SMT DEF BytesToU32

LEMMA FirstWord ==
  ASSUME NEW b \in Seq(Nat), Len(b) >= 4
  PROVE  Words32(b)[1] = BytesToU32(b)
<1>1. Len(b) \in Nat /\ 1 \in 1..(Len(b) \div 4)
  OBVIOUS
<1>2. Words32(b)[1] = BytesToU32(SubSeq(b, 1, 4))
  BY <1>1 DEF Words32
<1>3. \A i \in 1..4 : SubSeq(b, 1, 4)[i] = b[i]
  <2>1. \A i \in 1..(4 - 1 + 1) : SubSeq(b, 1, 4)[i] = b[1 + i - 1]
    BY <1>1, Part
  <2> QED  BY <2>1
<1>4. BytesToU32(SubSeq(b, 1, 4)) = BytesToU32(b)
  BY <1>3, SameWord
<1> QED  BY <1>2, <1>4

LEMMA WordOf ==
  ASSUME NEW b \in Seq(Nat), NEW k \in Nat \ {0}, 4 * k <= Len(b)
  PROVE  \A i \in 1..4 : SubSeq(b, 4 * k - 3, 4 * k)[i] = b[4 * k - 3 + i - 1]
<1>1. /\ 4 * k - 3 \in Nat \ {0} /\ 4 * k \in Nat /\ 4 * k - 3 <= 4 * k + 1
      /\ 4 * k - (4 * k - 3) + 1 = 4
  OBVIOUS
<1>2. \A i \in 1..(4 * k - (4 * k - 3) + 1) : SubSeq(b, 4 * k - 3, 4 * k)[i] = b[4 * k - 3 + i - 1]
  BY <1>1, Part
<1> QED  BY <1>1, <1>2

(* A number before b is its first word, and the words of b come after it.   *)
Leads(n, b, c) ==
  /\ c \in Seq(Nat) /\ Len(c) = Len(b) + 4 /\ Len(b) \in Nat
  /\ BytesToU32(c) = n /\ Words32(c)[1] = n
  /\ \A k \in 1..(Len(b) \div 4) : Words32(c)[k + 1] = Words32(b)[k]
  /\ \A i \in 1..Len(b) : c[4 + i] = b[i]

LEMMA WordBefore ==
  ASSUME NEW n \in Nat, NEW b \in Seq(Nat), NEW c, c = U32ToBytes(n) \o b
  PROVE  Leads(n, b, c)
<1>1. PICK a \in Seq(Nat) : /\ a = U32ToBytes(n) /\ Len(a) = 4
                           /\ \A s : (\A i \in 1..4 : s[i] = a[i]) => BytesToU32(s) = n
  BY WordIsKept
<1>2. /\ c \in Seq(Nat) /\ Len(c) = Len(b) + 4 /\ Len(b) \in Nat
      /\ \A i \in 1..4 : c[i] = a[i]
      /\ \A i \in 1..Len(b) : c[4 + i] = b[i]
  <2>1. c = a \o b
    BY <1>1
  <2>2. /\ a \o b \in Seq(Nat) /\ Len(a \o b) = Len(a) + Len(b) /\ Len(b) \in Nat
        /\ \A i \in 1..Len(a) : (a \o b)[i] = a[i]
        /\ \A i \in 1..Len(b) : (a \o b)[Len(a) + i] = b[i]
    BY Concat
  <2>3. Len(a) = 4
    BY <1>1
  <2>4. PICK l : l = Len(b) /\ l \in Nat
    BY <2>2
  <2>5. c \in Seq(Nat) /\ Len(c) = l + 4
    BY <2>1, <2>2, <2>3, <2>4
  <2>6. \A i \in 1..4 : c[i] = a[i]
    BY <2>1, <2>2, <2>3
  <2>7. \A i \in 1..Len(b) : c[4 + i] = b[i]
    BY <2>1, <2>2, <2>3
  <2> QED  BY <2>4, <2>5, <2>6, <2>7
<1>3. BytesToU32(c) = n
  <2>1. \A i \in 1..4 : c[i] = a[i]
    BY <1>2
  <2> QED  BY <1>1, <2>1
<1>4. Words32(c)[1] = n
  <2>1. c \in Seq(Nat) /\ Len(c) >= 4
    BY <1>2
  <2> QED  BY <1>3, <2>1, FirstWord
<1>5. ASSUME NEW k \in 1..(Len(b) \div 4) PROVE Words32(c)[k + 1] = Words32(b)[k]
  <2> DEFINE n1 == Len(b)  n2 == Len(c)
  <2>0. n1 \in Nat /\ n2 = n1 + 4
    BY <1>2
  <2>1. k \in Nat \ {0} /\ 4 * k <= n1 /\ k + 1 \in 1..(n2 \div 4)
    <3> HIDE DEF n1, n2
    <3>1. k \in 1..(n1 \div 4)
      BY DEF n1
    <3> QED  BY <2>0, <3>1
  <2>2. /\ Words32(b)[k] = BytesToU32(SubSeq(b, 4 * k - 3, 4 * k))
        /\ Words32(c)[k + 1] = BytesToU32(SubSeq(c, 4 * (k + 1) - 3, 4 * (k + 1)))
    BY <2>1 DEF Words32
  <2>3. \A i \in 1..4 : SubSeq(b, 4 * k - 3, 4 * k)[i] = b[4 * k - 3 + i - 1]
    BY <2>1, WordOf
  <2>4. \A i \in 1..4 : SubSeq(c, 4 * (k + 1) - 3, 4 * (k + 1))[i] = c[4 * (k + 1) - 3 + i - 1]
    <3>1. c \in Seq(Nat)
      BY <1>2
    <3>2. k + 1 \in Nat \ {0} /\ 4 * (k + 1) <= Len(c)
      <4> HIDE DEF n1, n2
      <4>1. 4 * (k + 1) = 4 * k + 4 /\ k + 1 \in Nat \ {0}
        BY <2>1
      <4>2. 4 * (k + 1) <= n2
        BY <2>0, <2>1, <4>1
      <4> QED  BY <4>1, <4>2 DEF n2
    <3> QED  BY <3>1, <3>2, WordOf
  <2>5. \A i \in 1..4 : c[4 * (k + 1) - 3 + i - 1] = b[4 * k - 3 + i - 1]
    <3>1. \A i \in 1..4 : /\ 4 * (k + 1) - 3 + i - 1 = 4 + (4 * k - 3 + i - 1)
                          /\ 4 * k - 3 + i - 1 \in 1..Len(b)
      <4> SUFFICES ASSUME NEW i \in 1..4
                   PROVE  /\ 4 * (k + 1) - 3 + i - 1 = 4 + (4 * k - 3 + i - 1)
                          /\ 4 * k - 3 + i - 1 \in 1..n1
        OBVIOUS
      <4> HIDE DEF n1, n2
      <4>1. PICK h : h = 4 * k /\ h \in Nat /\ 4 <= h /\ h <= n1 /\ 4 * (k + 1) = h + 4
        BY <2>1
      <4>2. i \in Nat /\ 1 <= i /\ i <= 4
        OBVIOUS
      <4>3. 4 * (k + 1) - 3 + i - 1 = 4 + (4 * k - 3 + i - 1)
        BY <4>1, <4>2
      <4>4. 4 * k - 3 + i - 1 \in 1..n1
        BY <2>0, <4>1, <4>2
      <4> QED  BY <4>3, <4>4
    <3>2. \A i \in 1..Len(b) : c[4 + i] = b[i]
      BY <1>2
    <3> QED  BY <3>1, <3>2
  <2>6. \A i \in 1..4 : SubSeq(c, 4 * (k + 1) - 3, 4 * (k + 1))[i] = SubSeq(b, 4 * k - 3, 4 * k)[i]
    BY <2>3, <2>4, <2>5
  <2>7. BytesToU32(SubSeq(c, 4 * (k + 1) - 3, 4 * (k + 1))) = BytesToU32(SubSeq(b, 4 * k - 3, 4 * k))
    BY <2>6, SameWord
  <2> QED  BY <2>2, <2>7
<1> QED  BY <1>2, <1>3, <1>4, <1>5 DEF Leads

Heads(id, b, p) == p \in Seq(Nat) /\ p # <<>> /\ p[1] = id /\ Tail(p) = b

LEMMA Headed ==
  ASSUME NEW id \in Nat, NEW b \in Seq(Nat)
  PROVE  Heads(id, b, <<id>> \o b)
<1>1. PICK one \in Seq(Nat) : one = <<id>> /\ Len(one) = 1 /\ one[1] = id
  <2>1. <<id>> \in Seq(Nat) /\ Len(<<id>>) = 1 /\ <<id>>[1] = id
    OBVIOUS
  <2> QED  BY <2>1
<1>2. PICK p : p = one \o b
  OBVIOUS
<1>3. /\ one \o b \in Seq(Nat) /\ Len(one \o b) = Len(one) + Len(b) /\ Len(b) \in Nat
      /\ \A i \in 1..Len(one) : (one \o b)[i] = one[i]
      /\ \A i \in 1..Len(b) : (one \o b)[Len(one) + i] = b[i]
  BY Concat
<1>4. p \in Seq(Nat) /\ Len(p) = 1 + Len(b) /\ Len(b) \in Nat
  BY <1>1, <1>2, <1>3
<1>5. p[1] = id /\ \A i \in 1..Len(b) : p[1 + i] = b[i]
  BY <1>1, <1>2, <1>3
<1>6. p # <<>>
  BY <1>4
<1>7. Tail(p) \in Seq(Nat) /\ Len(Tail(p)) = Len(b) /\ \A i \in 1..Len(b) : Tail(p)[i] = p[i + 1]
  BY <1>4, <1>6, HeadTailProperties
<1>8. \A i \in 1..Len(b) : Tail(p)[i] = b[i]
  <2>1. \A i \in 1..Len(b) : i + 1 = 1 + i
    BY <1>4
  <2> QED  BY <1>5, <1>7, <2>1
<1>9. Tail(p) = b
  BY <1>7, <1>8, SameSequence
<1>10. p = <<id>> \o b
  BY <1>1, <1>2
<1>11. Heads(id, b, p)
  BY <1>4, <1>5, <1>6, <1>9 DEF Heads
<1> QED  BY <1>10, <1>11

(* What a frame with payload p is read as.                                  *)
ReadsAs(p, m) ==
  /\ p \in Seq(Nat)
  /\ p = <<>> => m = <<"KeepAlive">>
  /\ p # <<>> => TooShort(p[1], Tail(p)) \/ Message(p[1], Tail(p)) = m

LEMMA BodyIsRead ==
  ASSUME NEW id \in Nat, NEW body \in Seq(Nat), NEW p, p = <<id>> \o body, NEW r,
         TooShort(id, body) \/ Message(id, body) = r
  PROVE  ReadsAs(p, r)
<1>1. Heads(id, body, p)
  BY Headed
<1>2. p \in Seq(Nat) /\ p # <<>> /\ p[1] = id /\ Tail(p) = body
  BY <1>1 DEF Heads
<1> QED  BY <1>2 DEF ReadsAs

LEMMA ReadPlain ==
  ASSUME NEW m, m = <<m[1]>>,
         m[1] \in {"KeepAlive", "Choke", "UnChoke", "Interested", "NotInterested", "Port"}
  PROVE  ReadsAs(Payload(m), ReadAs(m))
<1>1. ReadAs(m) = m
  BY DEF ReadAs
<1>2. CASE m[1] = "KeepAlive"
  BY <1>1, <1>2 DEF Payload, ReadsAs
<1>3. CASE m[1] # "KeepAlive"
  <2>1. Payload(m) = <<Id(m[1])>> /\ Id(m[1]) \in {0, 1, 2, 3, 9}
    BY <1>3 DEF Payload, Id
  <2>2. Payload(m) \in Seq(Nat) /\ Payload(m) # <<>> /\ Payload(m)[1] = Id(m[1])
    BY <2>1
  <2>3. Message(Id(m[1]), Tail(Payload(m))) = <<m[1]>>
    <3>1. PICK body : body = Tail(Payload(m))
      OBVIOUS
    <3>2. /\ Message(0, body) = <<"Choke">> /\ Message(1, body) = <<"UnChoke">>
          /\ Message(2, body) = <<"Interested">> /\ Message(3, body) = <<"NotInterested">>
          /\ Message(9, body) = <<"Port">>
      BY DEF Message
    <3>3. /\ Id("Choke") = 0 /\ Id("UnChoke") = 1 /\ Id("Interested") = 2
          /\ Id("NotInterested") = 3 /\ Id("Port") = 9
      BY DEF Id
    <3> QED  BY <1>3, <3>1, <3>2, <3>3
  <2> QED  BY <1>1, <2>2, <2>3 DEF ReadsAs
<1> QED  BY <1>2, <1>3

LEMMA ReadHave ==
  ASSUME NEW x \in Nat
  PROVE  ReadsAs(Payload(<<"Have", x>>), ReadAs(<<"Have", x>>))
<1>1. ReadAs(<<"Have", x>>) = <<"Have", x>>
  BY DEF ReadAs
<1>2. PICK body \in Seq(Nat) : body = U32ToBytes(x) /\ Len(body) = 4 /\ BytesToU32(body) = x
  BY WordIsKept
<1>3. Payload(<<"Have", x>>) = <<4>> \o body
  BY <1>2 DEF Payload, Id
<1>4. Words32(body)[1] = x
  <2>1. Len(body) >= 4
    BY <1>2
  <2> QED  BY <1>2, <2>1, FirstWord
<1>5. Message(4, body) = <<"Have", x>>
  BY <1>4 DEF Message
<1>6. 4 \in Nat
  OBVIOUS
<1>7. ReadsAs(Payload(<<"Have", x>>), <<"Have", x>>)
  BY <1>3, <1>5, <1>6, BodyIsRead
<1> QED  BY <1>1, <1>7

LEMMA ReadBitfield ==
  ASSUME NEW pieces, pieces \subseteq 0..(NumPieces - 1)
  PROVE  ReadsAs(Payload(<<"Bitfield", pieces>>), ReadAs(<<"Bitfield", pieces>>))
<1>1. PICK body \in Seq(Nat) : body = BitfieldBytes(pieces)
  BY BitfieldIsKept
<1>2. ReadAs(<<"Bitfield", pieces>>) = <<"Bitfield", body>>
  BY <1>1 DEF ReadAs
<1>3. Payload(<<"Bitfield", pieces>>) = <<5>> \o body
  BY <1>1 DEF Payload, Id
<1>4. Message(5, body) = <<"Bitfield", body>>
  BY DEF Message
<1>5. 5 \in Nat
  OBVIOUS
<1>6. ReadsAs(Payload(<<"Bitfield", pieces>>), <<"Bitfield", body>>)
  BY <1>3, <1>4, <1>5, BodyIsRead
<1> QED  BY <1>2, <1>6

(* Two numbers before c: if c is long enough its first word is the third.   *)
TwoLead(x, y, c, body) ==
  /\ body \in Seq(Nat) /\ Len(body) = Len(c) + 8 /\ Len(c) \in Nat
  /\ Words32(body)[1] = x
  /\ Len(c) >= 4 => Words32(body)[2] = y /\ Words32(body)[3] = BytesToU32(c)

LEMMA TwoWordsBefore ==
  ASSUME NEW x \in Nat, NEW y \in Nat, NEW c \in Seq(Nat), NEW b, b = U32ToBytes(y) \o c,
         NEW body, body = U32ToBytes(x) \o b
  PROVE  TwoLead(x, y, c, body)
<1>1. Leads(y, c, b)
  BY WordBefore
<1>2. b \in Seq(Nat) /\ Len(b) = Len(c) + 4 /\ Len(c) \in Nat /\ Words32(b)[1] = y
  BY <1>1 DEF Leads
<1>3. Leads(x, b, body)
  BY <1>2, WordBefore
<1>4. body \in Seq(Nat) /\ Len(body) = Len(b) + 4 /\ Words32(body)[1] = x
  BY <1>3 DEF Leads
<1>5. ASSUME Len(c) >= 4 PROVE Words32(body)[2] = y /\ Words32(body)[3] = BytesToU32(c)
  <2>1. 1 \in 1..(Len(c) \div 4) /\ 1 \in 1..(Len(b) \div 4) /\ 2 \in 1..(Len(b) \div 4)
    <3>1. PICK h \in Nat, k \in Nat : h = Len(c) /\ k = Len(b)
      BY <1>2
    <3>2. h >= 4 /\ k = h + 4
      BY <1>2, <1>5, <3>1
    <3>3. 1 \in 1..(h \div 4) /\ 1 \in 1..(k \div 4) /\ 2 \in 1..(k \div 4)
      BY <3>2
    <3> QED  BY <3>1, <3>3
  <2>2. Words32(body)[1 + 1] = Words32(b)[1] /\ Words32(body)[2 + 1] = Words32(b)[2]
    BY <1>3, <2>1 DEF Leads
  <2>3. Words32(b)[1 + 1] = Words32(c)[1]
    BY <1>1, <2>1 DEF Leads
  <2>4. Words32(c)[1] = BytesToU32(c)
    BY <1>5, FirstWord
  <2>5. 1 + 1 = 2 /\ 2 + 1 = 3
    OBVIOUS
  <2> QED  BY <1>2, <2>2, <2>3, <2>4, <2>5
<1> QED  BY <1>2, <1>4, <1>5 DEF TwoLead

Together(a, b, c) == (a \o b) \o c = a \o (b \o c)

LEMMA Joined ==
  ASSUME NEW S, NEW a \in Seq(S), NEW b \in Seq(S), NEW c \in Seq(S)
  PROVE  Together(a, b, c)
<1>1. (a \o b) \o c = a \o (b \o c)
  BY ConcatAssociative
<1> QED  BY <1>1 DEF Together

(* The payload of a message whose numbers are x and y and then c.           *)
LEMMA ThreeParts ==
  ASSUME NEW id \in Nat, NEW x \in Nat, NEW y \in Nat, NEW c \in Seq(Nat),
         NEW p, p = ((<<id>> \o U32ToBytes(x)) \o U32ToBytes(y)) \o c
  PROVE  \E body : p = <<id>> \o body /\ TwoLead(x, y, c, body)
<1>1. PICK u \in Seq(Nat) : u = U32ToBytes(x)
  BY WordIsKept
<1>2. PICK v \in Seq(Nat) : v = U32ToBytes(y)
  BY WordIsKept
<1>3. PICK one \in Seq(Nat) : one = <<id>>
  <2>1. <<id>> \in Seq(Nat)
    OBVIOUS
  <2> QED  BY <2>1
<1>4. PICK b : b = v \o c
  OBVIOUS
<1>5. PICK body : body = u \o b
  OBVIOUS
<1>6. TwoLead(x, y, c, body)
  <2>1. b = U32ToBytes(y) \o c
    BY <1>2, <1>4
  <2>2. body = U32ToBytes(x) \o b
    BY <1>1, <1>5
  <2> QED  BY <2>1, <2>2, TwoWordsBefore
<1>7. ((one \o u) \o v) \o c = one \o (u \o (v \o c))
  <2>1. one \o u \in Seq(Nat) /\ v \o c \in Seq(Nat)
    OBVIOUS
  <2>2. Together(one \o u, v, c) /\ Together(one, u, v \o c)
    BY <2>1, Joined
  <2> QED  BY <2>2 DEF Together
<1>8. p = ((one \o u) \o v) \o c
  <2>1. <<id>> \o U32ToBytes(x) = one \o u
    BY <1>1, <1>3
  <2>2. (<<id>> \o U32ToBytes(x)) \o U32ToBytes(y) = (one \o u) \o v
    BY <1>2, <2>1
  <2> QED  BY <2>2
<1>9. p = one \o body
  BY <1>4, <1>5, <1>7, <1>8
<1>10. p = <<id>> \o body
  BY <1>3, <1>9
<1> QED  BY <1>6, <1>10

LEMMA ReadThreeWords ==
  ASSUME NEW t \in {"Request", "Cancel"}, NEW x \in Nat, NEW y \in Nat, NEW z \in Nat
  PROVE  ReadsAs(Payload(<<t, x, y, z>>), ReadAs(<<t, x, y, z>>))
<1>1. ReadAs(<<t, x, y, z>>) = <<t, x, y, z>>
  BY DEF ReadAs
<1>2. Id("Request") = 6 /\ Id("Cancel") = 8
  BY DEF Id
<1>3. PICK c \in Seq(Nat) : c = U32ToBytes(z) /\ Len(c) = 4 /\ BytesToU32(c) = z
  BY WordIsKept
<1>4. PICK p : p = Payload(<<t, x, y, z>>)
  OBVIOUS
<1>5. PICK id \in Nat : id = Id(t)
  BY <1>2
<1>6. p = ((<<id>> \o U32ToBytes(x)) \o U32ToBytes(y)) \o c
  BY <1>3, <1>4, <1>5 DEF Payload
<1>7. PICK body : p = <<id>> \o body /\ TwoLead(x, y, c, body)
  BY <1>6, ThreeParts
<1>8. body \in Seq(Nat) /\ Words32(body)[1] = x /\ Words32(body)[2] = y /\ Words32(body)[3] = z
  <2>1. Len(c) >= 4
    BY <1>3
  <2> QED  BY <1>3, <1>7, <2>1 DEF TwoLead
<1>9. /\ Message(6, body) = <<"Request", x, y, z>>
      /\ Message(8, body) = <<"Cancel", x, y, z>>
  BY <1>8 DEF Message
<1>10. Message(id, body) = <<t, x, y, z>>
  BY <1>2, <1>5, <1>9
<1>11. ReadsAs(p, <<t, x, y, z>>)
  BY <1>7, <1>8, <1>10, BodyIsRead
<1> QED  BY <1>1, <1>4, <1>11

LEMMA ReadPiece ==
  ASSUME NEW x \in Nat, NEW y \in Nat, NEW c \in Seq(Nat)
  PROVE  ReadsAs(Payload(<<"Piece", x, y, c>>), ReadAs(<<"Piece", x, y, c>>))
<1>1. ReadAs(<<"Piece", x, y, c>>) = <<"Request", x, y, BytesToU32(c)>>
  BY DEF ReadAs
<1>2. PICK p : p = Payload(<<"Piece", x, y, c>>)
  OBVIOUS
<1>3. p = ((<<6>> \o U32ToBytes(x)) \o U32ToBytes(y)) \o c /\ 6 \in Nat
  BY <1>2 DEF Payload, Id
<1>4. PICK body : p = <<6>> \o body /\ TwoLead(x, y, c, body)
  BY <1>3, ThreeParts
<1>5. body \in Seq(Nat) /\ Len(body) = Len(c) + 8 /\ Len(c) \in Nat /\ Words32(body)[1] = x
  BY <1>4 DEF TwoLead
<1>6. TooShort(6, body) \/ Message(6, body) = <<"Request", x, y, BytesToU32(c)>>
  <2>1. CASE Len(c) < 4
    <3>1. Len(body) < 12
      BY <1>5, <2>1
    <3> QED  BY <3>1 DEF TooShort
  <2>2. CASE Len(c) >= 4
    <3>1. Words32(body)[2] = y /\ Words32(body)[3] = BytesToU32(c)
      BY <1>4, <2>2 DEF TwoLead
    <3> QED  BY <1>5, <3>1 DEF Message
  <2> QED  BY <1>5, <2>1, <2>2
<1>7. ReadsAs(p, <<"Request", x, y, BytesToU32(c)>>)
  BY <1>3, <1>4, <1>5, <1>6, BodyIsRead
<1> QED  BY <1>1, <1>2, <1>7

LEMMA PayloadIsRead ==
  ASSUME NEW m \in WireMessages
  PROVE  ReadsAs(Payload(m), ReadAs(m))
<1>1. WellFormed(m)
  BY WireAssumption
<1>2. NumPieces \in Nat
  BY WireAssumption
<1>3. CASE m[1] \in {"KeepAlive", "Choke", "UnChoke", "Interested", "NotInterested", "Port"}
           /\ m = <<m[1]>>
  BY <1>3, ReadPlain
<1>4. CASE m[1] = "Have" /\ m = <<m[1], m[2]>> /\ m[2] \in 0..(NumPieces - 1)
  <2>1. PICK x \in Nat : m = <<"Have", x>>
    BY <1>2, <1>4
  <2> QED  BY <2>1, ReadHave
<1>5. CASE m[1] = "Bitfield" /\ m = <<m[1], m[2]>> /\ m[2] \subseteq 0..(NumPieces - 1)
  <2>1. PICK pieces : m = <<"Bitfield", pieces>> /\ pieces \subseteq 0..(NumPieces - 1)
    BY <1>5
  <2> QED  BY <2>1, ReadBitfield
<1>6. CASE /\ m[1] \in {"Request", "Cancel"} /\ m = <<m[1], m[2], m[3], m[4]>>
           /\ m[2] \in Nat /\ m[3] \in Nat /\ m[4] \in Nat
  <2>1. PICK t \in {"Request", "Cancel"}, x \in Nat, y \in Nat, z \in Nat : m = <<t, x, y, z>>
    BY <1>6
  <2> QED  BY <2>1, ReadThreeWords
<1>7. CASE /\ m[1] = "Piece" /\ m = <<m[1], m[2], m[3], m[4]>>
           /\ m[2] \in Nat /\ m[3] \in Nat /\ m[4] \in Seq(Nat)
  <2>1. PICK x \in Nat, y \in Nat, c \in Seq(Nat) : m = <<"Piece", x, y, c>>
    BY <1>7
  <2> QED  BY <2>1, ReadPiece
<1> QED  BY <1>1, <1>3, <1>4, <1>5, <1>6, <1>7 DEF WellFormed
-----------------------------------------------------------------------------
(* One frame.                                                               *)
(* s, which is cut from a frame of payload p and what comes after it, is    *)
(* read as p if it holds all of p, and leaves what is cut from the rest.    *)
Framed(s, p, rest) ==
  /\ BytesToU32(s) = Len(p)
  /\ Len(s) >= 4 + Len(p) =>
       /\ SubSeq(s, 5, 4 + Len(p)) = p
       /\ After(s, 4 + Len(p)) \in Seq(Nat)
       /\ CutFrom(After(s, 4 + Len(p)), rest)
       /\ Len(s) = 4 + Len(p) + Len(rest) => After(s, 4 + Len(p)) = rest

LEMMA FrameIsRead ==
  ASSUME NEW p \in Seq(Nat), NEW rest \in Seq(Nat), NEW tail, tail = p \o rest,
         NEW full, full = U32ToBytes(Len(p)) \o tail,
         NEW s \in Seq(Nat), CutFrom(s, full), Len(s) >= 4
  PROVE  Framed(s, p, rest)
<1>1. /\ p \o rest \in Seq(Nat) /\ Len(p \o rest) = Len(p) + Len(rest)
      /\ Len(p) \in Nat /\ Len(rest) \in Nat
      /\ \A i \in 1..Len(p) : (p \o rest)[i] = p[i]
      /\ \A i \in 1..Len(rest) : (p \o rest)[Len(p) + i] = rest[i]
  BY Concat
<1>2. PICK a \in Nat : a = Len(p)
  BY <1>1
<1>3. PICK b \in Nat : b = Len(rest)
  BY <1>1
<1>4. PICK n \in Nat : n = Len(s)
  OBVIOUS
<1>5. tail \in Seq(Nat) /\ Len(tail) = a + b
  BY <1>1, <1>2, <1>3
<1>6. \A i \in 1..a : tail[i] = p[i]
  BY <1>1, <1>2
<1>7. \A i \in 1..b : tail[a + i] = rest[i]
  BY <1>1, <1>2, <1>3
<1>8. Leads(a, tail, full)
  BY <1>2, <1>5, WordBefore
<1>9. Len(full) = 4 + a + b /\ BytesToU32(full) = a
  BY <1>5, <1>8 DEF Leads
<1>10. \A i \in 1..(a + b) : full[4 + i] = tail[i]
  BY <1>5, <1>8 DEF Leads
<1>11. n <= 4 + a + b /\ n >= 4
  BY <1>4, <1>9 DEF CutFrom
<1>12. \A i \in 1..n : s[i] = full[i]
  BY <1>4 DEF CutFrom
<1>13. BytesToU32(s) = a
  <2>1. \A i \in 1..4 : s[i] = full[i]
    <3>1. \A i \in 1..4 : i \in 1..n
      BY <1>11
    <3> QED  BY <1>12, <3>1
  <2>2. BytesToU32(s) = BytesToU32(full)
    BY <2>1, SameWord
  <2> QED  BY <1>9, <2>2
<1>14. ASSUME n >= 4 + a
       PROVE  /\ SubSeq(s, 5, 4 + a) = p
              /\ SubSeq(s, 4 + a + 1, n) \in Seq(Nat)
              /\ CutFrom(SubSeq(s, 4 + a + 1, n), rest)
              /\ n = 4 + a + b => SubSeq(s, 4 + a + 1, n) = rest
  <2>1. PICK q : q = SubSeq(s, 5, 4 + a)
    OBVIOUS
  <2>2. q \in Seq(Nat) /\ Len(q) = a /\ \A i \in 1..a : q[i] = s[4 + i]
    <3>1. 5 \in Nat \ {0} /\ 4 + a \in Nat /\ 5 <= 4 + a + 1 /\ 4 + a <= Len(s) /\ 4 + a - 5 + 1 = a
      BY <1>4, <1>14
    <3>2. /\ q \in Seq(Nat) /\ Len(q) = 4 + a - 5 + 1
          /\ \A i \in 1..(4 + a - 5 + 1) : q[i] = s[5 + i - 1]
      <4>1. PICK e : e = 4 + a
        OBVIOUS
      <4>2. e \in Nat /\ 5 \in Nat \ {0} /\ 5 <= e + 1 /\ e <= Len(s)
        BY <3>1, <4>1
      <4>3. q \in Seq(Nat) /\ IsPart(q, s, 5, e)
        BY <2>1, <4>1, <4>2, PartIs
      <4> QED  BY <4>1, <4>3 DEF IsPart
    <3>3. \A i \in 1..a : 5 + i - 1 = 4 + i
      OBVIOUS
    <3> QED  BY <3>1, <3>2, <3>3
  <2>3. ASSUME NEW i \in 1..a PROVE q[i] = p[i]
    <3>1. PICK k : k = 4 + i
      OBVIOUS
    <3>2. k \in 1..n /\ i \in 1..(a + b)
      BY <1>14, <3>1
    <3>3. q[i] = s[k] /\ tail[i] = p[i]
      BY <1>6, <2>2, <3>1
    <3>4. s[k] = full[k] /\ full[k] = tail[i]
      BY <1>10, <1>12, <3>1, <3>2
    <3> QED  BY <3>3, <3>4
  <2>4. q = p
    BY <1>2, <2>2, <2>3, SameSequence
  <2>5. PICK r : r = SubSeq(s, 4 + a + 1, n)
    OBVIOUS
  <2>6. PICK l \in Nat : l = n - (4 + a)
    BY <1>14
  <2>7. r \in Seq(Nat) /\ Len(r) = l /\ \A i \in 1..l : r[i] = s[4 + a + i]
    <3>1. /\ 4 + a + 1 \in Nat \ {0} /\ 4 + a + 1 <= n + 1 /\ n <= Len(s)
          /\ n - (4 + a + 1) + 1 = l
      BY <1>4, <1>14, <2>6
    <3>2. /\ r \in Seq(Nat) /\ Len(r) = n - (4 + a + 1) + 1
          /\ \A i \in 1..(n - (4 + a + 1) + 1) : r[i] = s[4 + a + 1 + i - 1]
      <4>1. PICK e : e = 4 + a + 1
        OBVIOUS
      <4>2. e \in Nat \ {0} /\ e <= n + 1 /\ n <= Len(s)
        BY <3>1, <4>1
      <4>3. r \in Seq(Nat) /\ IsPart(r, s, e, n)
        BY <2>5, <4>1, <4>2, PartIs
      <4> QED  BY <4>1, <4>3 DEF IsPart
    <3>3. \A i \in 1..l : 4 + a + 1 + i - 1 = 4 + a + i
      OBVIOUS
    <3> QED  BY <3>1, <3>2, <3>3
  <2>8. l <= b /\ \A i \in 1..l : r[i] = rest[i]
    <3>1. l <= b
      BY <1>11, <2>6
    <3>2. ASSUME NEW i \in 1..l PROVE r[i] = rest[i]
      <4>1. /\ 4 + a + i \in 1..n /\ 4 + a + i = 4 + (a + i)
            /\ a + i \in 1..(a + b) /\ i \in 1..b
        BY <2>6, <3>1
      <4>2. r[i] = s[4 + a + i] /\ s[4 + a + i] = full[4 + a + i]
        BY <1>12, <2>7, <4>1
      <4>3. full[4 + (a + i)] = tail[a + i] /\ tail[a + i] = rest[i]
        BY <1>7, <1>10, <4>1
      <4> QED  BY <4>1, <4>2, <4>3
    <3> QED  BY <3>1, <3>2
  <2>9. CutFrom(r, rest)
    BY <1>3, <2>7, <2>8 DEF CutFrom
  <2>10. ASSUME n = 4 + a + b PROVE r = rest
    <3>1. l = b
      BY <2>6, <2>10
    <3> QED  BY <1>3, <2>7, <2>8, <3>1, SameSequence
  <2> QED  BY <2>1, <2>4, <2>5, <2>7, <2>9, <2>10
<1> QED  BY <1>2, <1>3, <1>4, <1>13, <1>14 DEF Framed, After
-----------------------------------------------------------------------------
(* The handshake.                                                           *)
HandshakeBytes(hash, id) == Nat \cup {hash, id}

IsHandshake(h, hash, id) ==
  /\ h \in Seq(HandshakeBytes(hash, id))
  /\ Len(Protocol) \in Nat /\ Len(h) = Len(Protocol) + 5
  /\ h[1] = Len(Protocol)
  /\ h[Len(Protocol) + 4] = hash

LEMMA HandshakeParts ==
  ASSUME NEW hash, NEW id, NEW h, h = Handshake(hash, id)
  PROVE  IsHandshake(h, hash, id)
<1>1. PICK B : B = HandshakeBytes(hash, id)
  OBVIOUS
<1>2. PICK n \in Nat : n = Len(Protocol)
  BY WireAssumption
<1>3. PICK a \in Seq(B) : a = <<n>> /\ Len(a) = 1 /\ a[1] = n
  <2>1. n \in B
    BY <1>1 DEF HandshakeBytes
  <2>2. <<n>> \in Seq(B) /\ Len(<<n>>) = 1 /\ <<n>>[1] = n
    BY <2>1
  <2> QED  BY <2>2
<1>4. PICK p \in Seq(B) : p = Protocol /\ Len(p) = n
  <2>1. Protocol \in Seq(Nat) /\ Nat \subseteq B
    BY <1>1, WireAssumption DEF HandshakeBytes
  <2>2. Protocol \in Seq(B)
    BY <2>1
  <2> QED  BY <1>2, <2>2
<1>5. PICK r \in Seq(B) : r = Reserved /\ Len(r) = 2
  <2>1. 0 \in B
    BY <1>1 DEF HandshakeBytes
  <2>2. <<0, 0>> \in Seq(B) /\ Len(<<0, 0>>) = 2
    BY <2>1
  <2> QED  BY <2>2 DEF Reserved
<1>6. PICK t \in Seq(B) : t = <<hash, id>> /\ Len(t) = 2 /\ t[1] = hash
  <2>1. hash \in B /\ id \in B
    BY <1>1 DEF HandshakeBytes
  <2>2. <<hash, id>> \in Seq(B) /\ Len(<<hash, id>>) = 2 /\ <<hash, id>>[1] = hash
    BY <2>1
  <2> QED  BY <2>2
<1>7. PICK ap \in Seq(B) : ap = a \o p /\ Len(ap) = 1 + n /\ ap[1] = n
  <2>1. /\ a \o p \in Seq(B) /\ Len(a \o p) = Len(a) + Len(p)
        /\ \A i \in 1..Len(a) : (a \o p)[i] = a[i]
    BY Concat
  <2>2. Len(a) = 1 /\ Len(p) = n /\ 1 \in 1..Len(a) /\ a[1] = n
    BY <1>3, <1>4
  <2> QED  BY <2>1, <2>2
<1>8. PICK apr \in Seq(B) : apr = ap \o r /\ Len(apr) = n + 3 /\ apr[1] = n
  <2>1. /\ ap \o r \in Seq(B) /\ Len(ap \o r) = Len(ap) + Len(r)
        /\ \A i \in 1..Len(ap) : (ap \o r)[i] = ap[i]
    BY Concat
  <2>2. Len(ap) = 1 + n /\ Len(r) = 2 /\ 1 \in 1..(1 + n) /\ ap[1] = n /\ 1 + n + 2 = n + 3
    BY <1>5, <1>7
  <2> QED  BY <2>1, <2>2
<1>9. PICK w \in Seq(B) : w = apr \o t /\ Len(w) = n + 5 /\ w[1] = n /\ w[n + 4] = hash
  <2>1. /\ apr \o t \in Seq(B) /\ Len(apr \o t) = Len(apr) + Len(t)
        /\ \A i \in 1..Len(apr) : (apr \o t)[i] = apr[i]
        /\ \A i \in 1..Len(t) : (apr \o t)[Len(apr) + i] = t[i]
    BY Concat
  <2>2. /\ Len(apr) = n + 3 /\ Len(t) = 2 /\ 1 \in 1..(n + 3) /\ apr[1] = n /\ 1 \in 1..2
        /\ t[1] = hash /\ n + 3 + 2 = n + 5 /\ n + 3 + 1 = n + 4
    BY <1>6, <1>8
  <2>3. (apr \o t)[1] = n
    BY <2>1, <2>2
  <2>4. (apr \o t)[n + 3 + 1] = t[1]
    BY <2>1, <2>2
  <2> QED  BY <2>1, <2>2, <2>3, <2>4
<1>10. h = w
  BY <1>2, <1>3, <1>4, <1>5, <1>6, <1>7, <1>8, <1>9 DEF Handshake
<1> QED  BY <1>1, <1>2, <1>9, <1>10 DEF IsHandshake

Shaken(s, hash) == HashOf(s) = hash /\ After(s, HandshakeLength(s)) = <<>>

(* What is cut from a handshake and holds a handshake is all of it.         *)
LEMMA HandshakeIsRead ==
  ASSUME NEW hash, NEW id, NEW h, h = Handshake(hash, id),
         NEW s \in Seq(HandshakeBytes(hash, id)), CutFrom(s, h), HasHandshake(s)
  PROVE  Shaken(s, hash)
<1>1. IsHandshake(h, hash, id)
  BY HandshakeParts
<1>2. PICK n \in Nat : n = Len(Protocol)
  BY <1>1 DEF IsHandshake
<1>3. PICK l \in Nat : l = Len(s)
  OBVIOUS
<1>4. Len(h) = n + 5 /\ h[1] = n /\ h[n + 4] = hash
  BY <1>1, <1>2 DEF IsHandshake
<1>5. l <= n + 5 /\ \A i \in 1..l : s[i] = h[i]
  BY <1>3, <1>4 DEF CutFrom
<1>6. l # 0
  BY <1>3 DEF HasHandshake
<1>7. s[1] = n
  <2>1. 1 \in 1..l
    BY <1>6
  <2> QED  BY <1>4, <1>5, <2>1
<1>8. HandshakeLength(s) = n + 5
  <2>1. Len(Reserved) = 2
    BY DEF Reserved
  <2> QED  BY <1>7, <2>1 DEF HandshakeLength
<1>9. l = n + 5
  BY <1>3, <1>5, <1>8 DEF HasHandshake
<1>10. HashOf(s) = hash
  <2>1. HandshakeLength(s) - 1 = n + 4 /\ n + 4 \in 1..l
    BY <1>8, <1>9
  <2> QED  BY <1>4, <1>5, <2>1 DEF HashOf
<1>11. SubSeq(s, l + 1, l) = <<>>
  <2>1. l + 1 \in Nat \ {0} /\ l + 1 <= l + 1 /\ l <= Len(s) /\ l - (l + 1) + 1 = 0
    BY <1>3
  <2>2. /\ SubSeq(s, l + 1, l) \in Seq(HandshakeBytes(hash, id))
        /\ Len(SubSeq(s, l + 1, l)) = l - (l + 1) + 1
    BY <2>1, Part
  <2> QED  BY <2>1, <2>2
<1> QED  BY <1>3, <1>8, <1>9, <1>10, <1>11 DEF Shaken, After
-----------------------------------------------------------------------------
(* The stream.                                                              *)
(* S[k] is what the messages after the k-th are written as.                 *)
IsStream(S, w) ==
  /\ S \in [0..Len(w) -> Seq(Nat)]
  /\ S[Len(w)] = <<>>
  /\ \A k \in 0..(Len(w) - 1) : S[k] = Serialize(w[k + 1]) \o S[k + 1]

LEMMA SerializeType ==
  ASSUME NEW m \in WireMessages
  PROVE  /\ Payload(m) \in Seq(Nat) /\ Len(Payload(m)) \in Nat
         /\ U32ToBytes(Len(Payload(m))) \in Seq(Nat) /\ Serialize(m) \in Seq(Nat)
<1>1. Payload(m) \in Seq(Nat)
  BY PayloadIsRead DEF ReadsAs
<1>2. PICK p \in Seq(Nat) : p = Payload(m)
  BY <1>1
<1>3. PICK l \in Nat : l = Len(p)
  OBVIOUS
<1>4. PICK u \in Seq(Nat) : u = U32ToBytes(l)
  BY WordIsKept
<1>5. u \o p \in Seq(Nat)
  OBVIOUS
<1> QED  BY <1>2, <1>3, <1>4, <1>5 DEF Serialize

LEMMA StreamStarts == IsStream([k \in 0..0 |-> <<>>], <<>>)
<1>1. Len(<<>>) = 0 /\ <<>> \in Seq(Nat) /\ 0..(0 - 1) = {}
  OBVIOUS
<1>2. PICK S : S = [k \in 0..0 |-> <<>>]
  OBVIOUS
<1>3. S \in [0..0 -> Seq(Nat)] /\ S[0] = <<>>
  BY <1>1, <1>2
<1> QED  BY <1>1, <1>2, <1>3 DEF IsStream

(* A message more goes to the end of each of them.                          *)
LEMMA StreamGrows ==
  ASSUME NEW w \in Seq(WireMessages), NEW m \in WireMessages, NEW S, IsStream(S, w)
  PROVE  \E T : /\ IsStream(T, Append(w, m))
                /\ \A k \in 0..Len(w) : T[k] = S[k] \o Serialize(m)
<1>1. PICK n \in Nat : n = Len(w)
  OBVIOUS
<1>2. PICK f \in Seq(Nat) : f = Serialize(m)
  BY SerializeType
<1>3. /\ S \in [0..n -> Seq(Nat)] /\ S[n] = <<>>
      /\ \A k \in 0..(n - 1) : S[k] = Serialize(w[k + 1]) \o S[k + 1]
  BY <1>1 DEF IsStream
<1>4. PICK v : v = Append(w, m)
  OBVIOUS
<1>5. Len(v) = n + 1 /\ v[n + 1] = m /\ \A k \in 1..n : v[k] = w[k]
  BY <1>1, <1>4
<1>6. PICK T : T = [k \in 0..(n + 1) |-> IF k = n + 1 THEN <<>> ELSE S[k] \o f]
  OBVIOUS
<1>7. \A k \in 0..n : T[k] = S[k] \o f
  <2>1. \A k \in 0..n : k \in 0..(n + 1) /\ k # n + 1
    OBVIOUS
  <2> QED  BY <1>6, <2>1
<1>8. T[n + 1] = <<>>
  BY <1>6
<1>9. T \in [0..(n + 1) -> Seq(Nat)]
  <2>1. ASSUME NEW k \in 0..(n + 1) PROVE (IF k = n + 1 THEN <<>> ELSE S[k] \o f) \in Seq(Nat)
    <3>1. CASE k = n + 1
      BY <3>1
    <3>2. CASE k # n + 1
      <4>1. k \in 0..n
        BY <3>2
      <4>2. S[k] \in Seq(Nat)
        BY <1>3, <4>1
      <4>3. S[k] \o f \in Seq(Nat)
        BY <4>2
      <4> QED  BY <3>2, <4>3
    <3> QED  BY <3>1, <3>2
  <2> QED  BY <1>6, <2>1
<1>10. ASSUME NEW k \in 0..n PROVE T[k] = Serialize(v[k + 1]) \o T[k + 1]
  <2>1. CASE k = n
    <3>1. T[k] = <<>> \o f
      BY <1>3, <1>7, <2>1
    <3>2. <<>> \o f = f /\ f \o <<>> = f
      BY ConcatEmptySeq
    <3>3. Serialize(v[k + 1]) = f /\ T[k + 1] = <<>>
      BY <1>2, <1>5, <1>8, <2>1
    <3> QED  BY <3>1, <3>2, <3>3
  <2>2. CASE k # n
    <3>1. k \in 0..(n - 1) /\ k + 1 \in 1..n /\ k + 1 \in 0..n
      BY <2>2
    <3>2. w[k + 1] \in WireMessages /\ v[k + 1] = w[k + 1]
      BY <1>1, <1>5, <3>1
    <3>3. PICK g \in Seq(Nat) : g = Serialize(w[k + 1])
      BY <3>2, SerializeType
    <3>4. PICK s \in Seq(Nat) : s = S[k + 1]
      BY <1>3, <3>1
    <3>5. Together(g, s, f)
      BY Joined
    <3>6. S[k] = g \o s
      BY <1>3, <3>1, <3>3, <3>4
    <3>7. T[k] = (g \o s) \o f /\ T[k + 1] = s \o f
      BY <1>7, <3>1, <3>4, <3>6
    <3> QED  BY <3>2, <3>3, <3>5, <3>7 DEF Together
  <2> QED  BY <2>1, <2>2
<1>11. IsStream(T, v)
  <2>1. n + 1 - 1 = n
    OBVIOUS
  <2>2. T \in [0..Len(v) -> Seq(Nat)] /\ T[Len(v)] = <<>>
    BY <1>5, <1>8, <1>9
  <2>3. ASSUME NEW k \in 0..(Len(v) - 1) PROVE T[k] = Serialize(v[k + 1]) \o T[k + 1]
    <3>1. k \in 0..n
      BY <1>5, <2>1
    <3> QED  BY <1>10, <3>1
  <2> QED  BY <2>2, <2>3 DEF IsStream
<1>12. \A k \in 0..Len(w) : T[k] = S[k] \o Serialize(m)
  BY <1>1, <1>2, <1>7
<1> QED  BY <1>4, <1>11, <1>12
-----------------------------------------------------------------------------
(* The pieces that messages announce.                                       *)
LEMMA NotedIsMentioned ==
  ASSUME NEW m \in WireMessages
  PROVE  /\ m[1] = "Bitfield" => Noted(ReadAs(m)) = Mentions(m)
         /\ m[1] # "Bitfield" => Noted(ReadAs(m)) = hasPieces \cup Mentions(m)
         /\ Mentions(m) \subseteq 0..(NumPieces - 1)
<1>1. WellFormed(m)
  BY WireAssumption
<1>2. CASE m[1] = "Bitfield"
  <2>1. m[2] \subseteq 0..(NumPieces - 1)
    BY <1>1, <1>2 DEF WellFormed
  <2>2. PICK bytes : bytes = BitfieldBytes(m[2]) /\ BitfieldPieces(bytes) = m[2]
    BY <2>1, BitfieldIsKept
  <2>3. PICK r : r = <<"Bitfield", bytes>>
    OBVIOUS
  <2>4. ReadAs(m) = r /\ r[1] = "Bitfield" /\ r[2] = bytes
    BY <1>2, <2>2, <2>3 DEF ReadAs
  <2>5. Noted(r) = BitfieldPieces(bytes)
    BY <2>4 DEF Noted
  <2>6. Mentions(m) = m[2]
    BY <1>2 DEF Mentions
  <2> QED  BY <1>2, <2>1, <2>2, <2>4, <2>5, <2>6
<1>3. CASE m[1] = "Have"
  <2>1. m[2] \in 0..(NumPieces - 1)
    BY <1>1, <1>3 DEF WellFormed
  <2>2. ReadAs(m) = m /\ Mentions(m) = {m[2]}
    BY <1>3 DEF ReadAs, Mentions
  <2>3. Noted(m) = hasPieces \cup {m[2]}
    BY <1>3 DEF Noted
  <2> QED  BY <1>3, <2>1, <2>2, <2>3
<1>4. CASE m[1] \notin {"Have", "Bitfield"}
  <2>1. Mentions(m) = {}
    BY <1>4 DEF Mentions
  <2>2. PICK r : r = ReadAs(m)
    OBVIOUS
  <2>3. r[1] \notin {"Have", "Bitfield"}
    BY <1>4, <2>2 DEF ReadAs
  <2>4. Noted(r) = hasPieces
    BY <2>3 DEF Noted
  <2> QED  BY <1>4, <2>1, <2>2, <2>4
<1> QED  BY <1>2, <1>3, <1>4

(* Announced of any sequence of messages.                                   *)
Standing(w, n) == {i \in 1..n : \A j \in (i + 1)..n : w[j][1] # "Bitfield"}
AnnouncedIn(w, n) == UNION {Mentions(w[k]) : k \in Standing(w, n)}

LEMMA AnnouncedSame ==
  ASSUME NEW v, NEW w, NEW n \in Nat, \A k \in 1..n : v[k] = w[k]
  PROVE  AnnouncedIn(v, n) = AnnouncedIn(w, n)
<1>1. \A i \in 1..n : \A j \in (i + 1)..n : j \in 1..n
  OBVIOUS
<1>2. Standing(v, n) = Standing(w, n)
  BY <1>1 DEF Standing
<1>3. \A k \in Standing(w, n) : v[k] = w[k]
  BY DEF Standing
<1> QED  BY <1>2, <1>3 DEF AnnouncedIn

LEMMA AnnouncedNone == ASSUME NEW w PROVE AnnouncedIn(w, 0) = {}
<1>1. Standing(w, 0) = {}
  <2>1. 1..0 = {}
    OBVIOUS
  <2> QED  BY <2>1 DEF Standing
<1> QED  BY <1>1 DEF AnnouncedIn

LEMMA AnnouncedNext ==
  ASSUME NEW w, NEW n \in Nat
  PROVE  /\ w[n + 1][1] = "Bitfield" => AnnouncedIn(w, n + 1) = Mentions(w[n + 1])
         /\ w[n + 1][1] # "Bitfield" => AnnouncedIn(w, n + 1) = AnnouncedIn(w, n) \cup Mentions(w[n + 1])
<1>1. n + 1 \in 1..(n + 1) /\ (n + 1 + 1)..(n + 1) = {}
  OBVIOUS
<1>2. n + 1 \in Standing(w, n + 1)
  BY <1>1 DEF Standing
<1>3. ASSUME w[n + 1][1] = "Bitfield" PROVE Standing(w, n + 1) = {n + 1}
  <2>1. ASSUME NEW i \in Standing(w, n + 1), i # n + 1 PROVE FALSE
    <3>1. i \in 1..(n + 1) /\ (w[n + 1][1] # "Bitfield" \/ n + 1 \notin (i + 1)..(n + 1))
      BY <2>1 DEF Standing
    <3>2. n + 1 \in (i + 1)..(n + 1)
      <4>1. i \in 1..(n + 1)
        BY DEF Standing
      <4> QED  BY <2>1, <4>1
    <3> QED  BY <1>3, <3>1, <3>2
  <2> QED  BY <1>2, <2>1
<1>4. ASSUME w[n + 1][1] # "Bitfield" PROVE Standing(w, n + 1) = Standing(w, n) \cup {n + 1}
  <2>1. ASSUME NEW i \in 1..n
        PROVE  /\ i \in 1..(n + 1)
               /\ \A j : j \in (i + 1)..(n + 1) <=> j \in (i + 1)..n \/ j = n + 1
    OBVIOUS
  <2>2. ASSUME NEW i \in 1..n PROVE i \in Standing(w, n + 1) <=> i \in Standing(w, n)
    BY <1>4, <2>1 DEF Standing
  <2>3. \A i \in 1..(n + 1) : i \in 1..n \/ i = n + 1
    OBVIOUS
  <2>4. Standing(w, n + 1) \subseteq 1..(n + 1) /\ Standing(w, n) \subseteq 1..n
    BY DEF Standing
  <2> QED  BY <1>2, <2>2, <2>3, <2>4
<1> QED  BY <1>3, <1>4 DEF AnnouncedIn
-----------------------------------------------------------------------------
(* The invariant.  FramesAreReadAsWritten is not inductive: it says nothing *)
(* of the bytes that are on their way.                                      *)
Types ==
  /\ WireTypeOK
  /\ received \in Seq({ReadAs(m) : m \in WireMessages})

(* Nothing is written before the handshakes have ended.                     *)
Order ==
  /\ us \in {"idle", "sending"} => them \in {"receiving", "failed"} /\ toThem = <<>> /\ toUs = <<>>
  /\ them \in {"receiving", "sending"} =>
       us # "open" /\ toUs = <<>> /\ written = <<>> /\ received = <<>> /\ hasPieces = {}
  /\ them = "sending" => toThem = <<>>
  /\ them \in {"failed", "panicked"} => lost

Greeting(ours) ==
  them = "receiving" =>
    /\ toThem \in Seq(HandshakeBytes(ours, OurId))
    /\ CutFrom(toThem, Handshake(ours, OurId))

Agreed(ours, theirs) ==
  toUs # <<>> \/ us = "open" \/ them \in {"sending", "open", "panicked"} => ours = theirs

(* The bytes on their way are the frames of the messages not yet read, or   *)
(* what a lost connection has left of them.                                 *)
OnTheWay(S) ==
  /\ IsStream(S, written)
  /\ CutFrom(toThem, S[Len(received)])
  /\ ~lost => toThem = S[Len(received)]

Stream == them = "open" => toThem \in Seq(Nat) /\ \E S : OnTheWay(S)

WireInv(ours, theirs) ==
  Types /\ Order /\ Greeting(ours) /\ Agreed(ours, theirs) /\ Stream /\ FramesAreReadAsWritten

LEMMA FramesStay ==
  ASSUME FramesAreReadAsWritten, UNCHANGED frameVars
  PROVE  FramesAreReadAsWritten'
BY DEF FramesAreReadAsWritten, Announced, frameVars

LEMMA TypesStay ==
  ASSUME Types, UNCHANGED frameVars,
         us' \in {"idle", "sending", "receiving", "open", "failed"},
         them' \in {"receiving", "sending", "open", "failed", "panicked"}, lost' \in BOOLEAN
  PROVE  Types'
BY DEF Types, WireTypeOK, frameVars

(* A step that reads or writes no message, and loses nothing.               *)
LEMMA StreamStays ==
  ASSUME Stream, UNCHANGED <<toThem, frameVars>>,
         them' = "open" => them = "open", lost => lost'
  PROVE  Stream'
<1>1. UNCHANGED <<toThem, written, received>>
  BY DEF frameVars
<1>2. ASSUME NEW S, OnTheWay(S) PROVE OnTheWay(S)'
  BY <1>1, <1>2 DEF OnTheWay, IsStream
<1>3. CASE them' # "open"
  BY <1>3 DEF Stream
<1>4. CASE them' = "open"
  BY <1>1, <1>2, <1>4 DEF Stream
<1> QED  BY <1>3, <1>4

LEMMA EmptyIsCut == ASSUME NEW t, Len(t) \in Nat PROVE CutFrom(<<>>, t)
<1>1. Len(<<>>) = 0 /\ 1..0 = {}
  OBVIOUS
<1> QED  BY <1>1 DEF CutFrom

LEMMA WholeIsCut == ASSUME NEW S, NEW t \in Seq(S) PROVE CutFrom(t, t)
BY DEF CutFrom

LEMMA CutAgain ==
  ASSUME NEW S, NEW s \in Seq(S), NEW t, CutFrom(s, t), Len(t) \in Nat, NEW n \in 0..Len(s)
  PROVE  SubSeq(s, 1, n) \in Seq(S) /\ CutFrom(SubSeq(s, 1, n), t)
<1>1. PICK l \in Nat : l = Len(s)
  OBVIOUS
<1>2. n \in Nat /\ n <= l /\ n - 1 + 1 = n
  BY <1>1
<1>3. PICK q : q = SubSeq(s, 1, n)
  OBVIOUS
<1>4. q \in Seq(S) /\ Len(q) = n /\ \A i \in 1..n : q[i] = s[i]
  <2>1. 1 \in Nat \ {0} /\ 1 <= n + 1 /\ n <= Len(s)
    BY <1>1, <1>2
  <2>2. /\ q \in Seq(S) /\ Len(q) = n - 1 + 1
        /\ \A i \in 1..(n - 1 + 1) : q[i] = s[1 + i - 1]
    BY <1>2, <1>3, <2>1, Part
  <2>3. \A i \in 1..n : 1 + i - 1 = i
    BY <1>2
  <2> QED  BY <1>2, <2>2, <2>3
<1>5. l <= Len(t) /\ \A i \in 1..l : s[i] = t[i]
  BY <1>1 DEF CutFrom
<1>6. n <= Len(t) /\ \A i \in 1..n : q[i] = t[i]
  <2>1. n <= Len(t)
    BY <1>2, <1>5
  <2>2. \A i \in 1..n : i \in 1..l
    BY <1>2
  <2> QED  BY <1>4, <1>5, <2>1, <2>2
<1>7. CutFrom(q, t)
  BY <1>4, <1>6 DEF CutFrom
<1> QED  BY <1>3, <1>4, <1>7
-----------------------------------------------------------------------------
(* One lemma per action.                                                    *)
LEMMA InitInv == ASSUME NEW ours, NEW theirs, WireInit PROVE WireInv(ours, theirs)
<1>1. /\ us = "idle" /\ them = "receiving" /\ toThem = <<>> /\ toUs = <<>> /\ lost = FALSE
      /\ written = <<>> /\ received = <<>> /\ hasPieces = {}
  BY DEF WireInit
<1>2. Len(<<>>) = 0 /\ DOMAIN <<>> = {} /\ \A S : <<>> \in Seq(S)
  OBVIOUS
<1>3. Types
  <2>1. MaxMessages \in Nat
    BY WireAssumption
  <2>2. WireTypeOK
    <3>1. Len(received) <= Len(written) /\ Len(written) <= MaxMessages
      BY <1>1, <1>2, <2>1
    <3>2. written \in Seq(WireMessages)
      BY <1>1, <1>2
    <3> QED  BY <1>1, <3>1, <3>2 DEF WireTypeOK
  <2> QED  BY <1>1, <1>2, <2>2 DEF Types
<1>4. Order
  BY <1>1 DEF Order
<1>5. Greeting(ours)
  <2>1. PICK h : h = Handshake(ours, OurId)
    OBVIOUS
  <2>2. IsHandshake(h, ours, OurId)
    BY <2>1, HandshakeParts
  <2>3. Len(h) \in Nat
    BY <2>2 DEF IsHandshake
  <2>4. CutFrom(<<>>, h)
    BY <2>3, EmptyIsCut
  <2> QED  BY <1>1, <1>2, <2>1, <2>4 DEF Greeting
<1>6. Agreed(ours, theirs)
  BY <1>1 DEF Agreed
<1>7. Stream
  BY <1>1 DEF Stream
<1>8. FramesAreReadAsWritten
  <2>1. Announced(0) = {}
    <3>1. 1..0 = {}
      OBVIOUS
    <3> QED  BY <3>1 DEF Announced
  <2> QED  BY <1>1, <1>2, <2>1 DEF FramesAreReadAsWritten
<1> QED  BY <1>3, <1>4, <1>5, <1>6, <1>7, <1>8 DEF WireInv

LEMMA ConnectInv ==
  ASSUME NEW ours, NEW theirs, WireInv(ours, theirs), Connect
  PROVE  WireInv(ours, theirs)'
<1>1. us = "idle" /\ us' = "sending" /\ UNCHANGED <<them, toThem, toUs, lost, frameVars>>
  BY DEF Connect
<1>2. Types /\ Order /\ Greeting(ours) /\ Agreed(ours, theirs) /\ Stream /\ FramesAreReadAsWritten
  BY DEF WireInv
<1>3. Types'
  <2>1. them' \in {"receiving", "sending", "open", "failed", "panicked"} /\ lost' \in BOOLEAN
    BY <1>1, <1>2 DEF Types, WireTypeOK
  <2> QED  BY <1>1, <1>2, <2>1, TypesStay
<1>4. Order'
  BY <1>1, <1>2 DEF Order, frameVars
<1>5. Greeting(ours)'
  BY <1>1, <1>2 DEF Greeting
<1>6. Agreed(ours, theirs)'
  BY <1>1, <1>2 DEF Agreed
<1>7. Stream'
  BY <1>1, <1>2, StreamStays
<1>8. FramesAreReadAsWritten'
  BY <1>1, <1>2, FramesStay
<1> QED  BY <1>3, <1>4, <1>5, <1>6, <1>7, <1>8 DEF WireInv

LEMMA WeSendInv ==
  ASSUME NEW ours, NEW theirs, WireInv(ours, theirs), WeSendHandshake(ours)
  PROVE  WireInv(ours, theirs)'
<1>1. us = "sending" /\ UNCHANGED <<them, toUs, lost, frameVars>>
  BY DEF WeSendHandshake
<1>2. Types /\ Order /\ Greeting(ours) /\ Agreed(ours, theirs) /\ Stream /\ FramesAreReadAsWritten
  BY DEF WireInv
<1>3. us' \in {"receiving", "failed"}
  BY DEF WeSendHandshake
<1>4. them \in {"receiving", "failed"} /\ toThem = <<>> /\ toUs = <<>> /\ lost \in BOOLEAN
  BY <1>1, <1>2 DEF Order, Types, WireTypeOK
<1>5. Types'
  <2>1. them' \in {"receiving", "sending", "open", "failed", "panicked"} /\ lost' \in BOOLEAN
    BY <1>1, <1>4
  <2> QED  BY <1>1, <1>2, <1>3, <2>1, TypesStay
<1>6. Order'
  BY <1>1, <1>2, <1>3, <1>4 DEF Order, frameVars
<1>7. Greeting(ours)'
  <2>1. CASE them # "receiving"
    BY <1>1, <2>1 DEF Greeting
  <2>2. CASE them = "receiving" /\ lost
    <3>1. toThem' = toThem
      BY <2>2 DEF WeSendHandshake
    <3> QED  BY <1>1, <1>2, <3>1 DEF Greeting
  <2>3. CASE ~lost
    <3>1. PICK h : h = Handshake(ours, OurId)
      OBVIOUS
    <3>2. IsHandshake(h, ours, OurId)
      BY <3>1, HandshakeParts
    <3>3. h \in Seq(HandshakeBytes(ours, OurId))
      BY <3>2 DEF IsHandshake
    <3>4. <<>> \o h = h
      BY <3>3, ConcatEmptySeq
    <3>5. toThem' = h
      BY <1>4, <2>3, <3>1, <3>4 DEF WeSendHandshake
    <3>6. CutFrom(h, h)
      BY <3>3, WholeIsCut
    <3> QED  BY <3>1, <3>3, <3>5, <3>6 DEF Greeting
  <2> QED  BY <1>4, <2>1, <2>2, <2>3
<1>8. Agreed(ours, theirs)'
  BY <1>1, <1>2, <1>3 DEF Agreed
<1>9. Stream'
  BY <1>1, <1>4 DEF Stream
<1>10. FramesAreReadAsWritten'
  BY <1>1, <1>2, FramesStay
<1> QED  BY <1>5, <1>6, <1>7, <1>8, <1>9, <1>10 DEF WireInv

LEMMA TheyReceiveInv ==
  ASSUME NEW ours, NEW theirs, WireInv(ours, theirs), TheyReceiveHandshake(theirs)
  PROVE  WireInv(ours, theirs)'
<1>1. /\ them = "receiving" /\ HasHandshake(toThem) /\ UNCHANGED <<us, toUs, frameVars>>
      /\ toThem' = After(toThem, HandshakeLength(toThem))
  BY DEF TheyReceiveHandshake
<1>2. Types /\ Order /\ Greeting(ours) /\ Agreed(ours, theirs) /\ Stream /\ FramesAreReadAsWritten
  BY DEF WireInv
<1>3. \/ them' = "sending" /\ lost' = lost /\ Accepts(toThem, theirs, TheirId)
      \/ them' = "failed" /\ lost' = TRUE
  BY DEF TheyReceiveHandshake
<1>4. toThem' = <<>> /\ HashOf(toThem) = ours
  <2>1. PICK h : h = Handshake(ours, OurId)
    OBVIOUS
  <2>2. toThem \in Seq(HandshakeBytes(ours, OurId)) /\ CutFrom(toThem, h)
    BY <1>1, <1>2, <2>1 DEF Greeting
  <2>3. Shaken(toThem, ours)
    BY <1>1, <2>1, <2>2, HandshakeIsRead
  <2> QED  BY <1>1, <2>3 DEF Shaken
<1>5. Types'
  <2>1. us \in {"idle", "sending", "receiving", "open", "failed"} /\ lost \in BOOLEAN
    BY <1>2 DEF Types, WireTypeOK
  <2>2. us' \in {"idle", "sending", "receiving", "open", "failed"}
    BY <1>1, <2>1
  <2>3. them' \in {"receiving", "sending", "open", "failed", "panicked"} /\ lost' \in BOOLEAN
    BY <1>3, <2>1
  <2> QED  BY <1>1, <1>2, <2>2, <2>3, TypesStay
<1>6. us \notin {"idle", "sending"}
  <2>1. toThem # <<>>
    BY <1>1 DEF HasHandshake
  <2> QED  BY <1>2, <2>1 DEF Order
<1>7. Order'
  BY <1>1, <1>2, <1>3, <1>4, <1>6 DEF Order, frameVars
<1>8. Greeting(ours)'
  BY <1>3 DEF Greeting
<1>9. Agreed(ours, theirs)'
  <2>1. us # "open" /\ toUs = <<>>
    BY <1>1, <1>2 DEF Order
  <2>2. them' = "sending" => ours = theirs
    BY <1>3, <1>4 DEF Accepts
  <2> QED  BY <1>1, <1>3, <2>1, <2>2 DEF Agreed
<1>10. Stream'
  BY <1>3 DEF Stream
<1>11. FramesAreReadAsWritten'
  BY <1>1, <1>2, FramesStay
<1> QED  BY <1>5, <1>7, <1>8, <1>9, <1>10, <1>11 DEF WireInv

LEMMA TheySendInv ==
  ASSUME NEW ours, NEW theirs, WireInv(ours, theirs), TheySendHandshake(theirs)
  PROVE  WireInv(ours, theirs)'
<1>1. them = "sending" /\ UNCHANGED <<us, toThem, lost, frameVars>>
  BY DEF TheySendHandshake
<1>2. Types /\ Order /\ Greeting(ours) /\ Agreed(ours, theirs) /\ Stream /\ FramesAreReadAsWritten
  BY DEF WireInv
<1>3. /\ lost => them' = "failed" /\ toUs' = toUs
      /\ ~lost => them' = "open"
      /\ lost \in BOOLEAN
  BY <1>2 DEF TheySendHandshake, Types, WireTypeOK
<1>4. them' \in {"open", "failed"}
  BY <1>3
<1>5. Types'
  <2>1. us \in {"idle", "sending", "receiving", "open", "failed"}
    BY <1>2 DEF Types, WireTypeOK
  <2>2. us' \in {"idle", "sending", "receiving", "open", "failed"} /\ lost' \in BOOLEAN
    BY <1>1, <1>3, <2>1
  <2>3. them' \in {"receiving", "sending", "open", "failed", "panicked"}
    BY <1>4
  <2> QED  BY <1>1, <1>2, <2>2, <2>3, TypesStay
<1>6. us \notin {"idle", "sending"} /\ toThem = <<>> /\ written = <<>> /\ received = <<>>
  BY <1>1, <1>2 DEF Order
<1>7. Order'
  <2>1. them' = "failed" => lost'
    BY <1>1, <1>3
  <2> QED  BY <1>1, <1>4, <1>6, <2>1 DEF Order
<1>8. Greeting(ours)'
  BY <1>4 DEF Greeting
<1>9. Agreed(ours, theirs)'
  BY <1>1, <1>2 DEF Agreed
<1>10. Stream'
  <2>1. PICK S : S = [k \in 0..0 |-> <<>>]
    OBVIOUS
  <2>2. IsStream(S, <<>>)
    BY <2>1, StreamStarts
  <2>3. Len(<<>>) = 0 /\ <<>> \in Seq(Nat)
    OBVIOUS
  <2>4. S[0] = <<>>
    BY <2>1
  <2>5. CutFrom(<<>>, <<>>)
    BY <2>3, WholeIsCut
  <2>6. toThem' = <<>> /\ written' = <<>> /\ received' = <<>>
    BY <1>1, <1>6 DEF frameVars
  <2>7. OnTheWay(S)'
    BY <2>2, <2>3, <2>4, <2>5, <2>6 DEF OnTheWay
  <2> QED  BY <2>3, <2>6, <2>7 DEF Stream
<1>11. FramesAreReadAsWritten'
  BY <1>1, <1>2, FramesStay
<1> QED  BY <1>5, <1>7, <1>8, <1>9, <1>10, <1>11 DEF WireInv

LEMMA WeReceiveInv ==
  ASSUME NEW ours, NEW theirs, WireInv(ours, theirs), WeReceiveHandshake(ours)
  PROVE  WireInv(ours, theirs)'
<1>1. us = "receiving" /\ HasHandshake(toUs) /\ UNCHANGED <<them, toThem, frameVars>>
  BY DEF WeReceiveHandshake
<1>2. Types /\ Order /\ Greeting(ours) /\ Agreed(ours, theirs) /\ Stream /\ FramesAreReadAsWritten
  BY DEF WireInv
<1>3. us' \in {"open", "failed"} /\ (lost' = lost \/ lost' = TRUE)
  BY DEF WeReceiveHandshake
<1>4. toUs # <<>>
  BY <1>1 DEF HasHandshake
<1>5. them \notin {"receiving", "sending"}
  BY <1>2, <1>4 DEF Order
<1>6. Types'
  <2>1. them \in {"receiving", "sending", "open", "failed", "panicked"} /\ lost \in BOOLEAN
    BY <1>2 DEF Types, WireTypeOK
  <2>2. them' \in {"receiving", "sending", "open", "failed", "panicked"} /\ lost' \in BOOLEAN
    BY <1>1, <1>3, <2>1
  <2> QED  BY <1>1, <1>2, <1>3, <2>2, TypesStay
<1>7. Order'
  BY <1>1, <1>2, <1>3, <1>5 DEF Order
<1>8. Greeting(ours)'
  BY <1>1, <1>5 DEF Greeting
<1>9. Agreed(ours, theirs)'
  BY <1>2, <1>4 DEF Agreed
<1>10. Stream'
  <2>1. (them' = "open" => them = "open") /\ (lost => lost')
    BY <1>1, <1>3
  <2> QED  BY <1>1, <1>2, <2>1, StreamStays
<1>11. FramesAreReadAsWritten'
  BY <1>1, <1>2, FramesStay
<1> QED  BY <1>6, <1>7, <1>8, <1>9, <1>10, <1>11 DEF WireInv

LEMMA ReadFailsInv ==
  ASSUME NEW ours, NEW theirs, WireInv(ours, theirs), ReadFails
  PROVE  WireInv(ours, theirs)'
<1>1. lost /\ UNCHANGED <<toThem, toUs, lost, frameVars>>
  BY DEF ReadFails
<1>2. Types /\ Order /\ Greeting(ours) /\ Agreed(ours, theirs) /\ Stream /\ FramesAreReadAsWritten
  BY DEF WireInv
<1>3. \/ them' = "failed" /\ us' = us /\ them \in {"receiving", "open"}
      \/ us' = "failed" /\ them' = them
  BY DEF ReadFails
<1>4. Types'
  <2>1. /\ us \in {"idle", "sending", "receiving", "open", "failed"}
        /\ them \in {"receiving", "sending", "open", "failed", "panicked"} /\ lost \in BOOLEAN
    BY <1>2 DEF Types, WireTypeOK
  <2>2. /\ us' \in {"idle", "sending", "receiving", "open", "failed"}
        /\ them' \in {"receiving", "sending", "open", "failed", "panicked"} /\ lost' \in BOOLEAN
    BY <1>1, <1>3, <2>1
  <2> QED  BY <1>1, <1>2, <2>2, TypesStay
<1>5. Order'
  BY <1>1, <1>2, <1>3 DEF Order, frameVars
<1>6. Greeting(ours)'
  BY <1>1, <1>2, <1>3 DEF Greeting
<1>7. Agreed(ours, theirs)'
  BY <1>1, <1>2, <1>3 DEF Agreed
<1>8. Stream'
  <2>1. (them' = "open" => them = "open") /\ (lost => lost')
    BY <1>1, <1>3
  <2> QED  BY <1>1, <1>2, <2>1, StreamStays
<1>9. FramesAreReadAsWritten'
  BY <1>1, <1>2, FramesStay
<1> QED  BY <1>4, <1>5, <1>6, <1>7, <1>8, <1>9 DEF WireInv

LEMMA NothingIsCut ==
  ASSUME NEW s, NEW n \in 0..Len(s), s = <<>>
  PROVE  SubSeq(s, 1, n) = <<>>
<1>1. <<>> \in Seq({}) /\ Len(<<>>) = 0 /\ 1 <= 0 + 1 /\ 0 - 1 + 1 = 0 /\ 1 \in Nat \ {0} /\ 0 \in Nat
  OBVIOUS
<1>2. n = 0
  BY <1>1
<1>3. SubSeq(<<>>, 1, 0) \in Seq({}) /\ Len(SubSeq(<<>>, 1, 0)) = 0 - 1 + 1
  BY <1>1, Part
<1>4. SubSeq(<<>>, 1, 0) = <<>>
  BY <1>1, <1>3
<1> QED  BY <1>2, <1>4

LEMMA LoseInv ==
  ASSUME NEW ours, NEW theirs, WireInv(ours, theirs), Lose
  PROVE  WireInv(ours, theirs)'
<1>1. lost' = TRUE /\ UNCHANGED <<us, them, frameVars>>
  BY DEF Lose
<1>2. Types /\ Order /\ Greeting(ours) /\ Agreed(ours, theirs) /\ Stream /\ FramesAreReadAsWritten
  BY DEF WireInv
<1>3. PICK n \in 0..Len(toThem) : toThem' = SubSeq(toThem, 1, n)
  BY DEF Lose
<1>4. PICK k \in 0..Len(toUs) : toUs' = SubSeq(toUs, 1, k)
  BY DEF Lose
<1>5. /\ toThem = <<>> => toThem' = <<>>
      /\ toUs = <<>> => toUs' = <<>>
  BY <1>3, <1>4, NothingIsCut
<1>6. Types'
  <2>1. /\ us \in {"idle", "sending", "receiving", "open", "failed"}
        /\ them \in {"receiving", "sending", "open", "failed", "panicked"}
    BY <1>2 DEF Types, WireTypeOK
  <2>2. /\ us' \in {"idle", "sending", "receiving", "open", "failed"}
        /\ them' \in {"receiving", "sending", "open", "failed", "panicked"} /\ lost' \in BOOLEAN
    BY <1>1, <2>1
  <2> QED  BY <1>1, <1>2, <2>2, TypesStay
<1>7. Order'
  BY <1>1, <1>2, <1>5 DEF Order, frameVars
<1>8. Greeting(ours)'
  <2>1. CASE them # "receiving"
    BY <1>1, <2>1 DEF Greeting
  <2>2. CASE them = "receiving"
    <3>1. PICK h : h = Handshake(ours, OurId)
      OBVIOUS
    <3>2. IsHandshake(h, ours, OurId)
      BY <3>1, HandshakeParts
    <3>3. Len(h) \in Nat
      BY <3>2 DEF IsHandshake
    <3>4. PICK B : B = HandshakeBytes(ours, OurId)
      OBVIOUS
    <3>5. toThem \in Seq(B) /\ CutFrom(toThem, h)
      BY <1>2, <2>2, <3>1, <3>4 DEF Greeting
    <3>6. SubSeq(toThem, 1, n) \in Seq(B) /\ CutFrom(SubSeq(toThem, 1, n), h)
      BY <3>3, <3>5, CutAgain
    <3> QED  BY <1>3, <3>1, <3>4, <3>6 DEF Greeting
  <2> QED  BY <2>1, <2>2
<1>9. Agreed(ours, theirs)'
  BY <1>1, <1>2, <1>5 DEF Agreed
<1>10. Stream'
  <2>1. CASE them # "open"
    BY <1>1, <2>1 DEF Stream
  <2>2. CASE them = "open"
    <3>1. PICK S : OnTheWay(S)
      BY <1>2, <2>2 DEF Stream
    <3>2. toThem \in Seq(Nat)
      BY <1>2, <2>2 DEF Stream
    <3>3. PICK r \in Nat : r = Len(received) /\ r <= Len(written) /\ Len(written) \in Nat
      BY <1>2 DEF Types, WireTypeOK
    <3>4. S[r] \in Seq(Nat)
      <4>1. r \in 0..Len(written)
        BY <3>3
      <4> QED  BY <3>1, <4>1 DEF OnTheWay, IsStream
    <3>5. PICK t \in Seq(Nat) : t = S[r]
      BY <3>4
    <3>6. CutFrom(toThem, t)
      BY <3>1, <3>3, <3>5 DEF OnTheWay
    <3>7. Len(t) \in Nat
      OBVIOUS
    <3>8. SubSeq(toThem, 1, n) \in Seq(Nat) /\ CutFrom(SubSeq(toThem, 1, n), t)
      BY <3>2, <3>6, <3>7, CutAgain
    <3>9. written' = written /\ received' = received
      BY <1>1 DEF frameVars
    <3>10. IsStream(S, written)'
      BY <3>1, <3>9 DEF OnTheWay, IsStream
    <3>11. CutFrom(toThem, S[Len(received)])'
      BY <1>3, <3>3, <3>5, <3>8, <3>9
    <3>12. OnTheWay(S)'
      BY <1>1, <3>10, <3>11 DEF OnTheWay
    <3>13. toThem' \in Seq(Nat)
      BY <1>3, <3>8
    <3> QED  BY <3>12, <3>13 DEF Stream
  <2> QED  BY <2>1, <2>2
<1>11. FramesAreReadAsWritten'
  BY <1>1, <1>2, FramesStay
<1> QED  BY <1>6, <1>7, <1>8, <1>9, <1>10, <1>11 DEF WireInv

LEMMA WriteInv ==
  ASSUME NEW ours, NEW theirs, WireInv(ours, theirs), NEW m \in WireMessages, Write(m)
  PROVE  WireInv(ours, theirs)'
<1>1. us = "open" /\ Len(written) < MaxMessages /\ UNCHANGED <<them, toUs, lost, received, hasPieces>>
  BY DEF Write
<1>2. Types /\ Order /\ Greeting(ours) /\ Agreed(ours, theirs) /\ Stream /\ FramesAreReadAsWritten
  BY DEF WireInv
<1>3. /\ lost => us' = "failed" /\ toThem' = toThem /\ written' = written
      /\ ~lost => us' = "open" /\ toThem' = toThem \o Serialize(m) /\ written' = Append(written, m)
  BY <1>1 DEF Write
<1>4. /\ them \in {"open", "failed", "panicked"} /\ lost \in BOOLEAN
      /\ written \in Seq(WireMessages) /\ received \in Seq({ReadAs(x) : x \in WireMessages})
      /\ Len(received) <= Len(written)
      /\ hasPieces \subseteq 0..(NumPieces - 1)
  BY <1>1, <1>2 DEF Order, Types, WireTypeOK
<1>5. CASE lost
  <2>1. us' = "failed" /\ UNCHANGED <<toThem, frameVars>>
    BY <1>1, <1>3, <1>5 DEF frameVars
  <2>2. Types'
    <3>1. them' \in {"receiving", "sending", "open", "failed", "panicked"} /\ lost' \in BOOLEAN
      BY <1>1, <1>4
    <3> QED  BY <1>2, <2>1, <3>1, TypesStay
  <2>3. Order'
    BY <1>1, <1>2, <1>4, <2>1 DEF Order
  <2>4. Greeting(ours)' /\ Agreed(ours, theirs)'
    BY <1>1, <1>2, <1>4, <2>1 DEF Greeting, Agreed
  <2>5. Stream'
    BY <1>1, <1>2, <2>1, StreamStays
  <2>6. FramesAreReadAsWritten'
    BY <1>2, <2>1, FramesStay
  <2> QED  BY <2>2, <2>3, <2>4, <2>5, <2>6 DEF WireInv
<1>6. CASE ~lost
  <2>1. them = "open"
    BY <1>2, <1>4, <1>6 DEF Order
  <2>2. us' = "open" /\ toThem' = toThem \o Serialize(m) /\ written' = Append(written, m)
    BY <1>3, <1>6
  <2>3. PICK w \in Seq(WireMessages) : w = written
    BY <1>4
  <2>4. PICK r \in Nat : r = Len(received)
    BY <1>4
  <2>5. PICK n \in Nat : n = Len(w)
    OBVIOUS
  <2>6. r <= n /\ n < MaxMessages
    BY <1>1, <1>4, <2>3, <2>4, <2>5
  <2>7. PICK v : v = Append(w, m)
    OBVIOUS
  <2>8. v \in Seq(WireMessages) /\ Len(v) = n + 1 /\ \A k \in 1..n : v[k] = w[k]
    BY <2>5, <2>7
  <2>9. written' = v /\ received' = received
    BY <1>1, <2>2, <2>3, <2>7
  <2>10. Types'
    <3>1. r <= n + 1 /\ n + 1 <= MaxMessages
      <4>1. MaxMessages \in Nat
        BY WireAssumption
      <4> QED  BY <2>6, <4>1
    <3>2. Len(received') <= Len(written') /\ Len(written') <= MaxMessages
      BY <2>4, <2>8, <2>9, <3>1
    <3>3. us' = "open" /\ them' = "open" /\ lost' \in BOOLEAN /\ hasPieces' = hasPieces
      BY <1>1, <1>4, <2>1, <2>2
    <3>4. WireTypeOK'
      BY <1>4, <2>8, <2>9, <3>2, <3>3 DEF WireTypeOK
    <3>5. received' \in Seq({ReadAs(x) : x \in WireMessages})
      BY <1>4, <2>9
    <3> QED  BY <3>4, <3>5 DEF Types
  <2>11. Order'
    BY <1>1, <2>1, <2>2 DEF Order
  <2>12. Greeting(ours)' /\ Agreed(ours, theirs)'
    BY <1>1, <1>2, <2>1 DEF Greeting, Agreed
  <2>13. Stream'
    <3>1. PICK S : OnTheWay(S)
      BY <1>2, <2>1 DEF Stream
    <3>2. IsStream(S, w)
      BY <2>3, <3>1 DEF OnTheWay
    <3>3. PICK T : IsStream(T, v) /\ \A k \in 0..Len(w) : T[k] = S[k] \o Serialize(m)
      <4>1. \E T : /\ IsStream(T, Append(w, m))
                   /\ \A k \in 0..Len(w) : T[k] = S[k] \o Serialize(m)
        BY <3>2, StreamGrows, Zenon
      <4> QED  BY <2>7, <4>1, Zenon
    <3>4. r \in 0..Len(w) /\ r \in 0..Len(v)
      BY <2>5, <2>6, <2>8
    <3>5. T[r] \in Seq(Nat)
      BY <3>3, <3>4 DEF IsStream
    <3>6. PICK t \in Seq(Nat) : t = T[r]
      BY <3>5
    <3>7. toThem = S[r]
      BY <1>6, <2>4, <3>1 DEF OnTheWay
    <3>8. toThem' = t
      BY <2>2, <3>3, <3>4, <3>6, <3>7
    <3>9. CutFrom(t, t)
      BY WholeIsCut
    <3>10. IsStream(T, written)' /\ Len(received') = r
      BY <2>4, <2>9, <3>3
    <3>11. OnTheWay(T)'
      BY <3>6, <3>8, <3>9, <3>10 DEF OnTheWay
    <3> QED  BY <3>8, <3>11 DEF Stream
  <2>14. FramesAreReadAsWritten'
    <3>1. DOMAIN received = 1..r
      BY <1>4, <2>4
    <3>2. \A k \in 1..r : received[k] = ReadAs(w[k])
      BY <1>2, <2>3, <3>1 DEF FramesAreReadAsWritten
    <3>3. \A k \in 1..r : k \in 1..n
      BY <2>6
    <3>4. \A k \in 1..r : v[k] = w[k]
      BY <2>8, <3>3
    <3>5. \A k \in DOMAIN received' : received'[k] = ReadAs(written'[k])
      BY <2>9, <3>1, <3>2, <3>4
    <3>6. AnnouncedIn(v, r) = AnnouncedIn(w, r)
      BY <3>4, AnnouncedSame
    <3>7. hasPieces = AnnouncedIn(w, r)
      BY <1>2, <2>3, <2>4 DEF FramesAreReadAsWritten, Announced, AnnouncedIn, Standing
    <3>8. hasPieces' = AnnouncedIn(written', Len(received'))
      BY <1>1, <2>4, <2>9, <3>6, <3>7
    <3> QED  BY <3>5, <3>8 DEF FramesAreReadAsWritten, Announced, AnnouncedIn, Standing
  <2> QED  BY <2>10, <2>11, <2>12, <2>13, <2>14 DEF WireInv
<1> QED  BY <1>4, <1>5, <1>6

AsLongAs(full, p, rest) == Len(full) = 4 + Len(p) + Len(rest)

LEMMA FrameLength ==
  ASSUME NEW p \in Seq(Nat), NEW rest \in Seq(Nat), NEW tail, tail = p \o rest,
         NEW full, full = U32ToBytes(Len(p)) \o tail
  PROVE  AsLongAs(full, p, rest)
<1>1. /\ p \o rest \in Seq(Nat) /\ Len(p \o rest) = Len(p) + Len(rest)
      /\ Len(p) \in Nat /\ Len(rest) \in Nat
  BY Concat
<1>2. PICK a \in Nat : a = Len(p)
  BY <1>1
<1>3. PICK b \in Nat : b = Len(rest)
  BY <1>1
<1>4. tail \in Seq(Nat) /\ Len(tail) = a + b
  BY <1>1, <1>2, <1>3
<1>5. Leads(a, tail, full)
  BY <1>2, <1>4, WordBefore
<1>6. Len(full) = a + b + 4
  BY <1>4, <1>5 DEF Leads
<1> QED  BY <1>2, <1>3, <1>6 DEF AsLongAs

(* What is read of the frame of m, and what it leaves.                      *)
Reading(m, rest) ==
  /\ toThem' \in Seq(Nat) /\ CutFrom(toThem', rest)
  /\ ~lost => toThem' = rest
  /\ UNCHANGED <<us, toUs, written>>
  /\ \/ Take(ReadAs(m))
     \/ them' = "panicked" /\ lost' = TRUE /\ UNCHANGED <<received, hasPieces>>

LEMMA ReadOne ==
  ASSUME Read, toThem \in Seq(Nat), NEW m \in WireMessages, NEW rest \in Seq(Nat),
         NEW full, full = Serialize(m) \o rest, CutFrom(toThem, full), ~lost => toThem = full
  PROVE  Reading(m, rest)
<1>1. HasFrame /\ UNCHANGED <<us, toUs, written>> /\ toThem' = After(toThem, 4 + Len(Frame))
  BY DEF Read
<1>2. PICK p \in Seq(Nat) : p = Payload(m)
  BY SerializeType
<1>3. PICK u \in Seq(Nat) : u = U32ToBytes(Len(p)) /\ Serialize(m) = u \o p
  BY <1>2, SerializeType DEF Serialize
<1>4. PICK tail : tail = p \o rest
  OBVIOUS
<1>5. full = U32ToBytes(Len(p)) \o tail
  <2>1. Together(u, p, rest)
    BY Joined
  <2>2. full = (u \o p) \o rest
    BY <1>3
  <2>3. full = u \o tail
    BY <1>4, <2>1, <2>2 DEF Together
  <2> QED  BY <1>3, <2>3
<1>6. Len(toThem) >= 4 /\ Len(toThem) >= 4 + BytesToU32(toThem)
  BY <1>1 DEF HasFrame
<1>7. Framed(toThem, p, rest)
  BY <1>4, <1>5, <1>6, FrameIsRead
<1>8. /\ BytesToU32(toThem) = Len(p)
      /\ Len(toThem) >= 4 + Len(p)
  BY <1>6, <1>7 DEF Framed
<1>9. Frame = p
  BY <1>7, <1>8 DEF Framed, Frame
<1>10. toThem' = After(toThem, 4 + Len(p))
  BY <1>1, <1>9
<1>11. toThem' \in Seq(Nat) /\ CutFrom(toThem', rest)
  BY <1>7, <1>8, <1>10 DEF Framed
<1>12. ASSUME ~lost PROVE toThem' = rest
  <2>1. Len(full) = 4 + Len(p) + Len(rest)
    <3>1. AsLongAs(full, p, rest)
      BY <1>4, <1>5, FrameLength
    <3> QED  BY <3>1 DEF AsLongAs
  <2>2. Len(toThem) = 4 + Len(p) + Len(rest)
    BY <1>12, <2>1
  <2> QED  BY <1>7, <1>8, <1>10, <2>2 DEF Framed
<1>13. ReadsAs(p, ReadAs(m))
  BY <1>2, PayloadIsRead
<1>14. \/ Take(ReadAs(m))
       \/ them' = "panicked" /\ lost' = TRUE /\ UNCHANGED <<received, hasPieces>>
  <2>1. PICK x : x = ReadAs(m)
    OBVIOUS
  <2>2. CASE p = <<>>
    <3>1. x = <<"KeepAlive">>
      BY <1>13, <2>1, <2>2 DEF ReadsAs
    <3>2. Take(<<"KeepAlive">>)
      BY <1>9, <2>2 DEF Read
    <3> QED  BY <2>1, <3>1, <3>2
  <2>3. CASE p # <<>> /\ TooShort(p[1], Tail(p))
    BY <1>9, <2>3 DEF Read
  <2>4. CASE p # <<>> /\ ~TooShort(p[1], Tail(p))
    <3>1. Take(Message(p[1], Tail(p)))
      BY <1>9, <2>4 DEF Read
    <3>2. Message(p[1], Tail(p)) = x
      BY <1>13, <2>1, <2>4 DEF ReadsAs
    <3> QED  BY <2>1, <3>1, <3>2
  <2> QED  BY <2>2, <2>3, <2>4
<1> QED  BY <1>1, <1>11, <1>12, <1>14 DEF Reading

LEMMA ReadInv ==
  ASSUME NEW ours, NEW theirs, WireInv(ours, theirs), Read
  PROVE  WireInv(ours, theirs)'
<1>1. them = "open" /\ HasFrame
  BY DEF Read
<1>2. Types /\ Order /\ Greeting(ours) /\ Agreed(ours, theirs) /\ Stream /\ FramesAreReadAsWritten
  BY DEF WireInv
<1>3. PICK S : OnTheWay(S)
  BY <1>1, <1>2 DEF Stream
<1>4. /\ us \in {"idle", "sending", "receiving", "open", "failed"} /\ lost \in BOOLEAN
      /\ written \in Seq(WireMessages) /\ received \in Seq({ReadAs(x) : x \in WireMessages})
      /\ Len(received) <= Len(written) /\ Len(written) <= MaxMessages
      /\ hasPieces \subseteq 0..(NumPieces - 1)
      /\ toThem \in Seq(Nat)
  BY <1>1, <1>2 DEF Types, WireTypeOK, Stream
<1>5. PICK w \in Seq(WireMessages) : w = written
  BY <1>4
<1>6. PICK r \in Nat : r = Len(received)
  BY <1>4
<1>7. PICK n \in Nat : n = Len(w)
  OBVIOUS
<1>8. S \in [0..n -> Seq(Nat)] /\ S[n] = <<>> /\ CutFrom(toThem, S[r]) /\ (~lost => toThem = S[r])
  BY <1>3, <1>5, <1>6, <1>7 DEF OnTheWay, IsStream
<1>9. r < n
  <2>1. r <= n
    BY <1>4, <1>5, <1>6, <1>7
  <2>2. ASSUME r = n PROVE FALSE
    <3>1. Len(toThem) <= Len(<<>>)
      BY <1>8, <2>2 DEF CutFrom
    <3>2. Len(toThem) >= 4
      BY <1>1 DEF HasFrame
    <3>3. Len(<<>>) = 0 /\ Len(toThem) \in Nat
      BY <1>4
    <3> QED  BY <3>1, <3>2, <3>3
  <2> QED  BY <2>1, <2>2
<1>10. r + 1 \in 1..n /\ r \in 0..(n - 1) /\ r + 1 \in 0..n
  BY <1>9
<1>11. PICK m \in WireMessages : m = w[r + 1]
  BY <1>7, <1>10
<1>12. PICK rest \in Seq(Nat) : rest = S[r + 1]
  BY <1>8, <1>10
<1>13. S[r] = Serialize(m) \o rest
  BY <1>3, <1>5, <1>7, <1>10, <1>11, <1>12 DEF OnTheWay, IsStream
<1>14. Reading(m, rest)
  BY <1>4, <1>8, <1>13, ReadOne
<1>15. /\ toThem' \in Seq(Nat) /\ CutFrom(toThem', rest) /\ (~lost => toThem' = rest)
       /\ us' = us /\ toUs' = toUs /\ written' = written
  BY <1>14 DEF Reading
<1>16. us \notin {"idle", "sending"} /\ ours = theirs
  BY <1>1, <1>2 DEF Order, Agreed
<1>17. CASE them' = "panicked" /\ lost' = TRUE /\ UNCHANGED <<received, hasPieces>>
  <2>1. UNCHANGED frameVars
    BY <1>15, <1>17 DEF frameVars
  <2>2. Types'
    <3>1. /\ us' \in {"idle", "sending", "receiving", "open", "failed"}
          /\ them' \in {"receiving", "sending", "open", "failed", "panicked"} /\ lost' \in BOOLEAN
      BY <1>4, <1>15, <1>17
    <3> QED  BY <1>2, <2>1, <3>1, TypesStay
  <2>3. Order'
    BY <1>15, <1>16, <1>17 DEF Order
  <2>4. Greeting(ours)' /\ Agreed(ours, theirs)' /\ Stream'
    BY <1>16, <1>17 DEF Greeting, Agreed, Stream
  <2>5. FramesAreReadAsWritten'
    BY <1>2, <2>1, FramesStay
  <2> QED  BY <2>2, <2>3, <2>4, <2>5 DEF WireInv
<1>18. CASE Take(ReadAs(m))
  <2>1. received' = Append(received, ReadAs(m)) /\ hasPieces' = Noted(ReadAs(m)) /\ GoOnAfter(ReadAs(m))
    BY <1>18 DEF Take
  <2>ends. (UNCHANGED <<them, lost>>) \/ (them' = "failed" /\ lost' = TRUE)
    BY <2>1 DEF GoOnAfter
  <2>2. PICK R : R = {ReadAs(x) : x \in WireMessages}
    OBVIOUS
  <2>3. PICK x \in R : x = ReadAs(m)
    BY <2>2
  <2>4. PICK q \in Seq(R) : q = received
    BY <1>4, <2>2
  <2>5. PICK v : v = Append(q, x)
    OBVIOUS
  <2>6. /\ v \in Seq(R) /\ Len(v) = r + 1 /\ DOMAIN v = 1..(r + 1)
        /\ v[r + 1] = x /\ \A k \in 1..r : v[k] = q[k]
    <3>1. Len(q) = r
      BY <1>6, <2>4
    <3> QED  BY <2>5, <3>1
  <2>7. received' = v
    BY <2>1, <2>3, <2>4, <2>5
  <2>8. \A k \in DOMAIN q : q[k] = ReadAs(w[k])
    BY <1>2, <1>5, <2>4 DEF FramesAreReadAsWritten
  <2>9. hasPieces = AnnouncedIn(w, r)
    BY <1>2, <1>5, <1>6 DEF FramesAreReadAsWritten, Announced, AnnouncedIn, Standing
  <2>10. hasPieces' = AnnouncedIn(w, r + 1) /\ hasPieces' \subseteq 0..(NumPieces - 1)
    <3>1. /\ m[1] = "Bitfield" => hasPieces' = Mentions(m)
          /\ m[1] # "Bitfield" => hasPieces' = hasPieces \cup Mentions(m)
          /\ Mentions(m) \subseteq 0..(NumPieces - 1)
      BY <2>1, NotedIsMentioned
    <3>2. /\ m[1] = "Bitfield" => AnnouncedIn(w, r + 1) = Mentions(m)
          /\ m[1] # "Bitfield" => AnnouncedIn(w, r + 1) = AnnouncedIn(w, r) \cup Mentions(m)
      BY <1>11, AnnouncedNext
    <3>3. hasPieces' \subseteq 0..(NumPieces - 1)
      BY <1>4, <3>1
    <3>4. hasPieces' = AnnouncedIn(w, r + 1)
      BY <2>9, <3>1, <3>2
    <3> QED  BY <3>3, <3>4
  <2>11. Types'
    <3>1. Len(received') = r + 1 /\ Len(written') = n
      BY <1>5, <1>7, <1>15, <2>6, <2>7
    <3>2. Len(received') <= Len(written')
      BY <1>9, <3>1
    <3>3. WireTypeOK'
      BY <1>1, <1>4, <1>15, <2>10, <2>ends, <3>2 DEF WireTypeOK
    <3>4. received' \in Seq({ReadAs(y) : y \in WireMessages})
      BY <2>2, <2>6, <2>7
    <3> QED  BY <3>3, <3>4 DEF Types
  <2>12. Order'
    BY <1>1, <1>15, <1>16, <2>ends DEF Order
  <2>13. Greeting(ours)' /\ Agreed(ours, theirs)'
    BY <1>1, <1>16, <2>ends DEF Greeting, Agreed
  <2>14. Stream'
    <3>1. IsStream(S, written)'
      BY <1>3, <1>15 DEF OnTheWay, IsStream
    <3>2. Len(received') = r + 1
      BY <2>6, <2>7
    <3>3. OnTheWay(S)'
      BY <1>12, <1>15, <2>ends, <3>1, <3>2 DEF OnTheWay
    <3> QED  BY <1>15, <3>3 DEF Stream
  <2>15. FramesAreReadAsWritten'
    <3>1. DOMAIN q = 1..r
      BY <1>6, <2>4
    <3>2. \A k \in 1..(r + 1) : k \in 1..r \/ k = r + 1
      OBVIOUS
    <3>3. ASSUME NEW k \in 1..(r + 1) PROVE v[k] = ReadAs(w[k])
      <4>1. CASE k \in 1..r
        BY <2>6, <2>8, <3>1, <4>1
      <4>2. CASE k = r + 1
        BY <1>11, <2>3, <2>6, <4>2
      <4> QED  BY <3>2, <4>1, <4>2
    <3>4. \A k \in DOMAIN received' : received'[k] = ReadAs(written'[k])
      BY <1>5, <1>15, <2>6, <2>7, <3>3
    <3>5. hasPieces' = AnnouncedIn(written', Len(received'))
      BY <1>5, <1>15, <2>6, <2>7, <2>10
    <3> QED  BY <3>4, <3>5 DEF FramesAreReadAsWritten, Announced, AnnouncedIn, Standing
  <2> QED  BY <2>11, <2>12, <2>13, <2>14, <2>15 DEF WireInv
<1> QED  BY <1>14, <1>17, <1>18 DEF Reading
-----------------------------------------------------------------------------
LEMMA StutterInv ==
  ASSUME NEW ours, NEW theirs, WireInv(ours, theirs), UNCHANGED wireVars
  PROVE  WireInv(ours, theirs)'
<1>1. /\ us' = us /\ them' = them /\ lost' = lost /\ toUs' = toUs
      /\ UNCHANGED <<toThem, frameVars>>
  BY DEF wireVars, frameVars
<1>2. Types /\ Order /\ Greeting(ours) /\ Agreed(ours, theirs) /\ Stream /\ FramesAreReadAsWritten
  BY DEF WireInv
<1>3. Types'
  BY <1>1, <1>2 DEF Types, WireTypeOK, frameVars
<1>4. Order'
  BY <1>1, <1>2 DEF Order, frameVars
<1>5. Greeting(ours)' /\ Agreed(ours, theirs)'
  BY <1>1, <1>2 DEF Greeting, Agreed
<1>6. Stream'
  BY <1>1, <1>2, StreamStays
<1>7. FramesAreReadAsWritten'
  BY <1>1, <1>2, FramesStay
<1> QED  BY <1>3, <1>4, <1>5, <1>6, <1>7 DEF WireInv

LEMMA NextInv ==
  ASSUME NEW ours, NEW theirs, WireInv(ours, theirs), [WireNext(ours, theirs)]_wireVars
  PROVE  WireInv(ours, theirs)'
<1>1. CASE Connect
  BY <1>1, ConnectInv
<1>2. CASE WeSendHandshake(ours)
  BY <1>2, WeSendInv
<1>3. CASE TheyReceiveHandshake(theirs)
  BY <1>3, TheyReceiveInv
<1>4. CASE TheySendHandshake(theirs)
  BY <1>4, TheySendInv
<1>5. CASE WeReceiveHandshake(ours)
  BY <1>5, WeReceiveInv
<1>6. CASE \E m \in WireMessages : Write(m)
  BY <1>6, WriteInv
<1>7. CASE Read
  BY <1>7, ReadInv
<1>8. CASE ReadFails
  BY <1>8, ReadFailsInv
<1>9. CASE Lose
  BY <1>9, LoseInv
<1>10. CASE UNCHANGED wireVars
  BY <1>10, StutterInv
<1> QED
  BY <1>1, <1>2, <1>3, <1>4, <1>5, <1>6, <1>7, <1>8, <1>9, <1>10 DEF WireNext, Handshakes

LEMMA WireInvariant ==
  ASSUME NEW ours, NEW theirs
  PROVE  WireSpec(ours, theirs) => []WireInv(ours, theirs)
<1>1. WireInit => WireInv(ours, theirs)
  BY InitInv
<1>2. WireInv(ours, theirs) /\ [WireNext(ours, theirs)]_wireVars => WireInv(ours, theirs)'
  BY NextInv
<1> QED  BY <1>1, <1>2, PTL DEF WireSpec

(* Whatever the hashes, a connection keeps to its types, and the remote     *)
(* side never has read more than was written.                               *)
THEOREM WireTypesCorrect ==
  ASSUME NEW ours, NEW theirs
  PROVE  WireSpec(ours, theirs) => []WireTypeOK
<1>1. WireInv(ours, theirs) => WireTypeOK
  BY DEF WireInv, Types
<1> QED  BY <1>1, WireInvariant, PTL

(* conn_read_loop reads what conn_write_loop of the other side wrote, frame *)
(* by frame, for any messages and pieces and wherever the stream is cut.    *)
THEOREM FramesAreKept ==
  ASSUME NEW ours, NEW theirs
  PROVE  WireSpec(ours, theirs) => []FramesAreReadAsWritten
<1>1. WireInv(ours, theirs) => FramesAreReadAsWritten
  BY DEF WireInv
<1> QED  BY <1>1, WireInvariant, PTL

(* receive_handshake lets no connection open between sides that know their  *)
(* torrents by different hashes, whichever side is asked, and also if the   *)
(* connection breaks within a handshake.                                    *)
THEOREM OpensForOneHash ==
  ASSUME NEW ours, NEW theirs
  PROVE  WireSpec(ours, theirs) => []SameTorrent(ours, theirs)
<1>1. WireInv(ours, theirs) => SameTorrent(ours, theirs)
  BY DEF WireInv, Agreed, SameTorrent
<1> QED  BY <1>1, WireInvariant, PTL
=============================================================================
