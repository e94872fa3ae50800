---------------------------- MODULE SessionProofs ----------------------------
(***************************************************************************)
(* What reading and writing bencode gives back, for every torrent and every *)
(* answer of a tracker, and what follows from it and from WireProofs for    *)
(* the session.                                                             *)
(***************************************************************************)
EXTENDS Session, WireProofs, Induction, FiniteSetTheorems, FunctionTheorems

-----------------------------------------------------------------------------
(* FlattenSeq: the parts follow each other, each behind the ones before.    *)
FlattenStep(parts, f, i) == IF i = 1 THEN parts[i] ELSE f[i - 1] \o parts[i]

LEMMA FlattenExists ==
  ASSUME NEW n \in Nat, NEW parts
  PROVE  \E f : f = [i \in 1..n |-> FlattenStep(parts, f, i)]
<1> DEFINE Counts == {k \in Nat : \E f : \A i \in 1..n : i <= k => f[i] = FlattenStep(parts, f, i)}
<1>1. 0 \in Counts
  OBVIOUS
<1>2. ASSUME NEW k \in Nat, k \in Counts PROVE k + 1 \in Counts
  <2>1. PICK f : \A i \in 1..n : i <= k => f[i] = FlattenStep(parts, f, i)
    BY <1>2
  <2> DEFINE g == [i \in 1..n |-> FlattenStep(parts, f, i)]
  <2>2. \A i \in 1..n : i <= k => g[i] = f[i]
    BY <2>1
  <2>3. ASSUME NEW i \in 1..n, i <= k + 1 PROVE g[i] = FlattenStep(parts, g, i)
    <3>1. g[i] = FlattenStep(parts, f, i)
      OBVIOUS
    <3> HIDE DEF g
    <3> QED  BY <2>2, <2>3, <3>1 DEF FlattenStep
  <2> HIDE DEF g
  <2> QED  BY <2>3
<1> HIDE DEF Counts
<1>3. n \in Counts
  BY <1>1, <1>2, SetInduction
<1>4. PICK f : \A i \in 1..n : f[i] = FlattenStep(parts, f, i)
  <2>1. \A i \in 1..n : i <= n
    OBVIOUS
  <2> QED  BY <1>3, <2>1 DEF Counts
<1> DEFINE g == [i \in 1..n |-> FlattenStep(parts, f, i)]
<1>5. \A i \in 1..n : g[i] = f[i]
  BY <1>4
<1>6. \A i \in 1..n : FlattenStep(parts, f, i) = FlattenStep(parts, g, i)
  <2> HIDE DEF g
  <2> QED  BY <1>5 DEF FlattenStep
<1>7. g = [i \in 1..n |-> FlattenStep(parts, g, i)]
  BY <1>6
<1> QED  BY <1>7

(* Where part i starts is given by a function, and each position of the     *)
(* whole belongs to a part.                                                 *)
Follow(parts, n, start, whole) ==
  /\ start \in [1..(n + 1) -> Nat] /\ start[1] = 0 /\ start[n + 1] = Len(whole)
  /\ \A i \in 1..n :
       /\ start[i + 1] = start[i] + Len(parts[i])
       /\ start[i + 1] <= Len(whole)
       /\ \A x \in 1..Len(parts[i]) : whole[start[i] + x] = parts[i][x]
  /\ \A i, j \in 1..n : i < j => start[i + 1] <= start[j]
  /\ \A y \in 1..Len(whole) : \E i \in 1..n : \E x \in 1..Len(parts[i]) : y = start[i] + x

(* f is the concatenation of the first i parts.                             *)
Laid(S, parts, start, i, f) ==
  /\ f \in Seq(S) /\ start[i + 1] = Len(f)
  /\ \A j \in 1..i : /\ start[j] \in Nat /\ start[j + 1] \in Nat
                     /\ start[j + 1] = start[j] + Len(parts[j])
                     /\ start[j + 1] <= Len(f)
                     /\ \A x \in 1..Len(parts[j]) : f[start[j] + x] = parts[j][x]
  /\ \A y \in 1..Len(f) : \E j \in 1..i : \E x \in 1..Len(parts[j]) : y = start[j] + x

LEMMA LaidNext ==
  ASSUME NEW S, NEW parts, NEW start, NEW h \in Nat \ {0}, NEW i, i = h + 1,
         \A j \in 1..h : parts[j] \in Seq(S),
         NEW a \in Seq(S), NEW b \in Seq(S), Laid(S, parts, start, h, a),
         parts[i] = b, start[i + 1] = Len(a \o b)
  PROVE  Laid(S, parts, start, i, a \o b)
<1>1. PICK f : f = a \o b
  OBVIOUS
<1>2. PICK m \in Nat : m = Len(a)
  OBVIOUS
<1>3. PICK l \in Nat : l = Len(b)
  OBVIOUS
<1>4. /\ f \in Seq(S) /\ Len(f) = m + l
      /\ \A x \in 1..m : f[x] = a[x]
      /\ \A x \in 1..l : f[m + x] = b[x]
  BY <1>1, <1>2, <1>3, Concat
<1>5. start[i] = m /\ start[i + 1] = m + l /\ Len(parts[i]) = l
  BY <1>1, <1>2, <1>3, <1>4 DEF Laid
<1>6. ASSUME NEW j \in 1..h
      PROVE  /\ start[j] \in Nat /\ start[j + 1] \in Nat
             /\ start[j + 1] = start[j] + Len(parts[j])
             /\ start[j + 1] <= Len(f)
             /\ \A x \in 1..Len(parts[j]) : f[start[j] + x] = parts[j][x]
  <2>1. /\ start[j] \in Nat /\ start[j + 1] \in Nat
        /\ start[j + 1] = start[j] + Len(parts[j])
        /\ start[j + 1] <= m
        /\ \A x \in 1..Len(parts[j]) : a[start[j] + x] = parts[j][x]
    BY <1>2 DEF Laid
  <2>2. PICK u \in Nat, v \in Nat : u = start[j] /\ v = start[j + 1]
    BY <2>1
  <2>3. PICK d \in Int : d = Len(parts[j])
    <3>1. parts[j] \in Seq(S)
      OBVIOUS
    <3> QED  BY <3>1
  <2>4. v = u + d /\ v <= m
    BY <2>1, <2>2, <2>3
  <2>5. \A x \in 1..d : u + x \in 1..m
    BY <2>4
  <2>6. \A x \in 1..d : a[u + x] = parts[j][x]
    BY <2>1, <2>2, <2>3
  <2>7. \A x \in 1..d : f[u + x] = parts[j][x]
    BY <1>4, <2>5, <2>6
  <2>8. v <= Len(f)
    BY <1>4, <2>4
  <2> QED  BY <2>1, <2>2, <2>3, <2>7, <2>8
<1>7. /\ start[i] \in Nat /\ start[i + 1] \in Nat
      /\ start[i + 1] = start[i] + Len(parts[i])
      /\ start[i + 1] <= Len(f)
      /\ \A x \in 1..Len(parts[i]) : f[start[i] + x] = parts[i][x]
  <2>1. start[i] \in Nat /\ start[i + 1] \in Nat /\ start[i + 1] = start[i] + Len(parts[i])
    BY <1>5
  <2>2. start[i + 1] <= Len(f)
    BY <1>4, <1>5
  <2>3. \A x \in 1..l : f[m + x] = parts[i][x]
    BY <1>4
  <2> QED  BY <1>5, <2>1, <2>2, <2>3
<1>8. \A j \in 1..i : j \in 1..h \/ j = i
  OBVIOUS
<1>9. ASSUME NEW y \in 1..Len(f)
      PROVE  \E j \in 1..i : \E x \in 1..Len(parts[j]) : y = start[j] + x
  <2>1. CASE y <= m
    <3>1. y \in 1..Len(a)
      BY <1>2, <1>4, <2>1
    <3>2. PICK j \in 1..h : \E x \in 1..Len(parts[j]) : y = start[j] + x
      BY <3>1 DEF Laid
    <3>3. j \in 1..i
      OBVIOUS
    <3> QED  BY <3>2, <3>3
  <2>2. CASE y > m
    <3>1. PICK x \in 1..l : y = m + x
      <4>1. y - m \in 1..l /\ y = m + (y - m)
        BY <1>4, <2>2
      <4> QED  BY <4>1
    <3>2. i \in 1..i /\ x \in 1..Len(parts[i]) /\ y = start[i] + x
      BY <1>5, <3>1
    <3> QED  BY <3>2
  <2>3. y \in Int
    OBVIOUS
  <2> QED  BY <2>1, <2>2, <2>3
<1>10. start[i + 1] = Len(f)
  BY <1>1
<1>11. Laid(S, parts, start, i, f)
  BY <1>4, <1>6, <1>7, <1>8, <1>9, <1>10 DEF Laid
<1> QED  BY <1>1, <1>11

LEMMA FlattenParts ==
  ASSUME NEW S, NEW n \in Nat, NEW parts \in [1..n -> Seq(S)]
  PROVE  /\ FlattenSeq(parts) \in Seq(S)
         /\ \E start : Follow(parts, n, start, FlattenSeq(parts))
<1>1. parts \in Seq(Seq(S)) /\ Len(parts) = n /\ \A i \in 1..n : parts[i] \in Seq(S)
  OBVIOUS
<1>2. CASE n = 0
  <2>1. FlattenSeq(parts) = parts /\ parts = <<>>
    BY <1>1, <1>2 DEF FlattenSeq
  <2>2. FlattenSeq(parts) \in Seq(S) /\ Len(FlattenSeq(parts)) = 0
    BY <2>1
  <2>3. Follow(parts, n, [i \in 1..(n + 1) |-> 0], FlattenSeq(parts))
    BY <1>2, <2>2 DEF Follow
  <2> QED  BY <2>2, <2>3
<1>3. CASE n > 0
  <2> DEFINE flatten == CHOOSE f : f = [i \in 1..n |-> FlattenStep(parts, f, i)]
  <2>1. flatten = [i \in 1..n |-> FlattenStep(parts, flatten, i)]
    BY FlattenExists
  <2>2. FlattenSeq(parts) = flatten[n]
    BY <1>1, <1>3 DEF FlattenSeq, FlattenStep
  <2> HIDE DEF flatten
  <2>3. PICK f : f = flatten
    OBVIOUS
  <2>4. f[1] = parts[1] /\ \A i \in 1..n : i > 1 => f[i] = f[i - 1] \o parts[i]
    <3>1. \A i \in 1..n : f[i] = FlattenStep(parts, f, i)
      BY <2>1, <2>3
    <3>2. FlattenStep(parts, f, 1) = parts[1] /\ 1 \in 1..n
      BY <1>3 DEF FlattenStep
    <3>3. \A i \in 1..n : i > 1 => FlattenStep(parts, f, i) = f[i - 1] \o parts[i]
      BY DEF FlattenStep
    <3> QED  BY <3>1, <3>2, <3>3
  <2> DEFINE start == [i \in 1..(n + 1) |-> IF i = 1 THEN 0 ELSE Len(f[i - 1])]
             Done == {k \in Nat : \A i \in 1..n : i <= k => Laid(S, parts, start, i, f[i])}
  <2>5. start[1] = 0 /\ \A i \in 1..n : start[i + 1] = Len(f[i])
    BY <1>3
  <2> HIDE DEF start
  <2>6. 0 \in Done
    OBVIOUS
  <2>7. ASSUME NEW k \in Nat, k \in Done PROVE k + 1 \in Done
    <3>1. \A i \in 1..n : i <= k => Laid(S, parts, start, i, f[i])
      BY <2>7
    <3>2. ASSUME NEW i \in 1..n, i = k + 1 PROVE Laid(S, parts, start, i, f[i])
      <4>1. CASE i = 1
        <5>1. PICK b \in Seq(S) : b = parts[1]
          BY <1>1, <4>1
        <5>2. PICK l \in Nat : l = Len(b)
          OBVIOUS
        <5>3. f[1] = b /\ start[1] = 0 /\ start[2] = l
          <6>1. start[1 + 1] = Len(f[1]) /\ 1 + 1 = 2
            BY <2>5, <4>1
          <6> QED  BY <2>4, <2>5, <5>1, <5>2, <6>1
        <5>4. \A x \in 1..l : 0 + x = x
          OBVIOUS
        <5>5. Laid(S, parts, start, 1, b)
          <6>1. \A j \in 1..1 : j = 1
            OBVIOUS
          <6>2. /\ start[1 + 1] = l /\ start[1] = 0 /\ Len(b) = l /\ Len(parts[1]) = l
                /\ 0 + l = l /\ l <= l /\ 0 \in Nat /\ 1 \in 1..1
            BY <5>1, <5>2, <5>3
          <6>3. \A x \in 1..l : b[0 + x] = parts[1][x]
            BY <5>1, <5>4
          <6>4. b \in Seq(S) /\ start[1 + 1] = Len(b)
            BY <6>2
          <6>5. ASSUME NEW j \in 1..1
                PROVE  /\ start[j] \in Nat /\ start[j + 1] \in Nat
                       /\ start[j + 1] = start[j] + Len(parts[j])
                       /\ start[j + 1] <= Len(b)
                       /\ \A x \in 1..Len(parts[j]) : b[start[j] + x] = parts[j][x]
            <7>1. j = 1
              BY <6>1
            <7>2. /\ start[1] \in Nat /\ start[1 + 1] \in Nat
                  /\ start[1 + 1] = start[1] + Len(parts[1]) /\ start[1 + 1] <= Len(b)
              BY <6>2
            <7>3. \A x \in 1..Len(parts[1]) : b[start[1] + x] = parts[1][x]
              BY <6>2, <6>3
            <7> QED  BY <7>1, <7>2, <7>3
          <6>6. ASSUME NEW y \in 1..Len(b)
                PROVE  \E j \in 1..1 : \E x \in 1..Len(parts[j]) : y = start[j] + x
            <7>1. y \in 1..Len(parts[1]) /\ y = start[1] + y
              BY <5>4, <6>2
            <7> QED  BY <6>2, <7>1
          <6> QED  BY <6>4, <6>5, <6>6 DEF Laid
        <5> QED  BY <4>1, <5>3, <5>5
      <4>2. CASE i > 1
        <5>1. PICK h \in 1..n : h = i - 1 /\ h = k /\ i = h + 1
          BY <3>2, <4>2
        <5>2. Laid(S, parts, start, h, f[h])
          BY <3>1, <5>1
        <5>3. PICK a \in Seq(S), b \in Seq(S) : a = f[h] /\ b = parts[i]
          BY <1>1, <5>2 DEF Laid
        <5>4. f[i] = a \o b
          BY <2>4, <4>2, <5>1, <5>3
        <5>5. start[i + 1] = Len(a \o b)
          BY <2>5, <5>4
        <5>6. h \in Nat \ {0} /\ \A j \in 1..h : parts[j] \in Seq(S)
          BY <1>1
        <5>7. Laid(S, parts, start, i, a \o b)
          BY <5>1, <5>2, <5>3, <5>5, <5>6, LaidNext
        <5> QED  BY <5>4, <5>7
      <4> QED  BY <4>1, <4>2
    <3>3. \A i \in 1..n : i <= k + 1 => i <= k \/ i = k + 1
      OBVIOUS
    <3> QED  BY <3>1, <3>2, <3>3
  <2> HIDE DEF Done
  <2>8. \A i \in 1..n : Laid(S, parts, start, i, f[i])
    <3>1. n \in Done
      BY <2>6, <2>7, SetInduction
    <3>2. \A i \in 1..n : i <= n
      OBVIOUS
    <3> QED  BY <3>1, <3>2 DEF Done
  <2>9. FlattenSeq(parts) = f[n] /\ n \in 1..n /\ Laid(S, parts, start, n, f[n])
    BY <1>3, <2>2, <2>3, <2>8
  <2>10. start \in [1..(n + 1) -> Nat]
    <3>1. start = [i \in 1..(n + 1) |-> start[i]]
      BY DEF start
    <3>2. \A i \in 1..(n + 1) : i = 1 \/ (i - 1 \in 1..n /\ (i - 1) + 1 = i)
      OBVIOUS
    <3>3. \A i \in 1..n : start[i + 1] \in Nat
      BY <2>8 DEF Laid
    <3>4. ASSUME NEW i \in 1..(n + 1) PROVE start[i] \in Nat
      <4>1. CASE i = 1
        BY <2>5, <4>1
      <4>2. ASSUME NEW h \in 1..n, h + 1 = i PROVE start[i] \in Nat
        BY <3>3, <4>2
      <4> QED  BY <3>2, <4>1, <4>2
    <3> QED  BY <3>1, <3>4
  <2>11. ASSUME NEW i \in 1..n, NEW j \in 1..n, i < j PROVE start[i + 1] <= start[j]
    <3>1. PICK h \in 1..n : j = h + 1 /\ i \in 1..h
      <4>1. j - 1 \in 1..n /\ i \in 1..(j - 1) /\ j = (j - 1) + 1
        BY <2>11
      <4> QED  BY <4>1
    <3>2. start[j] = Len(f[h])
      BY <2>5, <3>1
    <3>3. start[i + 1] <= Len(f[h])
      BY <2>8, <3>1 DEF Laid
    <3> QED  BY <3>2, <3>3
  <2>12. Follow(parts, n, start, f[n])
    BY <2>5, <2>9, <2>10, <2>11 DEF Follow, Laid
  <2> QED  BY <2>9, <2>12 DEF Laid
<1> QED  BY <1>2, <1>3
-----------------------------------------------------------------------------
(* Numbers.  TwoTo is the recursive function that its definition describes. *)
TwoToStep(f, n) == IF n = 0 THEN 1 ELSE 2 * f[n - 1]

LEMMA TwoToUnique ==
  ASSUME NEW k \in Nat, NEW f, NEW g,
         \A n \in Nat : n <= k => f[n] = TwoToStep(f, n),
         \A n \in Nat : n <= k => g[n] = TwoToStep(g, n)
  PROVE  \A n \in Nat : n <= k => f[n] = g[n]
<1> DEFINE Same == {n \in Nat : n <= k => f[n] = g[n]}
<1>1. 0 \in Same
  <2>1. 0 <= k /\ f[0] = TwoToStep(f, 0) /\ g[0] = TwoToStep(g, 0)
    OBVIOUS
  <2> QED  BY <2>1 DEF TwoToStep
<1>2. ASSUME NEW n \in Nat, n \in Same PROVE n + 1 \in Same
  <2>1. ASSUME n + 1 <= k PROVE f[n + 1] = g[n + 1]
    <3>1. n <= k /\ f[n] = g[n]
      BY <1>2, <2>1
    <3>2. f[n + 1] = TwoToStep(f, n + 1) /\ g[n + 1] = TwoToStep(g, n + 1)
      BY <2>1
    <3>3. \A h : TwoToStep(h, n + 1) = 2 * h[n]
      <4>1. n + 1 # 0 /\ (n + 1) - 1 = n
        OBVIOUS
      <4> QED  BY <4>1 DEF TwoToStep
    <3> QED  BY <3>1, <3>2, <3>3
  <2> QED  BY <2>1
<1> HIDE DEF Same
<1>3. Nat \subseteq Same
  BY <1>1, <1>2, SetInduction
<1> QED  BY <1>3 DEF Same

LEMMA TwoToExists == \E f : f = [n \in Nat |-> TwoToStep(f, n)]
<1> DEFINE Good(k, f) == \A n \in Nat : n <= k => f[n] = TwoToStep(f, n)
           Counts == {k \in Nat : \E f : Good(k, f)}
<1>1. 0 \in Counts
  <2>1. \A n \in Nat : n <= 0 => n = 0
    OBVIOUS
  <2>2. Good(0, [n \in Nat |-> 1])
    BY <2>1 DEF TwoToStep
  <2> QED  BY <2>2
<1>2. ASSUME NEW k \in Nat, k \in Counts PROVE k + 1 \in Counts
  <2>1. PICK f : Good(k, f)
    BY <1>2
  <2> DEFINE g == [n \in Nat |-> TwoToStep(f, n)]
  <2>2. \A n \in Nat : n <= k => g[n] = f[n]
    BY <2>1
  <2>3. ASSUME NEW n \in Nat, n <= k + 1 PROVE g[n] = TwoToStep(g, n)
    <3>1. g[n] = TwoToStep(f, n)
      OBVIOUS
    <3> HIDE DEF g
    <3>2. n = 0 \/ (n - 1 \in Nat /\ n - 1 <= k)
      BY <2>3
    <3> QED  BY <2>2, <3>1, <3>2 DEF TwoToStep
  <2> HIDE DEF g
  <2> QED  BY <2>3
<1> HIDE DEF Counts
<1>3. \A k \in Nat : \E f : Good(k, f)
  <2>1. Nat \subseteq Counts
    BY <1>1, <1>2, SetInduction
  <2> QED  BY <2>1 DEF Counts
<1> DEFINE best(k) == CHOOSE f : Good(k, f)
           g == [n \in Nat |-> best(n)[n]]
<1>4. \A k \in Nat : Good(k, best(k))
  BY <1>3
<1> HIDE DEF best
<1>5. ASSUME NEW n \in Nat PROVE g[n] = TwoToStep(g, n)
  <2>1. g[n] = TwoToStep(best(n), n)
    BY <1>4
  <2>2. CASE n = 0
    BY <2>1, <2>2 DEF TwoToStep
  <2>3. CASE n # 0
    <3>1. PICK h \in Nat : h = n - 1 /\ h <= n
      BY <2>3
    <3>2. \A i \in Nat : i <= h => i <= n
      BY <3>1
    <3>3. /\ \A i \in Nat : i <= h => best(n)[i] = TwoToStep(best(n), i)
          /\ \A i \in Nat : i <= h => best(h)[i] = TwoToStep(best(h), i)
      BY <1>4, <3>2
    <3>4. \A i \in Nat : i <= h => best(n)[i] = best(h)[i]
      BY <3>3, TwoToUnique
    <3>5. h <= h
      OBVIOUS
    <3>6. best(n)[h] = g[h]
      BY <3>4, <3>5
    <3> HIDE DEF g
    <3> QED  BY <2>1, <2>3, <3>1, <3>6 DEF TwoToStep
  <2> QED  BY <2>2, <2>3
<1>6. g = [n \in Nat |-> TwoToStep(g, n)]
  <2>1. g = [n \in Nat |-> g[n]]
    OBVIOUS
  <2> HIDE DEF g
  <2> QED  BY <1>5, <2>1
<1> QED  BY <1>6

LEMMA TwoToValue == TwoTo[0] = 1 /\ \A n \in Nat : TwoTo[n + 1] = 2 * TwoTo[n]
<1>1. TwoTo = CHOOSE f : f = [n \in Nat |-> IF n = 0 THEN 1 ELSE 2 * f[n - 1]]
  BY DEF TwoTo
<1>2. TwoTo = CHOOSE f : f = [n \in Nat |-> TwoToStep(f, n)]
  BY <1>1 DEF TwoToStep
<1>3. TwoTo = [n \in Nat |-> TwoToStep(TwoTo, n)]
  <2> DEFINE g == CHOOSE f : f = [n \in Nat |-> TwoToStep(f, n)]
  <2>1. g = [n \in Nat |-> TwoToStep(g, n)]
    BY TwoToExists
  <2> HIDE DEF g
  <2>2. TwoTo = g
    BY <1>2 DEF g
  <2> QED  BY <2>1, <2>2
<1>4. PICK f : f = TwoTo
  OBVIOUS
<1>5. \A n \in Nat : f[n] = TwoToStep(f, n)
  BY <1>3, <1>4
<1>6. f[0] = 1
  BY <1>5 DEF TwoToStep
<1>7. ASSUME NEW n \in Nat PROVE f[n + 1] = 2 * f[n]
  <2>1. n + 1 \in Nat /\ n + 1 # 0 /\ (n + 1) - 1 = n
    OBVIOUS
  <2> QED  BY <1>5, <2>1 DEF TwoToStep
<1> QED  BY <1>4, <1>6, <1>7

LEMMA TwoToType == \A n \in Nat : TwoTo[n] \in Nat \ {0}
<1> DEFINE Good == {n \in Nat : TwoTo[n] \in Nat \ {0}}
<1>1. 0 \in Good
  BY TwoToValue
<1>2. ASSUME NEW n \in Nat, n \in Good PROVE n + 1 \in Good
  <2>1. PICK t \in Nat \ {0} : t = TwoTo[n]
    BY <1>2
  <2>2. TwoTo[n + 1] = 2 * t
    BY <2>1, TwoToValue
  <2> QED  BY <2>2
<1> HIDE DEF Good
<1>3. Nat \subseteq Good
  BY <1>1, <1>2, SetInduction
<1> QED  BY <1>3 DEF Good

(* The numbers of unsigned and of signed types, by half their number.       *)
LEMMA Halves ==
  \E h \in Nat \ {0} :
    /\ TwoTo[Width] = 2 * h
    /\ Unsigned(Width) = 0..(2 * h - 1)
    /\ Signed(Width) = -h..(h - 1)
<1>1. Width - 1 \in Nat /\ (Width - 1) + 1 = Width
  BY BencodeAssumption
<1>2. PICK h \in Nat \ {0} : h = TwoTo[Width - 1]
  BY <1>1, TwoToType
<1>3. TwoTo[Width] = 2 * h
  BY <1>1, <1>2, TwoToValue
<1>4. Unsigned(Width) = 0..(2 * h - 1) /\ Signed(Width) = -h..(h - 1)
  BY <1>2, <1>3 DEF Unsigned, Signed
<1> QED  BY <1>3, <1>4

(* "self as i64" keeps a number, whatever its sign becomes.                 *)
LEMMA NumberIsKept ==
  ASSUME NEW n \in Unsigned(Width)
  PROVE  /\ \E k \in Signed(Width) : IntegerValue(n) = <<"Integer", k>>
         /\ IntegerFrom(IntegerValue(n), Width) = Ok(n, 0)
<1>1. PICK h \in Nat \ {0} : /\ TwoTo[Width] = 2 * h
                             /\ Unsigned(Width) = 0..(2 * h - 1)
                             /\ Signed(Width) = -h..(h - 1)
  BY Halves
<1>2. PICK t \in Nat \ {0} : t = 2 * h
  OBVIOUS
<1>3. n \in Nat /\ n < t
  BY <1>1, <1>2
<1>4. PICK k : k = IF n \in Signed(Width) THEN n ELSE n - t
  OBVIOUS
<1>5. IntegerValue(n) = <<"Integer", k>>
  BY <1>1, <1>2, <1>4 DEF IntegerValue
<1>6. k \in Signed(Width) /\ k \in Int /\ (k = n \/ k = n - t)
  BY <1>1, <1>2, <1>3, <1>4
<1>7. k % t = n
  <2>1. k = t * (k \div t) + (k % t) /\ k % t \in 0..(t - 1) /\ k \div t \in Int
    BY <1>6
  <2>2. PICK q \in Int, r \in 0..(t - 1) : k = t * q + r /\ r = k % t
    BY <2>1
  <2>3. PICK d \in Int : n = t * d + r
    <3>1. k = n => n = t * q + r
      BY <2>2
    <3>2. k = n - t => n = t * (q + 1) + r
      BY <1>3, <2>2
    <3>3. k = n \/ k = n - t
      BY <1>6
    <3>4. CASE n = t * q + r
      BY <3>4
    <3>5. CASE n = t * (q + 1) + r
      <4>1. q + 1 \in Int
        OBVIOUS
      <4> QED  BY <3>5, <4>1
    <3> QED  BY <3>1, <3>2, <3>3, <3>4, <3>5
  <2>4. d = 0
    <3>1. CASE d >= 1
      <4>1. t * d >= t
        BY <3>1
      <4> QED  BY <1>3, <2>3, <4>1
    <3>2. CASE d <= -1
      <4>1. t * d <= -t
        BY <3>2
      <4> QED  BY <1>3, <2>3, <4>1
    <3> QED  BY <3>1, <3>2
  <2> QED  BY <1>3, <2>2, <2>3, <2>4
<1>8. IntegerFrom(<<"Integer", k>>, Width) = Ok(k % t, 0)
  BY <1>1, <1>2 DEF IntegerFrom
<1> QED  BY <1>5, <1>6, <1>7, <1>8

LEMMA NumberIsUnsigned ==
  ASSUME NEW k \in Int
  PROVE  k % TwoTo[Width] \in Unsigned(Width)
<1>1. PICK h \in Nat \ {0} : TwoTo[Width] = 2 * h /\ Unsigned(Width) = 0..(2 * h - 1)
  BY Halves
<1>2. PICK t \in Nat \ {0} : t = 2 * h
  OBVIOUS
<1>3. k % t \in 0..(t - 1)
  OBVIOUS
<1> QED  BY <1>1, <1>2, <1>3
-----------------------------------------------------------------------------
(* Functions: what was there keeps its value, sequences are functions, and  *)
(* induction from the end of a sequence to its start.                       *)
LEMMA Joins ==
  ASSUME NEW f, NEW g
  PROVE  /\ DOMAIN (f ++ g) = DOMAIN f \cup DOMAIN g
         /\ \A k \in DOMAIN f : (f ++ g)[k] = f[k]
         /\ \A k \in DOMAIN g : k \notin DOMAIN f => (f ++ g)[k] = g[k]
BY DEF ++

LEMMA FunctionIsSeq ==
  ASSUME NEW n \in Nat, NEW f, f = [i \in 1..n |-> f[i]]
  PROVE  f \in Seq({f[i] : i \in 1..n}) /\ Len(f) = n /\ DOMAIN f = 1..n
<1>1. f \in [1..n -> {f[i] : i \in 1..n}]
  OBVIOUS
<1> QED  BY <1>1

LEMMA DownInduction ==
  ASSUME NEW n \in Nat, NEW S, \A k \in 0..n : (\A j \in (k + 1)..n : j \in S) => k \in S
  PROVE  \A k \in 0..n : k \in S
<1> DEFINE Done == {d \in Nat : \A k \in 0..n : k >= n - d => k \in S}
<1>1. 0 \in Done
  OBVIOUS
<1>2. ASSUME NEW d \in Nat, d \in Done PROVE d + 1 \in Done
  <2>1. ASSUME NEW k \in 0..n, k >= n - (d + 1) PROVE k \in S
    <3>1. \A j \in (k + 1)..n : j \in 0..n /\ j >= n - d
      BY <2>1
    <3>2. \A j \in 0..n : j >= n - d => j \in S
      BY <1>2
    <3> QED  BY <3>1, <3>2
  <2> QED  BY <2>1
<1>3. n \in Done
  <2> HIDE DEF Done
  <2> QED  BY <1>1, <1>2, SetInduction
<1>4. \A k \in 0..n : k >= n - n
  OBVIOUS
<1> QED  BY <1>3, <1>4

(* The rest of a sequence.                                                  *)
RestOf(s, i) == SubSeq(s, i, Len(s))

LEMMA RestAtEnd ==
  ASSUME NEW V, NEW s \in Seq(V)
  PROVE  RestOf(s, Len(s) + 1) = <<>> /\ RestOf(s, 1) = s
<1>1. PICK n \in Nat : n = Len(s)
  OBVIOUS
<1>2. SubSeq(s, n + 1, n) \in Seq(V) /\ Len(SubSeq(s, n + 1, n)) = 0
  <2>1. n + 1 \in Nat \ {0} /\ n + 1 <= n + 1 /\ n <= Len(s) /\ n - (n + 1) + 1 = 0
    BY <1>1
  <2> QED  BY <2>1, Part
<1>3. SubSeq(s, n + 1, n) = <<>>
  BY <1>2
<1>4. /\ SubSeq(s, 1, n) \in Seq(V) /\ Len(SubSeq(s, 1, n)) = n
      /\ \A i \in 1..n : SubSeq(s, 1, n)[i] = s[i]
  <2>1. 1 \in Nat \ {0} /\ 1 <= n + 1 /\ n <= Len(s) /\ n - 1 + 1 = n /\ \A i \in 1..n : 1 + i - 1 = i
    BY <1>1
  <2> QED  BY <2>1, Part
<1>5. SubSeq(s, 1, n) = s
  BY <1>1, <1>4, SameSequence
<1> QED  BY <1>1, <1>3, <1>5 DEF RestOf

LEMMA RestAtNext ==
  ASSUME NEW V, NEW s \in Seq(V), NEW i \in 1..Len(s)
  PROVE  <<s[i]>> \o RestOf(s, i + 1) = RestOf(s, i)
<1>1. PICK n \in Nat : n = Len(s)
  OBVIOUS
<1>2. i \in Nat \ {0} /\ i + 1 \in Nat \ {0} /\ i <= n /\ i <= n + 1 /\ i + 1 <= n + 1 /\ n <= Len(s)
  BY <1>1
<1>3. PICK a : a = SubSeq(s, i, n) /\ a \in Seq(V) /\ Len(a) = n - i + 1
               /\ \A x \in 1..(n - i + 1) : a[x] = s[i + x - 1]
  <2>1. /\ SubSeq(s, i, n) \in Seq(V) /\ Len(SubSeq(s, i, n)) = n - i + 1
        /\ \A x \in 1..(n - i + 1) : SubSeq(s, i, n)[x] = s[i + x - 1]
    BY <1>2, Part
  <2> QED  BY <2>1
<1>4. PICK b : b = SubSeq(s, i + 1, n) /\ b \in Seq(V) /\ Len(b) = n - (i + 1) + 1
               /\ \A x \in 1..(n - (i + 1) + 1) : b[x] = s[(i + 1) + x - 1]
  <2>1. PICK j : j = i + 1
    OBVIOUS
  <2>2. j \in Nat \ {0} /\ j <= n + 1
    BY <1>2, <2>1
  <2>3. /\ SubSeq(s, j, n) \in Seq(V) /\ Len(SubSeq(s, j, n)) = n - j + 1
        /\ \A x \in 1..(n - j + 1) : SubSeq(s, j, n)[x] = s[j + x - 1]
    BY <1>2, <2>2, Part
  <2> QED  BY <2>1, <2>3
<1>5. PICK c : c = <<s[i]>> /\ c \in Seq(V) /\ Len(c) = 1 /\ c[1] = s[i]
  <2>1. s[i] \in V
    BY <1>1, <1>2
  <2>2. <<s[i]>> \in Seq(V) /\ Len(<<s[i]>>) = 1 /\ <<s[i]>>[1] = s[i]
    BY <2>1
  <2> QED  BY <2>2
<1>6. /\ c \o b \in Seq(V) /\ Len(c \o b) = Len(c) + Len(b)
      /\ \A x \in 1..Len(c) : (c \o b)[x] = c[x]
      /\ \A x \in 1..Len(b) : (c \o b)[Len(c) + x] = b[x]
  BY <1>4, <1>5, Concat
<1>7. Len(b) = n - i /\ Len(c \o b) = n - i + 1
  BY <1>2, <1>4, <1>5, <1>6
<1>8. ASSUME NEW x \in 1..(n - i + 1) PROVE (c \o b)[x] = a[x]
  <2>1. a[x] = s[i + x - 1]
    BY <1>3
  <2>2. CASE x = 1
    <3>1. i + x - 1 = i /\ 1 \in 1..Len(c)
      BY <1>2, <1>5, <2>2
    <3> QED  BY <1>5, <1>6, <2>1, <2>2, <3>1
  <2>3. CASE x # 1
    <3>1. PICK y \in 1..(n - i) : x = 1 + y
      <4>1. x - 1 \in 1..(n - i) /\ x = 1 + (x - 1)
        BY <1>2, <2>3
      <4> QED  BY <4>1
    <3>2. y \in 1..(n - (i + 1) + 1) /\ (i + 1) + y - 1 = i + x - 1
      BY <1>2, <3>1
    <3>3. (c \o b)[x] = b[y]
      BY <1>5, <1>6, <1>7, <3>1
    <3> QED  BY <1>4, <2>1, <3>2, <3>3
  <2> QED  BY <2>2, <2>3
<1>9. c \o b = a
  <2>1. Len(c \o b) = Len(a) /\ Len(a) = n - i + 1
    BY <1>3, <1>7
  <2> QED  BY <1>3, <1>6, <1>8, <2>1, SameSequence
<1> QED  BY <1>1, <1>3, <1>4, <1>5, <1>9 DEF RestOf

(* Collect: the values of a list, or an error.                              *)
CollectStep(results, rest, i) ==
  IF i > Len(results) THEN Ok(<<>>, 0)
  ELSE IF results[i].status = "ok"
  THEN IF rest[i + 1].status = "ok" THEN Ok(<<results[i].value>> \o rest[i + 1].value, 0)
       ELSE rest[i + 1]
  ELSE results[i]

LEMMA CollectExists ==
  ASSUME NEW n \in Nat, NEW results, Len(results) = n
  PROVE  \E f : f = [i \in 1..(n + 1) |-> CollectStep(results, f, i)]
<1> DEFINE Good(k, f) == \A i \in 1..(n + 1) : i >= k => f[i] = CollectStep(results, f, i)
           Done == {k \in 0..(n + 1) : \E f : Good(k, f)}
<1>1. ASSUME NEW k \in 0..(n + 1), \A j \in (k + 1)..(n + 1) : j \in Done PROVE k \in Done
  <2>1. PICK f : \A i \in 1..(n + 1) : i > k => f[i] = CollectStep(results, f, i)
    <3>1. CASE k = n + 1
      BY <3>1
    <3>2. CASE k # n + 1
      <4>1. k + 1 \in (k + 1)..(n + 1)
        BY <3>2
      <4>2. PICK f : Good(k + 1, f)
        BY <1>1, <4>1
      <4> QED  BY <4>2
    <3> QED  BY <3>1, <3>2
  <2> DEFINE g == [i \in 1..(n + 1) |-> CollectStep(results, f, i)]
  <2>2. \A i \in 1..(n + 1) : i > k => g[i] = f[i]
    BY <2>1
  <2>3. ASSUME NEW i \in 1..(n + 1), i >= k PROVE g[i] = CollectStep(results, g, i)
    <3>1. g[i] = CollectStep(results, f, i)
      OBVIOUS
    <3> HIDE DEF g
    <3>2. i > n \/ g[i + 1] = f[i + 1]
      <4>1. i > n \/ (i + 1 \in 1..(n + 1) /\ i + 1 > k)
        BY <2>3
      <4> QED  BY <2>2, <4>1
    <3> QED  BY <3>1, <3>2 DEF CollectStep
  <2> HIDE DEF g
  <2> QED  BY <2>3
<1> HIDE DEF Done
<1>2. n + 1 \in Nat /\ 0 \in 0..(n + 1)
  OBVIOUS
<1>3. 0 \in Done
  BY <1>1, <1>2, DownInduction
<1>4. PICK f : \A i \in 1..(n + 1) : f[i] = CollectStep(results, f, i)
  <2>1. \A i \in 1..(n + 1) : i >= 0
    OBVIOUS
  <2> QED  BY <1>3, <2>1 DEF Done
<1> DEFINE g == [i \in 1..(n + 1) |-> CollectStep(results, f, i)]
<1>5. \A i \in 1..(n + 1) : g[i] = f[i]
  BY <1>4
<1>6. ASSUME NEW i \in 1..(n + 1) PROVE CollectStep(results, f, i) = CollectStep(results, g, i)
  <2>1. i > n \/ i + 1 \in 1..(n + 1)
    OBVIOUS
  <2> HIDE DEF g
  <2> QED  BY <1>5, <2>1 DEF CollectStep
<1>7. g = [i \in 1..(n + 1) |-> CollectStep(results, g, i)]
  BY <1>6
<1> QED  BY <1>7

LEMMA CollectedUnfolds ==
  ASSUME NEW n \in Nat, NEW results, Len(results) = n
  PROVE  \A i \in 1..(n + 1) : Collected(results)[i] = CollectStep(results, Collected(results), i)
<1> DEFINE f == CHOOSE f : f = [i \in 1..(n + 1) |-> CollectStep(results, f, i)]
<1>1. f = [i \in 1..(n + 1) |-> CollectStep(results, f, i)]
  BY CollectExists
<1>2. Collected(results) = f
  BY DEF Collected, CollectStep, Then
<1> HIDE DEF f
<1>3. \A i \in 1..(n + 1) : f[i] = CollectStep(results, f, i)
  BY <1>1
<1> QED  BY <1>2, <1>3

LEMMA AllCollected ==
  ASSUME NEW V, NEW vals \in Seq(V), NEW results, Len(results) = Len(vals),
         \A i \in 1..Len(vals) : results[i] = Ok(vals[i], 0)
  PROVE  Collect(results) = Ok(vals, 0)
<1>1. PICK n \in Nat : n = Len(vals)
  OBVIOUS
<1>2. PICK f : f = Collected(results)
  OBVIOUS
<1>3. \A i \in 1..(n + 1) : f[i] = CollectStep(results, f, i)
  BY <1>1, <1>2, CollectedUnfolds
<1> DEFINE Good == {k \in 0..(n + 1) : k = 0 \/ f[k] = Ok(RestOf(vals, k), 0)}
<1>4. ASSUME NEW k \in 0..(n + 1), \A j \in (k + 1)..(n + 1) : j \in Good PROVE k \in Good
  <2>1. CASE k = 0
    BY <2>1
  <2>2. CASE k = n + 1
    <3>1. f[n + 1] = Ok(<<>>, 0)
      <4>1. n + 1 \in 1..(n + 1) /\ n + 1 > Len(results)
        BY <1>1
      <4>2. CollectStep(results, f, n + 1) = Ok(<<>>, 0)
        BY <4>1 DEF CollectStep
      <4> QED  BY <1>3, <4>1, <4>2
    <3> QED  BY <1>1, <2>2, <3>1, RestAtEnd
  <2>3. CASE k \in 1..n
    <3>1. k + 1 \in (k + 1)..(n + 1)
      BY <2>3
    <3>2. f[k + 1] = Ok(RestOf(vals, k + 1), 0)
      BY <1>4, <3>1
    <3>3. results[k] = Ok(vals[k], 0)
      BY <1>1, <2>3
    <3>4. f[k] = CollectStep(results, f, k)
      BY <1>3, <2>3
    <3>5. CollectStep(results, f, k) = Ok(<<vals[k]>> \o RestOf(vals, k + 1), 0)
      BY <1>1, <2>3, <3>2, <3>3 DEF CollectStep, Ok
    <3>6. <<vals[k]>> \o RestOf(vals, k + 1) = RestOf(vals, k)
      BY <1>1, <2>3, RestAtNext
    <3> QED  BY <3>4, <3>5, <3>6
  <2> QED  BY <2>1, <2>2, <2>3
<1> HIDE DEF Good
<1>5. 1 \in Good
  <2>1. n + 1 \in Nat /\ 1 \in 0..(n + 1)
    OBVIOUS
  <2> QED  BY <1>4, <2>1, DownInduction
<1>6. f[1] = Ok(RestOf(vals, 1), 0)
  BY <1>5 DEF Good
<1> QED  BY <1>2, <1>6, RestAtEnd DEF Collect

LEMMA CollectedType ==
  ASSUME NEW V, NEW n \in Nat, NEW results, Len(results) = n,
         \A i \in 1..n : results[i].status = "ok" => results[i].value \in V,
         Collect(results).status = "ok"
  PROVE  Collect(results).value \in Seq(V)
<1>1. PICK f : f = Collected(results)
  OBVIOUS
<1>2. \A i \in 1..(n + 1) : f[i] = CollectStep(results, f, i)
  BY <1>1, CollectedUnfolds
<1> DEFINE Good == {k \in 0..(n + 1) : k = 0 \/ (f[k].status = "ok" => f[k].value \in Seq(V))}
<1>3. ASSUME NEW k \in 0..(n + 1), \A j \in (k + 1)..(n + 1) : j \in Good PROVE k \in Good
  <2>1. CASE k = 0
    BY <2>1
  <2>2. CASE k = n + 1
    <3>1. f[n + 1] = Ok(<<>>, 0)
      <4>1. n + 1 \in 1..(n + 1) /\ n + 1 > Len(results)
        OBVIOUS
      <4>2. CollectStep(results, f, n + 1) = Ok(<<>>, 0)
        BY <4>1 DEF CollectStep
      <4> QED  BY <1>2, <4>1, <4>2
    <3>2. f[n + 1].value = <<>> /\ <<>> \in Seq(V)
      BY <3>1 DEF Ok
    <3> QED  BY <2>2, <3>2
  <2>3. CASE k \in 1..n
    <3> SUFFICES ASSUME f[k].status = "ok" PROVE f[k].value \in Seq(V)
      OBVIOUS
    <3>1. k + 1 \in (k + 1)..(n + 1)
      BY <2>3
    <3>2. f[k + 1].status = "ok" => f[k + 1].value \in Seq(V)
      BY <1>3, <3>1
    <3>3. f[k] = CollectStep(results, f, k)
      BY <1>2, <2>3
    <3>4. /\ results[k].status = "ok" /\ f[k + 1].status = "ok"
          /\ f[k].value = <<results[k].value>> \o f[k + 1].value
      BY <2>3, <3>3 DEF CollectStep, Ok
    <3>5. PICK v \in V : v = results[k].value
      BY <2>3, <3>4
    <3>6. PICK b \in Seq(V) : b = f[k + 1].value
      BY <3>2, <3>4
    <3>7. <<v>> \o b \in Seq(V)
      OBVIOUS
    <3> QED  BY <3>4, <3>5, <3>6, <3>7
  <2> QED  BY <2>1, <2>2, <2>3
<1> HIDE DEF Good
<1>4. 1 \in Good
  <2>1. n + 1 \in Nat /\ 1 \in 0..(n + 1)
    OBVIOUS
  <2> QED  BY <1>3, <2>1, DownInduction
<1>5. f[1].status = "ok" => f[1].value \in Seq(V)
  BY <1>4 DEF Good
<1> QED  BY <1>1, <1>5 DEF Collect
-----------------------------------------------------------------------------
(* The records that are read, and the values they are turned into.          *)
Options == {<<>>} \cup {<<w>> : w \in Text}
Hashes == {w \in Strings : Sha1List(w) = w}
FileInfos == [length : Unsigned(Width), md5sum : Options, path : Seq(Text)]
SingleInfos ==
  [kind : {"single"}, length : Unsigned(Width), md5sum : Options,
   name : Text, pieceLength : Unsigned(Width), pieces : Hashes]
MultiInfos ==
  [kind : {"multi"}, files : Seq(FileInfos),
   name : Text, pieceLength : Unsigned(Width), pieces : Hashes]
TierLists == {<<>>} \cup {<<tiers>> : tiers \in Seq(Seq(Text))}
MetaInfos ==
  [info : SingleInfos \cup MultiInfos, announce : Options, announceList : TierLists,
   comment : Options, createdBy : Options, encoding : Options]

LEMMA NamesDiffer ==
  /\ PieceLength \notin {"name", "pieces", "files", "length", "md5sum"}
  /\ CreatedBy \notin {"announce", "announce-list", "comment", "encoding", "info"}
BY Zenon DEF PieceLength, CreatedBy

(* f maps key to the one value of an option, and lacks it if there is none. *)
HasOption(f, key, values) ==
  /\ values = <<>> => key \notin DOMAIN f
  /\ values # <<>> => key \in DOMAIN f /\ f[key] = values[1]

LEMMA StringIsKept ==
  ASSUME NEW w \in Text PROVE StringFrom(StringValue(w)) = Ok(w, 0)
BY DEF StringFrom, StringValue, Ok

LEMMA StringsAreKept ==
  ASSUME NEW p \in Seq(Text) PROVE StringsFrom(StringsValue(p)) = Ok(p, 0)
<1>1. PICK n \in Nat : n = Len(p) /\ DOMAIN p = 1..n
  OBVIOUS
<1>2. PICK results : results = [i \in 1..n |-> StringFrom(StringValue(p[i]))]
  OBVIOUS
<1>3. \A i \in 1..n : results[i] = Ok(p[i], 0)
  <2>1. \A i \in 1..n : p[i] \in Text
    BY <1>1
  <2> QED  BY <1>2, <2>1, StringIsKept
<1>4. Len(results) = n
  <2>1. results = [i \in 1..n |-> results[i]]
    BY <1>2
  <2> QED  BY <2>1, FunctionIsSeq
<1>5. Collect(results) = Ok(p, 0)
  BY <1>1, <1>3, <1>4, AllCollected
<1>6. StringsValue(p) = <<"List", [i \in 1..n |-> StringValue(p[i])]>>
  BY <1>1 DEF StringsValue, ListValue, StringValues
<1>7. StringsFrom(StringsValue(p)) = Collect(results)
  <2> DEFINE f == [i \in 1..n |-> StringValue(p[i])]
  <2>1. DOMAIN f = 1..n /\ \A i \in 1..n : f[i] = StringValue(p[i])
    OBVIOUS
  <2> HIDE DEF f
  <2>2. StringsFrom(<<"List", f>>) = Collect([i \in DOMAIN f |-> StringFrom(f[i])])
    BY DEF StringsFrom, ListFrom
  <2>3. [i \in DOMAIN f |-> StringFrom(f[i])] = results
    BY <1>2, <2>1
  <2> QED  BY <1>6, <2>2, <2>3 DEF f
<1> QED  BY <1>5, <1>7

(* Fields and options of a dict.                                            *)
LEMMA StringField ==
  ASSUME NEW f, NEW key, key \in DOMAIN f, NEW w \in Text, f[key] = StringValue(w)
  PROVE  GetField(<<"Dict", f>>, key, StringFrom) = Ok(w, 0)
BY StringIsKept DEF GetField, GetValue, Then, Ok

LEMMA NumberField ==
  ASSUME NEW f, NEW key, key \in DOMAIN f, NEW n \in Unsigned(Width), f[key] = IntegerValue(n)
  PROVE  GetField(<<"Dict", f>>, key, U64From) = Ok(n, 0)
BY NumberIsKept DEF GetField, GetValue, Then, Ok, U64From

LEMMA StringsField ==
  ASSUME NEW f, NEW key, key \in DOMAIN f, NEW p \in Seq(Text), f[key] = StringsValue(p)
  PROVE  GetField(<<"Dict", f>>, key, StringsFrom) = Ok(p, 0)
BY StringsAreKept DEF GetField, GetValue, Then, Ok

LEMMA HashesField ==
  ASSUME NEW f, NEW key, key \in DOMAIN f, NEW w \in Hashes, f[key] = HashesValue(w)
  PROVE  GetField(<<"Dict", f>>, key, HashesFrom) = Ok(w, 0)
BY DEF GetField, GetValue, Then, Ok, HashesFrom, HashesValue, Hashes

LEMMA StringOption ==
  ASSUME NEW f, NEW key, NEW o \in Options, HasOption(f, key, StringValues(o))
  PROVE  GetOptionField(<<"Dict", f>>, key, StringFrom) = Ok(o, 0)
<1>1. CASE o = <<>>
  <2>1. StringValues(o) = <<>>
    BY <1>1 DEF StringValues
  <2> QED  BY <1>1, <2>1 DEF HasOption, GetOptionField, GetOptionValue, Then, Ok
<1>2. ASSUME NEW w \in Text, o = <<w>> PROVE GetOptionField(<<"Dict", f>>, key, StringFrom) = Ok(o, 0)
  <2>1. StringValues(o) # <<>> /\ StringValues(o)[1] = StringValue(w)
    BY <1>2 DEF StringValues
  <2>2. key \in DOMAIN f /\ f[key] = StringValue(w)
    BY <2>1 DEF HasOption
  <2>3. StringFrom(f[key]) = Ok(w, 0)
    BY <2>2, StringIsKept
  <2>4. GetOptionValue(<<"Dict", f>>, key) = Ok(<<f[key]>>, 0)
    BY <2>2 DEF GetOptionValue
  <2>5. <<f[key]>> # <<>> /\ <<f[key]>>[1] = f[key]
    OBVIOUS
  <2> QED  BY <1>2, <2>3, <2>4, <2>5 DEF GetOptionField, Then, Ok
<1> QED  BY <1>1, <1>2 DEF Options

(* Entries and what is joined to them.                                      *)
LEMMA EntryIs ==
  ASSUME NEW key, NEW v
  PROVE  DOMAIN Entry(key, v) = {key} /\ Entry(key, v)[key] = v
BY DEF Entry

(* What a map has after a join with an entry, and what it keeps.            *)
LEMMA JoinOption ==
  ASSUME NEW f, NEW key, key \notin DOMAIN f, NEW values,
         NEW g, g = f ++ OptionEntry(key, values)
  PROVE  /\ HasOption(g, key, values)
         /\ DOMAIN g \subseteq DOMAIN f \cup {key}
         /\ \A k \in DOMAIN f : k \in DOMAIN g /\ g[k] = f[k]
<1>1. PICK e : e = OptionEntry(key, values) /\ g = f ++ e
  OBVIOUS
<1>2. /\ DOMAIN g = DOMAIN f \cup DOMAIN e
      /\ \A k \in DOMAIN f : g[k] = f[k]
      /\ \A k \in DOMAIN e : k \notin DOMAIN f => g[k] = e[k]
  <2>1. g = f ++ e
    BY <1>1
  <2> QED  BY <2>1 DEF ++
<1>3. /\ values = <<>> => DOMAIN e = {}
      /\ values # <<>> => DOMAIN e = {key} /\ e[key] = values[1]
  BY <1>1 DEF OptionEntry, Entry, NoEntry
<1>4. HasOption(g, key, values)
  BY <1>2, <1>3 DEF HasOption
<1>5. DOMAIN g \subseteq DOMAIN f \cup {key} /\ \A k \in DOMAIN f : k \in DOMAIN g /\ g[k] = f[k]
  BY <1>2, <1>3
<1> QED  BY <1>4, <1>5

WithEntry(f, key, v, g) ==
  /\ DOMAIN g = DOMAIN f \cup {key} /\ g[key] = v
  /\ \A k \in DOMAIN f : g[k] = f[k]

LEMMA JoinEntry ==
  ASSUME NEW f, NEW key, key \notin DOMAIN f, NEW v, NEW g, g = f ++ Entry(key, v)
  PROVE  WithEntry(f, key, v, g)
<1>1. PICK e : e = Entry(key, v) /\ g = f ++ e
  OBVIOUS
<1>2. /\ DOMAIN g = DOMAIN f \cup DOMAIN e
      /\ \A k \in DOMAIN f : g[k] = f[k]
      /\ \A k \in DOMAIN e : k \notin DOMAIN f => g[k] = e[k]
  <2>1. g = f ++ e
    BY <1>1
  <2> QED  BY <2>1 DEF ++
<1>3. DOMAIN e = {key} /\ e[key] = v
  BY <1>1, EntryIs
<1> QED  BY <1>2, <1>3 DEF WithEntry

(* The maps of the records.                                                 *)
LEMMA FileInfoMap ==
  ASSUME NEW r \in FileInfos
  PROVE  \E f : /\ FileInfoValue(r) = <<"Dict", f>>
                /\ DOMAIN f \subseteq {"length", "md5sum", "path"}
                /\ "length" \in DOMAIN f /\ f["length"] = IntegerValue(r.length)
                /\ HasOption(f, "md5sum", StringValues(r.md5sum))
                /\ "path" \in DOMAIN f /\ f["path"] = StringsValue(r.path)
<1> DEFINE a == Entry("length", IntegerValue(r.length))
           b == a ++ OptionEntry("md5sum", StringValues(r.md5sum))
           c == b ++ Entry("path", StringsValue(r.path))
<1>1. DOMAIN a = {"length"} /\ a["length"] = IntegerValue(r.length)
  BY EntryIs
<1>2. FileInfoValue(r) = <<"Dict", c>>
  BY DEF FileInfoValue
<1>3. /\ HasOption(b, "md5sum", StringValues(r.md5sum))
      /\ DOMAIN b \subseteq DOMAIN a \cup {"md5sum"}
      /\ \A k \in DOMAIN a : k \in DOMAIN b /\ b[k] = a[k]
  <2>1. "md5sum" \notin DOMAIN a
    BY <1>1
  <2>2. b = a ++ OptionEntry("md5sum", StringValues(r.md5sum))
    OBVIOUS
  <2> HIDE DEF a, b
  <2> QED  BY <2>1, <2>2, JoinOption
<1>4. /\ DOMAIN c = DOMAIN b \cup {"path"} /\ c["path"] = StringsValue(r.path)
      /\ \A k \in DOMAIN b : c[k] = b[k]
  <2>1. "path" \notin DOMAIN b
    BY <1>1, <1>3
  <2>2. c = b ++ Entry("path", StringsValue(r.path))
    OBVIOUS
  <2> HIDE DEF b, c
  <2>3. WithEntry(b, "path", StringsValue(r.path), c)
    BY <2>1, <2>2, JoinEntry
  <2> QED  BY <2>3 DEF WithEntry
<1> HIDE DEF a, b, c
<1>5. HasOption(c, "md5sum", StringValues(r.md5sum))
  BY <1>3, <1>4 DEF HasOption
<1>6. DOMAIN c \subseteq {"length", "md5sum", "path"} /\ "length" \in DOMAIN c /\ c["length"] = IntegerValue(r.length)
        /\ "path" \in DOMAIN c
  BY <1>1, <1>3, <1>4
<1> QED  BY <1>2, <1>4, <1>5, <1>6

LEMMA FileInfoIsKept ==
  ASSUME NEW r \in FileInfos PROVE FileInfoFrom(FileInfoValue(r)) = Ok(r, 0)
<1>1. PICK f : /\ FileInfoValue(r) = <<"Dict", f>>
               /\ "length" \in DOMAIN f /\ f["length"] = IntegerValue(r.length)
               /\ HasOption(f, "md5sum", StringValues(r.md5sum))
               /\ "path" \in DOMAIN f /\ f["path"] = StringsValue(r.path)
  BY FileInfoMap
<1>2. /\ r.length \in Unsigned(Width) /\ r.md5sum \in Options /\ r.path \in Seq(Text)
      /\ r = FileInfo(r.length, r.md5sum, r.path)
  BY DEF FileInfos, FileInfo
<1>3. GetField(<<"Dict", f>>, "length", U64From) = Ok(r.length, 0)
  BY <1>1, <1>2, NumberField
<1>4. GetOptionField(<<"Dict", f>>, "md5sum", StringFrom) = Ok(r.md5sum, 0)
  BY <1>1, <1>2, StringOption
<1>5. GetField(<<"Dict", f>>, "path", StringsFrom) = Ok(r.path, 0)
  BY <1>1, <1>2, StringsField
<1>6. FileInfoFrom(<<"Dict", f>>) = Ok(FileInfo(r.length, r.md5sum, r.path), 0)
  BY <1>3, <1>4, <1>5 DEF FileInfoFrom, Then, Ok
<1> QED  BY <1>1, <1>2, <1>6

(* name, piece length and pieces, which both kinds of info have.            *)
HasNamed(f, info) ==
  /\ {"name", PieceLength, "pieces"} \subseteq DOMAIN f
  /\ f["name"] = StringValue(info.name)
  /\ f[PieceLength] = IntegerValue(info.pieceLength)
  /\ f["pieces"] = HashesValue(info.pieces)

LEMMA NamedIsRead ==
  ASSUME NEW f, NEW w \in Text, NEW n \in Unsigned(Width), NEW h \in Hashes,
         {"name", PieceLength, "pieces"} \subseteq DOMAIN f,
         f["name"] = StringValue(w), f[PieceLength] = IntegerValue(n), f["pieces"] = HashesValue(h)
  PROVE  NamedFrom(<<"Dict", f>>) = Ok(Named(w, n, h), 0)
<1>1. StringFrom(f["name"]) = Ok(w, 0)
  BY StringIsKept
<1>2. U64From(f[PieceLength]) = Ok(n, 0)
  BY NumberIsKept DEF U64From
<1>3. HashesFrom(f["pieces"]) = Ok(h, 0)
  BY DEF HashesFrom, HashesValue, Hashes
<1>4. /\ GetValue(<<"Dict", f>>, "name") = Ok(f["name"], 0)
      /\ GetValue(<<"Dict", f>>, PieceLength) = Ok(f[PieceLength], 0)
      /\ GetValue(<<"Dict", f>>, "pieces") = Ok(f["pieces"], 0)
  BY DEF GetValue
<1>5. \A x : Ok(x, 0).status = "ok" /\ Ok(x, 0).value = x
  BY DEF Ok
<1> QED  BY <1>1, <1>2, <1>3, <1>4, <1>5 DEF NamedFrom, GetField, Then

LEMMA NamedIsKept ==
  ASSUME NEW f, NEW info \in SingleInfos \cup MultiInfos, HasNamed(f, info)
  PROVE  NamedFrom(<<"Dict", f>>) = Ok(Named(info.name, info.pieceLength, info.pieces), 0)
<1>1. info.name \in Text /\ info.pieceLength \in Unsigned(Width) /\ info.pieces \in Hashes
  BY DEF SingleInfos, MultiInfos
<1> QED  BY <1>1, NamedIsRead DEF HasNamed

LEMMA NamedMap ==
  ASSUME NEW info
  PROVE  LET f == Entry("name", StringValue(info.name))
                    ++ Entry(PieceLength, IntegerValue(info.pieceLength))
                    ++ Entry("pieces", HashesValue(info.pieces))
         IN  DOMAIN f = {"name", PieceLength, "pieces"} /\ HasNamed(f, info)
<1> DEFINE a == Entry("name", StringValue(info.name))
           b == a ++ Entry(PieceLength, IntegerValue(info.pieceLength))
           c == b ++ Entry("pieces", HashesValue(info.pieces))
<1>1. DOMAIN a = {"name"} /\ a["name"] = StringValue(info.name)
  BY EntryIs
<1>2. /\ DOMAIN b = DOMAIN a \cup {PieceLength} /\ b[PieceLength] = IntegerValue(info.pieceLength)
      /\ \A k \in DOMAIN a : b[k] = a[k]
  <2>1. PieceLength \notin DOMAIN a
    BY <1>1, NamesDiffer
  <2>2. b = a ++ Entry(PieceLength, IntegerValue(info.pieceLength))
    OBVIOUS
  <2> HIDE DEF a, b
  <2>3. WithEntry(a, PieceLength, IntegerValue(info.pieceLength), b)
    BY <2>1, <2>2, JoinEntry
  <2> QED  BY <2>3 DEF WithEntry
<1>3. /\ DOMAIN c = DOMAIN b \cup {"pieces"} /\ c["pieces"] = HashesValue(info.pieces)
      /\ \A k \in DOMAIN b : c[k] = b[k]
  <2>1. "pieces" \notin DOMAIN b
    BY <1>1, <1>2, NamesDiffer
  <2>2. c = b ++ Entry("pieces", HashesValue(info.pieces))
    OBVIOUS
  <2> HIDE DEF b, c
  <2>3. WithEntry(b, "pieces", HashesValue(info.pieces), c)
    BY <2>1, <2>2, JoinEntry
  <2> QED  BY <2>3 DEF WithEntry
<1> HIDE DEF a, b, c
<1>4. DOMAIN c = {"name", PieceLength, "pieces"} /\ HasNamed(c, info)
  BY <1>1, <1>2, <1>3 DEF HasNamed
<1> QED  BY <1>4 DEF a, b, c

LEMMA SingleMap ==
  ASSUME NEW info \in SingleInfos
  PROVE  \E f : /\ InfoValue(info) = <<"Dict", f>> /\ HasNamed(f, info)
                /\ DOMAIN f \subseteq {"name", PieceLength, "pieces", "length", "md5sum"}
                /\ "length" \in DOMAIN f /\ f["length"] = IntegerValue(info.length)
                /\ HasOption(f, "md5sum", StringValues(info.md5sum))
<1> DEFINE a == Entry("name", StringValue(info.name))
                  ++ Entry(PieceLength, IntegerValue(info.pieceLength))
                  ++ Entry("pieces", HashesValue(info.pieces))
           b == Entry("length", IntegerValue(info.length))
           c == b ++ OptionEntry("md5sum", StringValues(info.md5sum))
           f == a ++ c
<1>1. info.kind = "single"
  BY DEF SingleInfos
<1>2. InfoValue(info) = <<"Dict", f>>
  BY <1>1 DEF InfoValue
<1>3. DOMAIN a = {"name", PieceLength, "pieces"} /\ HasNamed(a, info)
  BY NamedMap
<1>4. DOMAIN b = {"length"} /\ b["length"] = IntegerValue(info.length)
  BY EntryIs
<1>5. /\ HasOption(c, "md5sum", StringValues(info.md5sum))
      /\ DOMAIN c \subseteq DOMAIN b \cup {"md5sum"}
      /\ \A k \in DOMAIN b : k \in DOMAIN c /\ c[k] = b[k]
  <2>1. "md5sum" \notin DOMAIN b
    BY <1>4
  <2>2. c = b ++ OptionEntry("md5sum", StringValues(info.md5sum))
    OBVIOUS
  <2> HIDE DEF b, c
  <2> QED  BY <2>1, <2>2, JoinOption
<1>6. /\ DOMAIN f = DOMAIN a \cup DOMAIN c
      /\ \A k \in DOMAIN a : f[k] = a[k]
      /\ \A k \in DOMAIN c : k \notin DOMAIN a => f[k] = c[k]
  BY Joins
<1> HIDE DEF a, b, c, f
<1>7. HasNamed(f, info)
  BY <1>3, <1>6 DEF HasNamed
<1>8. /\ DOMAIN f \subseteq {"name", PieceLength, "pieces", "length", "md5sum"}
      /\ "length" \in DOMAIN f /\ f["length"] = IntegerValue(info.length)
  BY <1>3, <1>4, <1>5, <1>6, NamesDiffer
<1>9. HasOption(f, "md5sum", StringValues(info.md5sum))
  BY <1>3, <1>5, <1>6, NamesDiffer DEF HasOption
<1> QED  BY <1>2, <1>7, <1>8, <1>9

FilesValue(files) == ListValue([i \in DOMAIN files |-> FileInfoValue(files[i])])

LEMMA MultiMap ==
  ASSUME NEW info \in MultiInfos
  PROVE  \E f : /\ InfoValue(info) = <<"Dict", f>> /\ HasNamed(f, info)
                /\ DOMAIN f \subseteq {"name", PieceLength, "pieces", "files"}
                /\ "files" \in DOMAIN f /\ f["files"] = FilesValue(info.files)
<1> DEFINE a == Entry("name", StringValue(info.name))
                  ++ Entry(PieceLength, IntegerValue(info.pieceLength))
                  ++ Entry("pieces", HashesValue(info.pieces))
           f == a ++ Entry("files", FilesValue(info.files))
<1>1. info.kind = "multi"
  BY DEF MultiInfos
<1>2. InfoValue(info) = <<"Dict", f>>
  BY <1>1 DEF InfoValue, FilesValue
<1>3. DOMAIN a = {"name", PieceLength, "pieces"} /\ HasNamed(a, info)
  BY NamedMap
<1>4. /\ DOMAIN f = DOMAIN a \cup {"files"} /\ f["files"] = FilesValue(info.files)
      /\ \A k \in DOMAIN a : f[k] = a[k]
  <2>1. "files" \notin DOMAIN a
    BY <1>3, NamesDiffer
  <2>2. f = a ++ Entry("files", FilesValue(info.files))
    OBVIOUS
  <2> HIDE DEF a, f
  <2>3. WithEntry(a, "files", FilesValue(info.files), f)
    BY <2>1, <2>2, JoinEntry
  <2> QED  BY <2>3 DEF WithEntry
<1> HIDE DEF a, f
<1>5. HasNamed(f, info)
  BY <1>3, <1>4 DEF HasNamed
<1> QED  BY <1>2, <1>3, <1>4, <1>5

LEMMA FilesAreKept ==
  ASSUME NEW files \in Seq(FileInfos)
  PROVE  ListFrom(FilesValue(files), FileInfoFrom) = Ok(files, 0)
<1>1. PICK n \in Nat : n = Len(files) /\ DOMAIN files = 1..n
  OBVIOUS
<1>2. PICK results : results = [i \in 1..n |-> FileInfoFrom(FileInfoValue(files[i]))]
  OBVIOUS
<1>3. \A i \in 1..n : results[i] = Ok(files[i], 0)
  <2>1. \A i \in 1..n : files[i] \in FileInfos
    BY <1>1
  <2> QED  BY <1>2, <2>1, FileInfoIsKept
<1>4. Len(results) = n
  <2>1. results = [i \in 1..n |-> results[i]]
    BY <1>2
  <2> QED  BY <2>1, FunctionIsSeq
<1>5. Collect(results) = Ok(files, 0)
  BY <1>1, <1>3, <1>4, AllCollected
<1>6. FilesValue(files) = <<"List", [i \in 1..n |-> FileInfoValue(files[i])]>>
  BY <1>1 DEF FilesValue, ListValue
<1>7. ListFrom(FilesValue(files), FileInfoFrom) = Collect(results)
  <2> DEFINE f == [i \in 1..n |-> FileInfoValue(files[i])]
  <2>1. DOMAIN f = 1..n /\ \A i \in 1..n : f[i] = FileInfoValue(files[i])
    OBVIOUS
  <2> HIDE DEF f
  <2>2. ListFrom(<<"List", f>>, FileInfoFrom) = Collect([i \in DOMAIN f |-> FileInfoFrom(f[i])])
    BY DEF ListFrom
  <2>3. [i \in DOMAIN f |-> FileInfoFrom(f[i])] = results
    BY <1>2, <2>1
  <2> QED  BY <1>6, <2>2, <2>3 DEF f
<1> QED  BY <1>5, <1>7

LEMMA TiersAreKept ==
  ASSUME NEW tiers \in Seq(Seq(Text))
  PROVE  ListFrom(ListValue(TierValues(tiers)), StringsFrom) = Ok(tiers, 0)
<1>1. PICK n \in Nat : n = Len(tiers) /\ DOMAIN tiers = 1..n
  OBVIOUS
<1>2. PICK results : results = [i \in 1..n |-> StringsFrom(StringsValue(tiers[i]))]
  OBVIOUS
<1>3. \A i \in 1..n : results[i] = Ok(tiers[i], 0)
  <2>1. \A i \in 1..n : tiers[i] \in Seq(Text)
    BY <1>1
  <2> QED  BY <1>2, <2>1, StringsAreKept
<1>4. Len(results) = n
  <2>1. results = [i \in 1..n |-> results[i]]
    BY <1>2
  <2> QED  BY <2>1, FunctionIsSeq
<1>5. Collect(results) = Ok(tiers, 0)
  BY <1>1, <1>3, <1>4, AllCollected
<1>6. ListValue(TierValues(tiers)) = <<"List", [i \in 1..n |-> StringsValue(tiers[i])]>>
  BY <1>1 DEF TierValues, ListValue
<1>7. ListFrom(ListValue(TierValues(tiers)), StringsFrom) = Collect(results)
  <2> DEFINE f == [i \in 1..n |-> StringsValue(tiers[i])]
  <2>1. DOMAIN f = 1..n /\ \A i \in 1..n : f[i] = StringsValue(tiers[i])
    OBVIOUS
  <2> HIDE DEF f
  <2>2. ListFrom(<<"List", f>>, StringsFrom) = Collect([i \in DOMAIN f |-> StringsFrom(f[i])])
    BY DEF ListFrom
  <2>3. [i \in DOMAIN f |-> StringsFrom(f[i])] = results
    BY <1>2, <2>1
  <2> QED  BY <1>6, <2>2, <2>3 DEF f
<1> QED  BY <1>5, <1>7

LEMMA InfoIsKept ==
  ASSUME NEW info \in SingleInfos \cup MultiInfos
  PROVE  InfoFrom(InfoValue(info)) = Ok(info, 0)
<1>1. CASE info \in SingleInfos
  <2>1. PICK f : /\ InfoValue(info) = <<"Dict", f>> /\ HasNamed(f, info)
                 /\ DOMAIN f \subseteq {"name", PieceLength, "pieces", "length", "md5sum"}
                 /\ "length" \in DOMAIN f /\ f["length"] = IntegerValue(info.length)
                 /\ HasOption(f, "md5sum", StringValues(info.md5sum))
    BY <1>1, SingleMap
  <2>2. "files" \notin DOMAIN f
    BY <2>1, NamesDiffer
  <2>3. /\ info.length \in Unsigned(Width) /\ info.md5sum \in Options
        /\ info = SingleInfo(info.length, info.md5sum, Named(info.name, info.pieceLength, info.pieces))
    BY <1>1 DEF SingleInfos, SingleInfo, Named
  <2>4. GetField(<<"Dict", f>>, "length", U64From) = Ok(info.length, 0)
    BY <2>1, <2>3, NumberField
  <2>5. GetOptionField(<<"Dict", f>>, "md5sum", StringFrom) = Ok(info.md5sum, 0)
    BY <2>1, <2>3, StringOption
  <2>6. NamedFrom(<<"Dict", f>>) = Ok(Named(info.name, info.pieceLength, info.pieces), 0)
    BY <2>1, NamedIsKept
  <2>7. \A x : Ok(x, 0).status = "ok" /\ Ok(x, 0).value = x
    BY DEF Ok
  <2>8. InfoFrom(<<"Dict", f>>) =
          Ok(SingleInfo(info.length, info.md5sum, Named(info.name, info.pieceLength, info.pieces)), 0)
    BY <2>2, <2>4, <2>5, <2>6, <2>7 DEF InfoFrom, Then
  <2> QED  BY <2>1, <2>3, <2>8
<1>2. CASE info \in MultiInfos
  <2>1. PICK f : /\ InfoValue(info) = <<"Dict", f>> /\ HasNamed(f, info)
                 /\ "files" \in DOMAIN f /\ f["files"] = FilesValue(info.files)
    BY <1>2, MultiMap
  <2>2. /\ info.files \in Seq(FileInfos)
        /\ info = MultiInfo(info.files, Named(info.name, info.pieceLength, info.pieces))
    BY <1>2 DEF MultiInfos, MultiInfo, Named
  <2>3. ListFrom(f["files"], FileInfoFrom) = Ok(info.files, 0)
    BY <2>1, <2>2, FilesAreKept
  <2>4. NamedFrom(<<"Dict", f>>) = Ok(Named(info.name, info.pieceLength, info.pieces), 0)
    BY <2>1, NamedIsKept
  <2>5. \A x : Ok(x, 0).status = "ok" /\ Ok(x, 0).value = x
    BY DEF Ok
  <2>6. GetValue(<<"Dict", f>>, "files") = Ok(f["files"], 0)
    BY <2>1 DEF GetValue
  <2>7. InfoFrom(<<"Dict", f>>) =
          Ok(MultiInfo(info.files, Named(info.name, info.pieceLength, info.pieces)), 0)
    BY <2>1, <2>3, <2>4, <2>5, <2>6 DEF InfoFrom, Then, GetField
  <2> QED  BY <2>1, <2>2, <2>7
<1> QED  BY <1>1, <1>2

LEMMA TiersOption ==
  ASSUME NEW f, NEW o \in TierLists,
         HasOption(f, "announce-list", [i \in DOMAIN o |-> ListValue(TierValues(o[i]))])
  PROVE  GetOptionField(<<"Dict", f>>, "announce-list", LAMBDA l : ListFrom(l, StringsFrom)) = Ok(o, 0)
<1> DEFINE values == [i \in DOMAIN o |-> ListValue(TierValues(o[i]))]
<1>1. CASE o = <<>>
  <2>1. values = <<>>
    BY <1>1
  <2>2. "announce-list" \notin DOMAIN f
    BY <2>1 DEF HasOption
  <2> QED  BY <1>1, <2>2 DEF GetOptionField, GetOptionValue, Then, Ok
<1>2. ASSUME NEW tiers \in Seq(Seq(Text)), o = <<tiers>>
      PROVE GetOptionField(<<"Dict", f>>, "announce-list", LAMBDA l : ListFrom(l, StringsFrom)) = Ok(o, 0)
  <2>1. values # <<>> /\ values[1] = ListValue(TierValues(tiers))
    BY <1>2
  <2>2. "announce-list" \in DOMAIN f /\ f["announce-list"] = ListValue(TierValues(tiers))
    BY <2>1 DEF HasOption
  <2>3. ListFrom(f["announce-list"], StringsFrom) = Ok(tiers, 0)
    BY <2>2, TiersAreKept
  <2>4. GetOptionValue(<<"Dict", f>>, "announce-list") = Ok(<<f["announce-list"]>>, 0)
    BY <2>2 DEF GetOptionValue
  <2>5. <<f["announce-list"]>> # <<>> /\ <<f["announce-list"]>>[1] = f["announce-list"]
    OBVIOUS
  <2> QED  BY <1>2, <2>3, <2>4, <2>5 DEF GetOptionField, Then, Ok
<1> QED  BY <1>1, <1>2 DEF TierLists

TiersValues(o) == [i \in DOMAIN o |-> ListValue(TierValues(o[i]))]

LEMMA MetaInfoMap ==
  ASSUME NEW m
  PROVE  \E f : /\ MetaInfoValue(m) = <<"Dict", f>>
                /\ DOMAIN f \subseteq {"announce", "announce-list", "comment", CreatedBy, "encoding", "info"}
                /\ HasOption(f, "announce", StringValues(m.announce))
                /\ HasOption(f, "announce-list", TiersValues(m.announceList))
                /\ HasOption(f, "comment", StringValues(m.comment))
                /\ HasOption(f, CreatedBy, StringValues(m.createdBy))
                /\ HasOption(f, "encoding", StringValues(m.encoding))
                /\ "info" \in DOMAIN f /\ f["info"] = InfoValue(m.info)
<1> DEFINE a == OptionEntry("announce", StringValues(m.announce))
           b == a ++ OptionEntry("announce-list", TiersValues(m.announceList))
           c == b ++ OptionEntry("comment", StringValues(m.comment))
           d == c ++ OptionEntry(CreatedBy, StringValues(m.createdBy))
           e == d ++ OptionEntry("encoding", StringValues(m.encoding))
           f == e ++ Entry("info", InfoValue(m.info))
<1>1. MetaInfoValue(m) = <<"Dict", f>>
  BY DEF MetaInfoValue, TiersValues
<1>2. HasOption(a, "announce", StringValues(m.announce)) /\ DOMAIN a \subseteq {"announce"}
  BY DEF HasOption, OptionEntry, Entry, NoEntry
<1>3. /\ HasOption(b, "announce-list", TiersValues(m.announceList))
      /\ DOMAIN b \subseteq DOMAIN a \cup {"announce-list"}
      /\ \A k \in DOMAIN a : k \in DOMAIN b /\ b[k] = a[k]
  <2>1. "announce-list" \notin DOMAIN a
    BY <1>2
  <2>2. b = a ++ OptionEntry("announce-list", TiersValues(m.announceList))
    OBVIOUS
  <2> HIDE DEF a, b
  <2> QED  BY <2>1, <2>2, JoinOption
<1>4. /\ HasOption(c, "comment", StringValues(m.comment))
      /\ DOMAIN c \subseteq DOMAIN b \cup {"comment"}
      /\ \A k \in DOMAIN b : k \in DOMAIN c /\ c[k] = b[k]
  <2>1. "comment" \notin DOMAIN b
    BY <1>2, <1>3
  <2>2. c = b ++ OptionEntry("comment", StringValues(m.comment))
    OBVIOUS
  <2> HIDE DEF b, c
  <2> QED  BY <2>1, <2>2, JoinOption
<1>5. /\ HasOption(d, CreatedBy, StringValues(m.createdBy))
      /\ DOMAIN d \subseteq DOMAIN c \cup {CreatedBy}
      /\ \A k \in DOMAIN c : k \in DOMAIN d /\ d[k] = c[k]
  <2>1. CreatedBy \notin DOMAIN c
    BY <1>2, <1>3, <1>4, NamesDiffer
  <2>2. d = c ++ OptionEntry(CreatedBy, StringValues(m.createdBy))
    OBVIOUS
  <2> HIDE DEF c, d
  <2> QED  BY <2>1, <2>2, JoinOption
<1>6. /\ HasOption(e, "encoding", StringValues(m.encoding))
      /\ DOMAIN e \subseteq DOMAIN d \cup {"encoding"}
      /\ \A k \in DOMAIN d : k \in DOMAIN e /\ e[k] = d[k]
  <2>1. "encoding" \notin DOMAIN d
    BY <1>2, <1>3, <1>4, <1>5, NamesDiffer
  <2>2. e = d ++ OptionEntry("encoding", StringValues(m.encoding))
    OBVIOUS
  <2> HIDE DEF d, e
  <2> QED  BY <2>1, <2>2, JoinOption
<1>7. WithEntry(e, "info", InfoValue(m.info), f)
  <2>1. "info" \notin DOMAIN e
    BY <1>2, <1>3, <1>4, <1>5, <1>6, NamesDiffer
  <2>2. f = e ++ Entry("info", InfoValue(m.info))
    OBVIOUS
  <2> HIDE DEF e, f
  <2> QED  BY <2>1, <2>2, JoinEntry
<1> HIDE DEF a, b, c, d, e, f
<1>8. DOMAIN f = DOMAIN e \cup {"info"} /\ f["info"] = InfoValue(m.info) /\ \A k \in DOMAIN e : f[k] = e[k]
  BY <1>7 DEF WithEntry
<1>9. DOMAIN f \subseteq {"announce", "announce-list", "comment", CreatedBy, "encoding", "info"}
  BY <1>2, <1>3, <1>4, <1>5, <1>6, <1>8
<1>10. ASSUME NEW k, k # "info", NEW values, HasOption(e, k, values) PROVE HasOption(f, k, values)
  BY <1>8, <1>10 DEF HasOption
<1>11. ASSUME NEW k, k # "encoding", NEW values, HasOption(d, k, values) PROVE HasOption(e, k, values)
  BY <1>6, <1>11 DEF HasOption
<1>12. ASSUME NEW k, k # CreatedBy, NEW values, HasOption(c, k, values) PROVE HasOption(d, k, values)
  BY <1>5, <1>12 DEF HasOption
<1>13. ASSUME NEW k, k # "comment", NEW values, HasOption(b, k, values) PROVE HasOption(c, k, values)
  BY <1>4, <1>13 DEF HasOption
<1>14. ASSUME NEW k, k # "announce-list", NEW values, HasOption(a, k, values) PROVE HasOption(b, k, values)
  BY <1>3, <1>14 DEF HasOption
<1>15. HasOption(f, "encoding", StringValues(m.encoding))
  BY <1>6, <1>10
<1>16. HasOption(f, CreatedBy, StringValues(m.createdBy))
  BY <1>5, <1>10, <1>11, NamesDiffer
<1>17. HasOption(f, "comment", StringValues(m.comment))
  BY <1>4, <1>10, <1>11, <1>12, NamesDiffer
<1>18. HasOption(f, "announce-list", TiersValues(m.announceList))
  BY <1>3, <1>10, <1>11, <1>12, <1>13, NamesDiffer
<1>19. HasOption(f, "announce", StringValues(m.announce))
  BY <1>2, <1>10, <1>11, <1>12, <1>13, <1>14, NamesDiffer
<1> QED  BY <1>1, <1>8, <1>9, <1>15, <1>16, <1>17, <1>18, <1>19

(* into_value and FromValue, for every record that FromValue can return.    *)
THEOREM ValueIsReadBack ==
  ASSUME NEW m \in MetaInfos PROVE MetaInfoFrom(MetaInfoValue(m)) = Ok(m, 0)
<1>1. PICK f : /\ MetaInfoValue(m) = <<"Dict", f>>
               /\ HasOption(f, "announce", StringValues(m.announce))
               /\ HasOption(f, "announce-list", TiersValues(m.announceList))
               /\ HasOption(f, "comment", StringValues(m.comment))
               /\ HasOption(f, CreatedBy, StringValues(m.createdBy))
               /\ HasOption(f, "encoding", StringValues(m.encoding))
               /\ "info" \in DOMAIN f /\ f["info"] = InfoValue(m.info)
  BY MetaInfoMap
<1>2. /\ m.info \in SingleInfos \cup MultiInfos
      /\ m.announce \in Options /\ m.announceList \in TierLists /\ m.comment \in Options
      /\ m.createdBy \in Options /\ m.encoding \in Options
      /\ m = TorrentMetaInfo(m.info, m.announce, m.announceList, m.comment, m.createdBy, m.encoding)
  BY DEF MetaInfos, TorrentMetaInfo
<1>3. GetOptionField(<<"Dict", f>>, "announce", StringFrom) = Ok(m.announce, 0)
  BY <1>1, <1>2, StringOption
<1>4. GetOptionField(<<"Dict", f>>, "announce-list", LAMBDA l : ListFrom(l, StringsFrom)) = Ok(m.announceList, 0)
  BY <1>1, <1>2, TiersOption DEF TiersValues
<1>5. GetOptionField(<<"Dict", f>>, "comment", StringFrom) = Ok(m.comment, 0)
  BY <1>1, <1>2, StringOption
<1>6. GetOptionField(<<"Dict", f>>, CreatedBy, StringFrom) = Ok(m.createdBy, 0)
  BY <1>1, <1>2, StringOption
<1>7. GetOptionField(<<"Dict", f>>, "encoding", StringFrom) = Ok(m.encoding, 0)
  BY <1>1, <1>2, StringOption
<1>8. GetValue(<<"Dict", f>>, "info") = Ok(f["info"], 0) /\ InfoFrom(f["info"]) = Ok(m.info, 0)
  BY <1>1, <1>2, InfoIsKept DEF GetValue
<1>9. \A x : Ok(x, 0).status = "ok" /\ Ok(x, 0).value = x
  BY DEF Ok
<1>10. GetField(<<"Dict", f>>, "info", InfoFrom) = Ok(m.info, 0)
  BY <1>8, <1>9 DEF GetField, Then
<1>11. MetaInfoFrom(<<"Dict", f>>) =
         Ok(TorrentMetaInfo(m.info, m.announce, m.announceList, m.comment, m.createdBy, m.encoding), 0)
  BY <1>3, <1>4, <1>5, <1>6, <1>7, <1>9, <1>10 DEF MetaInfoFrom, Then
<1> QED  BY <1>1, <1>2, <1>11
-----------------------------------------------------------------------------
(* What is read behind a position, by readers of parts that advance.        *)
Advances(s, p, d) ==
  \A q \in PositionsFrom(s, p) : d[q].status = "ok" => d[q].at \in PositionsFrom(s, q + 1)

ItemsStep(s, d, rest, q) ==
  IF Peek(s, q) = End THEN Ok(<<>>, q + 1)
  ELSE IF d[q].status = "ok"
  THEN IF rest[d[q].at].status = "ok"
       THEN Ok(<<d[q].value>> \o rest[d[q].at].value, rest[d[q].at].at)
       ELSE rest[d[q].at]
  ELSE d[q]

EntriesStep(s, d, rest, q) ==
  IF Peek(s, q) = End THEN Ok(NoEntry, q + 1)
  ELSE IF ReadStr(s, q).status = "ok"
  THEN IF d[ReadStr(s, q).at].status = "ok"
       THEN IF rest[d[ReadStr(s, q).at].at].status = "ok"
            THEN Ok(rest[d[ReadStr(s, q).at].at].value
                      ++ Entry(ReadStr(s, q).value, d[ReadStr(s, q).at].value),
                    rest[d[ReadStr(s, q).at].at].at)
            ELSE rest[d[ReadStr(s, q).at].at]
       ELSE d[ReadStr(s, q).at]
  ELSE ReadStr(s, q)

(* The rest of a list and that of a dict.                                   *)
RestStep(mode, s, d, rest, q) ==
  IF mode = "list" THEN ItemsStep(s, d, rest, q) ELSE EntriesStep(s, d, rest, q)
Rest(mode, s, p, d) == IF mode = "list" THEN Items(s, p, d) ELSE Entries(s, p, d)

LEMMA EndIsToken ==
  ASSUME NEW s \in Seq(Tokens), NEW q \in Nat, Peek(s, q) = End
  PROVE  q \in 1..Len(s)
<1>1. <<"eof">> # End
  BY DEF End
<1> QED  BY <1>1 DEF Peek

LEMMA StrIsToken ==
  ASSUME NEW s \in Seq(Tokens), NEW q \in Nat, Peek(s, q)[1] = "s"
  PROVE  q \in 1..Len(s) /\ s[q] = Str(s[q][2]) /\ s[q][2] \in Strings
<1>1. <<"eof">>[1] # "s"
  OBVIOUS
<1>2. q \in 1..Len(s) /\ s[q][1] = "s"
  BY <1>1 DEF Peek
<1>3. s[q] \in Tokens
  BY <1>2
<1>4. s[q] \in {"s"} \X Strings
  <2>1. \A t \in {Dict, List, End, NotANumber} : t[1] # "s"
    BY DEF Dict, List, End, NotANumber
  <2>2. \A t \in {"i"} \X Int : t[1] # "s"
    OBVIOUS
  <2> QED  BY <1>2, <1>3, <2>1, <2>2 DEF Tokens
<1> QED  BY <1>2, <1>4 DEF Str

LEMMA StrAt ==
  ASSUME NEW s \in Seq(Tokens), NEW q \in Nat, ReadStr(s, q).status = "ok"
  PROVE  /\ q \in 1..Len(s) /\ ReadStr(s, q) = Ok(s[q][2], q + 1)
         /\ ReadStr(s, q).at = q + 1 /\ ReadStr(s, q).value = s[q][2]
         /\ s[q][2] \in Text
<1>1. Peek(s, q)[1] = "s"
  <2>1. CASE Peek(s, q)[1] # "s"
    <3>1. ReadByteString(s, q) = Malformed(q) /\ ReadByteString(s, q).status # "ok"
      BY <2>1 DEF ReadByteString, Malformed
    <3> QED  BY <3>1 DEF ReadStr
  <2> QED  BY <2>1
<1>2. q \in 1..Len(s) /\ s[q][2] \in Strings
  BY <1>1, StrIsToken
<1>3. ReadByteString(s, q) = Ok(s[q][2], q + 1)
  BY <1>1 DEF ReadByteString
<1>4. ReadByteString(s, q).status = "ok" /\ ReadByteString(s, q).value = s[q][2]
        /\ ReadByteString(s, q).at = q + 1
  BY <1>3 DEF Ok
<1>5. s[q][2] \notin Binary
  <2>1. CASE s[q][2] \in Binary
    <3>1. ReadStr(s, q) = Malformed(q + 1)
      BY <1>4, <2>1 DEF ReadStr
    <3> QED  BY <3>1 DEF Malformed
  <2> QED  BY <2>1
<1>6. ReadStr(s, q) = ReadByteString(s, q)
  BY <1>4, <1>5 DEF ReadStr
<1> QED  BY <1>2, <1>3, <1>4, <1>5, <1>6 DEF Text

(* A step depends on nothing but what is read behind it.                    *)
LEMMA StepLocal ==
  ASSUME NEW mode, NEW s \in Seq(Tokens), NEW n \in Nat, n = Len(s) + 1, NEW q \in 0..n,
         NEW d, NEW e, Advances(s, q, d), \A r \in q..n : d[r] = e[r],
         NEW f, NEW g, \A r \in (q + 1)..n : f[r] = g[r]
  PROVE  RestStep(mode, s, d, f, q) = RestStep(mode, s, e, g, q)
<1>1. \A r \in q..n : d[r].status = "ok" => d[r].at \in (r + 1)..n
  BY DEF Advances, PositionsFrom
<1>2. q \in q..n
  OBVIOUS
<1>3. d[q] = e[q] /\ (d[q].status = "ok" => f[d[q].at] = g[d[q].at])
  <2>1. d[q].status = "ok" => d[q].at \in (q + 1)..n
    BY <1>1, <1>2
  <2> QED  BY <1>2, <2>1
<1>4. ItemsStep(s, d, f, q) = ItemsStep(s, e, g, q)
  BY <1>3 DEF ItemsStep
<1>5. PICK k : k = ReadStr(s, q)
  OBVIOUS
<1>6. ASSUME k.status = "ok"
      PROVE  d[k.at] = e[k.at] /\ (d[k.at].status = "ok" => f[d[k.at].at] = g[d[k.at].at])
  <2>1. k.at = q + 1 /\ q \in 1..Len(s)
    BY <1>5, <1>6, StrAt
  <2>2. q + 1 \in q..n
    BY <2>1
  <2>3. d[q + 1].status = "ok" => d[q + 1].at \in (q + 1)..n
    <3>1. d[q + 1].status = "ok" => d[q + 1].at \in ((q + 1) + 1)..n
      BY <1>1, <2>2
    <3> QED  BY <3>1
  <2> QED  BY <2>1, <2>2, <2>3
<1>7. EntriesStep(s, d, f, q) = EntriesStep(s, e, g, q)
  BY <1>5, <1>6 DEF EntriesStep
<1> QED  BY <1>4, <1>7 DEF RestStep

Solves(mode, s, p, d, f) == f = [q \in PositionsFrom(s, p) |-> RestStep(mode, s, d, f, q)]

LEMMA RestExists ==
  ASSUME NEW mode, NEW s \in Seq(Tokens), NEW p \in Nat, NEW d, Advances(s, p, d)
  PROVE  \E f : Solves(mode, s, p, d, f)
<1>1. PICK n \in Nat : n = Len(s) + 1
  <2>1. Len(s) + 1 \in Nat
    OBVIOUS
  <2> QED  BY <2>1
<1> DEFINE Good(k, f) == \A q \in p..n : q >= k => f[q] = RestStep(mode, s, d, f, q)
           Done == {k \in 0..n : \E f : Good(k, f)}
<1>2. \A q \in p..n : Advances(s, q, d) /\ q \in 0..n
  BY <1>1 DEF Advances, PositionsFrom
<1>3. ASSUME NEW k \in 0..n, \A j \in (k + 1)..n : j \in Done PROVE k \in Done
  <2>1. PICK f : \A q \in p..n : q > k => f[q] = RestStep(mode, s, d, f, q)
    <3>1. CASE k = n
      BY <3>1
    <3>2. CASE k # n
      <4>1. k + 1 \in (k + 1)..n
        BY <3>2
      <4>2. PICK f : Good(k + 1, f)
        BY <1>3, <4>1
      <4> QED  BY <4>2
    <3> QED  BY <3>1, <3>2
  <2> DEFINE g == [q \in p..n |-> RestStep(mode, s, d, f, q)]
  <2>2. \A q \in p..n : q > k => g[q] = f[q]
    BY <2>1
  <2>3. ASSUME NEW q \in p..n, q >= k PROVE g[q] = RestStep(mode, s, d, g, q)
    <3>1. g[q] = RestStep(mode, s, d, f, q)
      OBVIOUS
    <3> HIDE DEF g
    <3>2. \A r \in (q + 1)..n : f[r] = g[r]
      <4>1. \A r \in (q + 1)..n : r \in p..n /\ r > k
        BY <2>3
      <4> QED  BY <2>2, <4>1
    <3>3. RestStep(mode, s, d, f, q) = RestStep(mode, s, d, g, q)
      BY <1>1, <1>2, <3>2, StepLocal
    <3> QED  BY <3>1, <3>3
  <2> HIDE DEF g
  <2> QED  BY <2>3
<1> HIDE DEF Done
<1>4. 0 \in Done
  <2>1. \A j \in 0..n : j \in Done
    BY <1>3, DownInduction
  <2> QED  BY <2>1
<1>5. PICK f : \A q \in p..n : f[q] = RestStep(mode, s, d, f, q)
  <2>1. \A q \in p..n : q >= 0
    OBVIOUS
  <2> QED  BY <1>4, <2>1 DEF Done
<1> DEFINE g == [q \in p..n |-> RestStep(mode, s, d, f, q)]
<1>6. \A q \in p..n : g[q] = f[q]
  BY <1>5
<1>7. ASSUME NEW q \in p..n PROVE RestStep(mode, s, d, f, q) = RestStep(mode, s, d, g, q)
  <2> HIDE DEF g
  <2>1. \A r \in (q + 1)..n : f[r] = g[r]
    <3>1. \A r \in (q + 1)..n : r \in p..n
      OBVIOUS
    <3> QED  BY <1>6, <3>1
  <2> QED  BY <1>1, <1>2, <2>1, StepLocal
<1>8. g = [q \in p..n |-> RestStep(mode, s, d, g, q)]
  BY <1>7
<1>9. PositionsFrom(s, p) = p..n
  BY <1>1 DEF PositionsFrom
<1> HIDE DEF g
<1> QED  BY <1>8, <1>9 DEF Solves

LEMMA RestIsSolved ==
  ASSUME NEW mode, NEW s \in Seq(Tokens), NEW p \in Nat, NEW d, Advances(s, p, d)
  PROVE  \E f : Solves(mode, s, p, d, f) /\ Rest(mode, s, p, d) = f[p]
<1>1. CASE mode = "list"
  <2> DEFINE f == CHOOSE f : f = [q \in PositionsFrom(s, p) |-> ItemsStep(s, d, f, q)]
  <2>0. \A g, q : RestStep(mode, s, d, g, q) = ItemsStep(s, d, g, q)
    BY <1>1 DEF RestStep
  <2>1. \E g : g = [q \in PositionsFrom(s, p) |-> ItemsStep(s, d, g, q)]
    <3>1. PICK g : Solves(mode, s, p, d, g)
      BY RestExists
    <3>2. g = [q \in PositionsFrom(s, p) |-> ItemsStep(s, d, g, q)]
      BY <2>0, <3>1 DEF Solves
    <3> QED  BY <3>2
  <2>2. f = [q \in PositionsFrom(s, p) |-> ItemsStep(s, d, f, q)]
    BY <2>1
  <2>3. Items(s, p, d) = f[p]
    BY DEF Items, ItemsStep, Then
  <2> HIDE DEF f
  <2>4. Solves(mode, s, p, d, f)
    BY <2>0, <2>2 DEF Solves
  <2> QED  BY <1>1, <2>3, <2>4 DEF Rest
<1>2. CASE mode # "list"
  <2> DEFINE f == CHOOSE f : f = [q \in PositionsFrom(s, p) |-> EntriesStep(s, d, f, q)]
  <2>0. \A g, q : RestStep(mode, s, d, g, q) = EntriesStep(s, d, g, q)
    BY <1>2 DEF RestStep
  <2>1. \E g : g = [q \in PositionsFrom(s, p) |-> EntriesStep(s, d, g, q)]
    <3>1. PICK g : Solves(mode, s, p, d, g)
      BY RestExists
    <3>2. g = [q \in PositionsFrom(s, p) |-> EntriesStep(s, d, g, q)]
      BY <2>0, <3>1 DEF Solves
    <3> QED  BY <3>2
  <2>2. f = [q \in PositionsFrom(s, p) |-> EntriesStep(s, d, f, q)]
    BY <2>1
  <2>3. Entries(s, p, d) = f[p]
    BY DEF Entries, EntriesStep, Then
  <2> HIDE DEF f
  <2>4. Solves(mode, s, p, d, f)
    BY <2>0, <2>2 DEF Solves
  <2> QED  BY <1>2, <2>3, <2>4 DEF Rest
<1> QED  BY <1>1, <1>2

Agree(d, e, q, n) == \A r \in q..n : d[r] = e[r]

(* Two solutions are the same where the readers of the parts are.           *)
LEMMA SolutionsAgree ==
  ASSUME NEW mode, NEW s \in Seq(Tokens), NEW n \in Nat, n = Len(s) + 1,
         NEW p \in Nat, NEW q \in p..n, NEW d, NEW e, Advances(s, q, d),
         Agree(d, e, q, n),
         NEW f, NEW g, Solves(mode, s, p, d, f), Solves(mode, s, q, e, g)
  PROVE  Agree(f, g, q, n)
<1> DEFINE Same == {r \in 0..n : r >= q => f[r] = g[r]}
<1>1. PositionsFrom(s, p) = p..n /\ PositionsFrom(s, q) = q..n
  BY DEF PositionsFrom
<1>2. \A r \in q..n : f[r] = RestStep(mode, s, d, f, r) /\ g[r] = RestStep(mode, s, e, g, r)
  <2>1. f = [r \in p..n |-> RestStep(mode, s, d, f, r)] /\ g = [r \in q..n |-> RestStep(mode, s, e, g, r)]
    BY <1>1 DEF Solves
  <2>2. \A r \in q..n : r \in p..n
    OBVIOUS
  <2> QED  BY <2>1, <2>2
<1>3. ASSUME NEW r \in 0..n, \A j \in (r + 1)..n : j \in Same PROVE r \in Same
  <2> SUFFICES ASSUME r >= q PROVE f[r] = g[r]
    OBVIOUS
  <2>1. r \in q..n
    OBVIOUS
  <2>2. Advances(s, r, d)
    <3>1. \A x \in PositionsFrom(s, r) : x \in PositionsFrom(s, q)
      BY <2>1 DEF PositionsFrom
    <3> QED  BY <3>1 DEF Advances
  <2>3. \A x \in r..n : d[x] = e[x]
    BY <2>1 DEF Agree
  <2>4. \A x \in (r + 1)..n : f[x] = g[x]
    BY <1>3, <2>1
  <2>5. RestStep(mode, s, d, f, r) = RestStep(mode, s, e, g, r)
    BY <2>2, <2>3, <2>4, StepLocal
  <2> QED  BY <1>2, <2>1, <2>5
<1> HIDE DEF Same
<1>4. \A r \in 0..n : r \in Same
  BY <1>3, DownInduction
<1>5. \A r \in q..n : r \in 0..n /\ r >= q
  OBVIOUS
<1> QED  BY <1>4, <1>5 DEF Same, Agree

LEMMA AdvancesLater ==
  ASSUME NEW s \in Seq(Tokens), NEW n \in Nat, n = Len(s) + 1, NEW p \in Nat, NEW q \in p..n,
         NEW d, Advances(s, p, d)
  PROVE  Advances(s, q, d)
<1>1. \A x \in PositionsFrom(s, q) : x \in PositionsFrom(s, p)
  BY DEF PositionsFrom
<1> QED  BY <1>1 DEF Advances

Rests(mode, s, q, d) == [r \in (q + 1)..(Len(s) + 1) |-> Rest(mode, s, r, d)]

(* The equation by which the rest behind a position is read.                *)
LEMMA RestEquation ==
  ASSUME NEW mode, NEW s \in Seq(Tokens), NEW n \in Nat, n = Len(s) + 1,
         NEW q \in 0..n, NEW d, Advances(s, q, d)
  PROVE  Rest(mode, s, q, d) = RestStep(mode, s, d, Rests(mode, s, q, d), q)
<1>1. PICK f : Solves(mode, s, q, d, f) /\ Rest(mode, s, q, d) = f[q]
  BY RestIsSolved
<1>2. ASSUME NEW r \in q..n PROVE f[r] = Rest(mode, s, r, d)
  <2>1. Advances(s, r, d) /\ r \in Nat
    BY AdvancesLater
  <2>2. PICK g : Solves(mode, s, r, d, g) /\ Rest(mode, s, r, d) = g[r]
    BY <2>1, RestIsSolved
  <2>3. Agree(f, g, r, n)
    <3>1. Agree(d, d, r, n)
      BY DEF Agree
    <3> QED  BY <1>1, <2>1, <2>2, <3>1, SolutionsAgree
  <2>4. r \in r..n
    OBVIOUS
  <2> QED  BY <2>2, <2>3, <2>4 DEF Agree
<1>3. \A r \in (q + 1)..n : f[r] = Rests(mode, s, q, d)[r]
  BY <1>2 DEF Rests
<1>4. f[q] = RestStep(mode, s, d, f, q)
  <2>1. q \in PositionsFrom(s, q)
    BY DEF PositionsFrom
  <2> QED  BY <1>1, <2>1 DEF Solves
<1>5. RestStep(mode, s, d, f, q) = RestStep(mode, s, d, Rests(mode, s, q, d), q)
  BY <1>3, StepLocal
<1> QED  BY <1>1, <1>4, <1>5

LEMMA RestLocal ==
  ASSUME NEW mode, NEW s \in Seq(Tokens), NEW n \in Nat, n = Len(s) + 1,
         NEW q \in 0..n, NEW d, NEW e, Advances(s, q, d), Agree(d, e, q, n)
  PROVE  Rest(mode, s, q, d) = Rest(mode, s, q, e)
<1>1. PICK f : Solves(mode, s, q, d, f) /\ Rest(mode, s, q, d) = f[q]
  BY RestIsSolved
<1>2. Advances(s, q, e)
  BY DEF Advances, PositionsFrom, Agree
<1>3. PICK g : Solves(mode, s, q, e, g) /\ Rest(mode, s, q, e) = g[q]
  BY <1>2, RestIsSolved
<1>4. q \in q..n /\ q \in Nat
  OBVIOUS
<1>5. Agree(f, g, q, n)
  BY <1>1, <1>3, <1>4, SolutionsAgree
<1> QED  BY <1>1, <1>3, <1>4, <1>5 DEF Agree

(* The rest of a list, and how it comes about that it is read.              *)
Prepends(s, q, d) ==
  Items(s, q, d) = Ok(<<d[q].value>> \o Items(s, d[q].at, d).value, Items(s, d[q].at, d).at)

LEMMA ItemsNext ==
  ASSUME NEW s \in Seq(Tokens), NEW n \in Nat, n = Len(s) + 1, NEW q \in 0..n, NEW d, Advances(s, q, d)
  PROVE  /\ Peek(s, q) = End => Items(s, q, d) = Ok(<<>>, q + 1)
         /\ Peek(s, q) # End /\ d[q].status = "ok" /\ Items(s, d[q].at, d).status = "ok"
              => Prepends(s, q, d) /\ Items(s, q, d).status = "ok"
         /\ Peek(s, q) # End /\ Items(s, q, d).status = "ok"
              => d[q].status = "ok" /\ d[q].at \in (q + 1)..n /\ Items(s, d[q].at, d).status = "ok"
<1>1. Items(s, q, d) = ItemsStep(s, d, Rests("list", s, q, d), q)
  BY RestEquation DEF Rest, RestStep
<1>2. \A r \in (q + 1)..n : Rests("list", s, q, d)[r] = Items(s, r, d)
  BY DEF Rests, Rest
<1>3. d[q].status = "ok" => d[q].at \in (q + 1)..n
  BY DEF Advances, PositionsFrom
<1>4. d[q].status = "ok" => Rests("list", s, q, d)[d[q].at] = Items(s, d[q].at, d)
  BY <1>2, <1>3
<1>5. Peek(s, q) = End => Items(s, q, d) = Ok(<<>>, q + 1)
  BY <1>1 DEF ItemsStep
<1>6. Peek(s, q) # End /\ d[q].status # "ok" => Items(s, q, d) = d[q]
  BY <1>1 DEF ItemsStep
<1>7. Peek(s, q) # End /\ d[q].status = "ok" /\ Items(s, d[q].at, d).status # "ok"
        => Items(s, q, d) = Items(s, d[q].at, d)
  BY <1>1, <1>4 DEF ItemsStep
<1>8. Peek(s, q) # End /\ d[q].status = "ok" /\ Items(s, d[q].at, d).status = "ok"
        => Prepends(s, q, d)
  BY <1>1, <1>4 DEF ItemsStep, Prepends
<1>9. Prepends(s, q, d) => Items(s, q, d).status = "ok"
  BY DEF Prepends, Ok
<1> QED  BY <1>3, <1>5, <1>6, <1>7, <1>8, <1>9

(* The same for a dict.                                                     *)
Grows(s, q, d) ==
  Entries(s, q, d) =
    Ok(Entries(s, d[q + 1].at, d).value ++ Entry(s[q][2], d[q + 1].value),
       Entries(s, d[q + 1].at, d).at)

LEMMA EntriesNext ==
  ASSUME NEW s \in Seq(Tokens), NEW n \in Nat, n = Len(s) + 1, NEW q \in 0..n, NEW d, Advances(s, q, d)
  PROVE  /\ Peek(s, q) = End => Entries(s, q, d) = Ok(NoEntry, q + 1)
         /\ Peek(s, q) # End /\ ReadStr(s, q).status = "ok" /\ d[q + 1].status = "ok"
              /\ Entries(s, d[q + 1].at, d).status = "ok"
              => Grows(s, q, d) /\ Entries(s, q, d).status = "ok"
         /\ Peek(s, q) # End /\ Entries(s, q, d).status = "ok"
              => /\ ReadStr(s, q).status = "ok" /\ q \in 1..Len(s) /\ s[q][2] \in Text
                 /\ d[q + 1].status = "ok"
                 /\ d[q + 1].at \in (q + 2)..n /\ Entries(s, d[q + 1].at, d).status = "ok"
<1>1. Entries(s, q, d) = EntriesStep(s, d, Rests("dict", s, q, d), q)
  BY RestEquation DEF Rest, RestStep
<1>2. \A r \in (q + 1)..n : Rests("dict", s, q, d)[r] = Entries(s, r, d)
  BY DEF Rests, Rest
<1>3. ReadStr(s, q).status = "ok" =>
        /\ q \in 1..Len(s) /\ ReadStr(s, q).at = q + 1
        /\ ReadStr(s, q).value = s[q][2] /\ s[q][2] \in Text
  BY StrAt
<1>4. ReadStr(s, q).status = "ok" /\ d[q + 1].status = "ok" => d[q + 1].at \in (q + 2)..n
  <2>1. q \in 1..Len(s) => q + 1 \in q..n /\ (q + 1) + 1 = q + 2
    OBVIOUS
  <2> QED  BY <1>3, <2>1 DEF Advances, PositionsFrom
<1>5. ReadStr(s, q).status = "ok" /\ d[q + 1].status = "ok"
        => Rests("dict", s, q, d)[d[q + 1].at] = Entries(s, d[q + 1].at, d)
  <2>1. \A r \in (q + 2)..n : r \in (q + 1)..n
    OBVIOUS
  <2> QED  BY <1>2, <1>4, <2>1
<1>6. Peek(s, q) = End => Entries(s, q, d) = Ok(NoEntry, q + 1)
  BY <1>1 DEF EntriesStep
<1>7. Peek(s, q) # End /\ ReadStr(s, q).status # "ok" => Entries(s, q, d) = ReadStr(s, q)
  BY <1>1 DEF EntriesStep
<1>8. Peek(s, q) # End /\ ReadStr(s, q).status = "ok" /\ d[q + 1].status # "ok"
        => Entries(s, q, d) = d[q + 1]
  BY <1>1, <1>3 DEF EntriesStep
<1>9. Peek(s, q) # End /\ ReadStr(s, q).status = "ok" /\ d[q + 1].status = "ok"
        /\ Entries(s, d[q + 1].at, d).status # "ok"
        => Entries(s, q, d) = Entries(s, d[q + 1].at, d)
  BY <1>1, <1>3, <1>5 DEF EntriesStep
<1>10. ASSUME /\ Peek(s, q) # End /\ ReadStr(s, q).status = "ok" /\ d[q + 1].status = "ok"
               /\ Entries(s, d[q + 1].at, d).status = "ok"
       PROVE  Grows(s, q, d) /\ Entries(s, q, d).status = "ok"
  <2>1. PICK e : e = Entries(s, d[q + 1].at, d)
    OBVIOUS
  <2>2. EntriesStep(s, d, Rests("dict", s, q, d), q) =
          Ok(e.value ++ Entry(ReadStr(s, q).value, d[q + 1].value), e.at)
    BY <1>3, <1>5, <1>10, <2>1 DEF EntriesStep
  <2>3. ReadStr(s, q).value = s[q][2]
    BY <1>3, <1>10
  <2>4. Grows(s, q, d)
    BY <1>1, <2>1, <2>2, <2>3 DEF Grows
  <2>5. Entries(s, q, d).status = "ok"
    BY <1>1, <2>2 DEF Ok
  <2> QED  BY <2>4, <2>5
<1>11. Peek(s, q) # End /\ Entries(s, q, d).status = "ok"
         => /\ ReadStr(s, q).status = "ok" /\ q \in 1..Len(s) /\ s[q][2] \in Text
            /\ d[q + 1].status = "ok"
            /\ d[q + 1].at \in (q + 2)..n /\ Entries(s, d[q + 1].at, d).status = "ok"
  BY <1>3, <1>4, <1>7, <1>8, <1>9
<1> QED  BY <1>6, <1>10, <1>11

LEMMA ItemsAdvance ==
  ASSUME NEW s \in Seq(Tokens), NEW n \in Nat, n = Len(s) + 1, NEW q \in 0..n, NEW d,
         Advances(s, q, d), Items(s, q, d).status = "ok"
  PROVE  Items(s, q, d).at \in (q + 1)..n
<1> DEFINE Done == {k \in 0..n : k >= q /\ Items(s, k, d).status = "ok" => Items(s, k, d).at \in (k + 1)..n}
<1>1. ASSUME NEW k \in 0..n, \A j \in (k + 1)..n : j \in Done PROVE k \in Done
  <2> SUFFICES ASSUME k >= q, Items(s, k, d).status = "ok" PROVE Items(s, k, d).at \in (k + 1)..n
    OBVIOUS
  <2>1. Advances(s, k, d)
    <3>1. q \in Nat /\ k \in q..n
      OBVIOUS
    <3> QED  BY <3>1, AdvancesLater
  <2>2. CASE Peek(s, k) = End
    <3>1. Items(s, k, d) = Ok(<<>>, k + 1)
      BY <2>1, <2>2, ItemsNext
    <3>2. k \in 1..Len(s)
      BY <2>2, EndIsToken
    <3>3. Items(s, k, d).at = k + 1
      BY <3>1 DEF Ok
    <3> QED  BY <3>2, <3>3
  <2>3. CASE Peek(s, k) # End
    <3>1. d[k].status = "ok" /\ d[k].at \in (k + 1)..n /\ Items(s, d[k].at, d).status = "ok"
      BY <2>1, <2>3, ItemsNext
    <3>2. PICK r : r = d[k].at
      OBVIOUS
    <3>3. Items(s, r, d).at \in (r + 1)..n
      BY <1>1, <3>1, <3>2
    <3>4. Prepends(s, k, d)
      BY <2>1, <2>3, <3>1, ItemsNext
    <3>5. Items(s, k, d).at = Items(s, r, d).at
      BY <3>2, <3>4 DEF Ok, Prepends
    <3> QED  BY <3>1, <3>2, <3>3, <3>5
  <2> QED  BY <2>2, <2>3
<1> HIDE DEF Done
<1>2. q \in Done
  BY <1>1, DownInduction
<1> QED  BY <1>2 DEF Done

LEMMA EntriesAdvance ==
  ASSUME NEW s \in Seq(Tokens), NEW n \in Nat, n = Len(s) + 1, NEW q \in 0..n, NEW d,
         Advances(s, q, d), Entries(s, q, d).status = "ok"
  PROVE  Entries(s, q, d).at \in (q + 1)..n
<1> DEFINE Done == {k \in 0..n : k >= q /\ Entries(s, k, d).status = "ok" => Entries(s, k, d).at \in (k + 1)..n}
<1>1. ASSUME NEW k \in 0..n, \A j \in (k + 1)..n : j \in Done PROVE k \in Done
  <2> SUFFICES ASSUME k >= q, Entries(s, k, d).status = "ok" PROVE Entries(s, k, d).at \in (k + 1)..n
    OBVIOUS
  <2>1. Advances(s, k, d)
    <3>1. q \in Nat /\ k \in q..n
      OBVIOUS
    <3> QED  BY <3>1, AdvancesLater
  <2>2. CASE Peek(s, k) = End
    <3>1. Entries(s, k, d) = Ok(NoEntry, k + 1)
      BY <2>1, <2>2, EntriesNext
    <3>2. k \in 1..Len(s)
      BY <2>2, EndIsToken
    <3>3. Entries(s, k, d).at = k + 1
      BY <3>1 DEF Ok
    <3> QED  BY <3>2, <3>3
  <2>3. CASE Peek(s, k) # End
    <3>1. /\ ReadStr(s, k).status = "ok" /\ d[k + 1].status = "ok"
          /\ d[k + 1].at \in (k + 2)..n /\ Entries(s, d[k + 1].at, d).status = "ok"
      BY <2>1, <2>3, EntriesNext
    <3>2. PICK r : r = d[k + 1].at
      OBVIOUS
    <3>3. Entries(s, r, d).at \in (r + 1)..n
      BY <1>1, <3>1, <3>2
    <3>4. Grows(s, k, d)
      BY <2>1, <2>3, <3>1, EntriesNext
    <3>5. Entries(s, k, d).at = Entries(s, r, d).at
      BY <3>2, <3>4 DEF Ok, Grows
    <3> QED  BY <3>1, <3>2, <3>3, <3>5
  <2> QED  BY <2>2, <2>3
<1> HIDE DEF Done
<1>2. q \in Done
  BY <1>1, DownInduction
<1> QED  BY <1>2 DEF Done

(* What ReadValue makes of each token.                                      *)
Variant(w) == IF w \in Binary THEN "Bytes" ELSE "String"
As(variant, result) ==
  IF result.status = "ok" THEN Ok(<<variant, result.value>>, result.at) ELSE result

LEMMA OpenIsToken ==
  ASSUME NEW s \in Seq(Tokens), NEW q \in Nat, Peek(s, q) \in {Dict, List} \/ Peek(s, q)[1] = "i"
  PROVE  q \in 1..Len(s)
<1>1. <<"eof">> \notin {Dict, List} /\ <<"eof">>[1] # "i"
  BY DEF Dict, List
<1> QED  BY <1>1 DEF Peek

LEMMA ValueOfDict ==
  ASSUME NEW s \in Seq(Tokens), NEW q \in Nat, NEW d, Peek(s, q) = Dict
  PROVE  ReadValue(s, q, d) = As("Dict", Entries(s, q + 1, d))
<1>1. Dict # List /\ Dict[1] # "s"
  BY DEF Dict, List
<1>2. Expect(s, q, Dict) = Ok(<<>>, q + 1)
  BY DEF Expect
<1>3. ReadDict(s, q, d) = Entries(s, q + 1, d)
  BY <1>2 DEF ReadDict, Then, Ok
<1>4. ReadValue(s, q, d) = As("Dict", ReadDict(s, q, d))
  BY <1>1 DEF ReadValue, As, Then
<1> QED  BY <1>3, <1>4

LEMMA ValueOfList ==
  ASSUME NEW s \in Seq(Tokens), NEW q \in Nat, NEW d, Peek(s, q) = List
  PROVE  ReadValue(s, q, d) = As("List", Items(s, q + 1, d))
<1>1. Dict # List /\ List[1] # "s"
  BY DEF Dict, List
<1>2. Expect(s, q, List) = Ok(<<>>, q + 1)
  BY DEF Expect
<1>3. ReadList(s, q, d) = Items(s, q + 1, d)
  BY <1>2 DEF ReadList, Then, Ok
<1>4. ReadValue(s, q, d) = As("List", ReadList(s, q, d))
  BY <1>1 DEF ReadValue, As, Then
<1> QED  BY <1>3, <1>4

LEMMA ValueOfString ==
  ASSUME NEW s \in Seq(Tokens), NEW q \in Nat, NEW d, Peek(s, q)[1] = "s"
  PROVE  ReadValue(s, q, d) = Ok(<<Variant(s[q][2]), s[q][2]>>, q + 1)
<1>1. Dict # List /\ Dict[1] # "s" /\ List[1] # "s"
  BY DEF Dict, List
<1>2. ReadByteString(s, q) = Ok(s[q][2], q + 1)
  BY DEF ReadByteString
<1>3. Peek(s, q) # Dict /\ Peek(s, q) # List
  BY <1>1
<1>4. ReadValue(s, q, d) = As(Variant(ReadByteString(s, q).value), ReadByteString(s, q))
  BY <1>3 DEF ReadValue, As, Then, Variant
<1> QED  BY <1>2, <1>4 DEF As, Ok

LEMMA ValueOfOther ==
  ASSUME NEW s \in Seq(Tokens), NEW q \in Nat, NEW d,
         Peek(s, q) \notin {Dict, List}, Peek(s, q)[1] # "s"
  PROVE  ReadValue(s, q, d) = As("Integer", ReadInteger(s, q, Signed(Width)))
BY DEF ReadValue, As, Then

LEMMA ValueOfNumber ==
  ASSUME NEW s \in Seq(Tokens), NEW q \in Nat, NEW d,
         Peek(s, q)[1] = "i", s[q][2] \in Signed(Width)
  PROVE  ReadValue(s, q, d) = Ok(<<"Integer", s[q][2]>>, q + 1)
<1>1. Peek(s, q) \notin {Dict, List} /\ Peek(s, q)[1] # "s"
  BY DEF Dict, List
<1>2. ReadInteger(s, q, Signed(Width)) = Ok(s[q][2], q + 1)
  BY DEF ReadInteger
<1>3. ReadValue(s, q, d) = As("Integer", ReadInteger(s, q, Signed(Width)))
  BY <1>1, ValueOfOther
<1> QED  BY <1>2, <1>3 DEF As, Ok

LEMMA NumberIsToken ==
  ASSUME NEW s \in Seq(Tokens), NEW q \in Nat, NEW d,
         Peek(s, q) \notin {Dict, List}, Peek(s, q)[1] # "s", ReadValue(s, q, d).status = "ok"
  PROVE  Peek(s, q)[1] = "i" /\ s[q][2] \in Signed(Width)
<1>1. ReadInteger(s, q, Signed(Width)).status = "ok"
  BY ValueOfOther DEF As
<1>2. \A r : Malformed(r).status # "ok"
  BY DEF Malformed
<1> QED  BY <1>1, <1>2 DEF ReadInteger

(* A value is read from the tokens behind it, and from at least one.        *)
LEMMA ValueLocal ==
  ASSUME NEW s \in Seq(Tokens), NEW n \in Nat, n = Len(s) + 1, NEW q \in 0..n, NEW d, NEW e,
         Advances(s, q + 1, d), Agree(d, e, q + 1, n)
  PROVE  ReadValue(s, q, d) = ReadValue(s, q, e)
<1>1. CASE Peek(s, q) \in {Dict, List}
  <2>1. q \in 1..Len(s)
    BY <1>1, OpenIsToken
  <2>2. q + 1 \in 0..n
    BY <2>1
  <2>3. Rest("dict", s, q + 1, d) = Rest("dict", s, q + 1, e)
    BY <2>2, RestLocal
  <2>4. Rest("list", s, q + 1, d) = Rest("list", s, q + 1, e)
    BY <2>2, RestLocal
  <2> QED  BY <1>1, <2>3, <2>4, ValueOfDict, ValueOfList DEF Rest
<1>2. CASE Peek(s, q)[1] = "s"
  <2>1. ReadValue(s, q, d) = Ok(<<Variant(s[q][2]), s[q][2]>>, q + 1)
    BY <1>2, ValueOfString
  <2>2. ReadValue(s, q, e) = Ok(<<Variant(s[q][2]), s[q][2]>>, q + 1)
    BY <1>2, ValueOfString
  <2> QED  BY <2>1, <2>2
<1>3. CASE Peek(s, q) \notin {Dict, List} /\ Peek(s, q)[1] # "s"
  <2>1. ReadValue(s, q, d) = As("Integer", ReadInteger(s, q, Signed(Width)))
    BY <1>3, ValueOfOther
  <2>2. ReadValue(s, q, e) = As("Integer", ReadInteger(s, q, Signed(Width)))
    BY <1>3, ValueOfOther
  <2> QED  BY <2>1, <2>2
<1> QED  BY <1>1, <1>2, <1>3

LEMMA ValueAdvances ==
  ASSUME NEW s \in Seq(Tokens), NEW n \in Nat, n = Len(s) + 1, NEW q \in 0..n, NEW d,
         Advances(s, q + 1, d), ReadValue(s, q, d).status = "ok"
  PROVE  ReadValue(s, q, d).at \in (q + 1)..n
<1>1. \A v, r : Ok(v, r).at = r
  BY DEF Ok
<1>2. CASE Peek(s, q) \in {Dict, List}
  <2>1. q \in 1..Len(s)
    BY <1>2, OpenIsToken
  <2>2. q + 1 \in 0..n
    BY <2>1
  <2>3. PICK rest \in {Entries(s, q + 1, d), Items(s, q + 1, d)}, variant \in {"Dict", "List"} :
          ReadValue(s, q, d) = As(variant, rest)
    BY <1>2, ValueOfDict, ValueOfList
  <2>4. rest.status = "ok" /\ ReadValue(s, q, d).at = rest.at
    BY <1>1, <2>3 DEF As
  <2>5. rest.at \in ((q + 1) + 1)..n
    BY <2>2, <2>3, <2>4, EntriesAdvance, ItemsAdvance
  <2> QED  BY <2>4, <2>5
<1>3. CASE Peek(s, q)[1] = "s"
  <2>1. q \in 1..Len(s)
    BY <1>3, StrIsToken
  <2>2. ReadValue(s, q, d) = Ok(<<Variant(s[q][2]), s[q][2]>>, q + 1)
    BY <1>3, ValueOfString
  <2>3. ReadValue(s, q, d).at = q + 1
    BY <1>1, <2>2
  <2> QED  BY <2>1, <2>3
<1>4. CASE Peek(s, q) \notin {Dict, List} /\ Peek(s, q)[1] # "s"
  <2>1. Peek(s, q)[1] = "i" /\ s[q][2] \in Signed(Width)
    BY <1>4, NumberIsToken
  <2>2. ReadValue(s, q, d) = Ok(<<"Integer", s[q][2]>>, q + 1)
    BY <2>1, ValueOfNumber
  <2>3. q \in 1..Len(s)
    BY <2>1, OpenIsToken
  <2>4. ReadValue(s, q, d).at = q + 1
    BY <1>1, <2>2
  <2> QED  BY <2>3, <2>4
<1> QED  BY <1>2, <1>3, <1>4

LEMMA ValueExists ==
  ASSUME NEW s \in Seq(Tokens)
  PROVE  \E d : d = [q \in Positions(s) |-> ReadValue(s, q, d)]
<1>1. PICK n \in Nat : n = Len(s) + 1
  <2>1. Len(s) + 1 \in Nat
    OBVIOUS
  <2> QED  BY <2>1
<1> DEFINE Good(k, d) == Advances(s, k, d) /\ \A q \in k..n : d[q] = ReadValue(s, q, d)
           Done == {k \in 0..n : \E d : Good(k, d)}
<1>2. ASSUME NEW k \in 0..n, \A j \in (k + 1)..n : j \in Done PROVE k \in Done
  <2>1. PICK d : Advances(s, k + 1, d) /\ \A q \in (k + 1)..n : d[q] = ReadValue(s, q, d)
    <3>1. CASE k = n
      <4>1. PositionsFrom(s, k + 1) = {} /\ (k + 1)..n = {}
        BY <1>1, <3>1 DEF PositionsFrom
      <4> QED  BY <4>1 DEF Advances
    <3>2. CASE k # n
      <4>1. k + 1 \in (k + 1)..n
        BY <3>2
      <4> QED  BY <1>2, <4>1
    <3> QED  BY <3>1, <3>2
  <2> DEFINE e == [q \in 0..n |-> IF q = k THEN ReadValue(s, k, d) ELSE d[q]]
  <2>2. e[k] = ReadValue(s, k, d) /\ \A q \in (k + 1)..n : e[q] = d[q]
    OBVIOUS
  <2> HIDE DEF e
  <2>3. ASSUME NEW q \in k..n PROVE ReadValue(s, q, d) = ReadValue(s, q, e)
    <3>1. Advances(s, q + 1, d)
      <4>1. \A x \in PositionsFrom(s, q + 1) : x \in PositionsFrom(s, k + 1)
        BY DEF PositionsFrom
      <4> QED  BY <2>1, <4>1 DEF Advances
    <3>2. Agree(d, e, q + 1, n)
      <4>1. \A x \in (q + 1)..n : x \in (k + 1)..n
        OBVIOUS
      <4> QED  BY <2>2, <4>1 DEF Agree
    <3>3. q \in 0..n
      OBVIOUS
    <3> QED  BY <1>1, <3>1, <3>2, <3>3, ValueLocal
  <2>4. \A q \in k..n : e[q] = ReadValue(s, q, e)
    <3>1. \A q \in k..n : q = k \/ q \in (k + 1)..n
      OBVIOUS
    <3> QED  BY <2>1, <2>2, <2>3, <3>1
  <2>5. Advances(s, k, e)
    <3>1. ASSUME NEW q \in PositionsFrom(s, k), e[q].status = "ok"
          PROVE  e[q].at \in PositionsFrom(s, q + 1)
      <4>1. CASE q = k
        <5>1. ReadValue(s, k, d).at \in (k + 1)..n
          BY <1>1, <2>1, <2>2, <3>1, <4>1, ValueAdvances
        <5> QED  BY <1>1, <2>2, <4>1, <5>1 DEF PositionsFrom
      <4>2. CASE q # k
        <5>1. q \in (k + 1)..n /\ q \in PositionsFrom(s, k + 1)
          BY <1>1, <4>2 DEF PositionsFrom
        <5>2. e[q] = d[q]
          BY <2>2, <5>1
        <5> QED  BY <2>1, <3>1, <5>1, <5>2 DEF Advances
      <4> QED  BY <4>1, <4>2
    <3> QED  BY <3>1 DEF Advances
  <2> QED  BY <2>4, <2>5
<1> HIDE DEF Done
<1>3. 0 \in Done
  <2>1. \A j \in 0..n : j \in Done
    BY <1>2, DownInduction
  <2> QED  BY <2>1
<1>4. PICK d : Advances(s, 0, d) /\ \A q \in 0..n : d[q] = ReadValue(s, q, d)
  BY <1>3 DEF Done
<1> DEFINE e == [q \in 0..n |-> ReadValue(s, q, d)]
<1>5. \A q \in 0..n : e[q] = d[q]
  BY <1>4
<1>6. \A q \in 0..n : ReadValue(s, q, d) = ReadValue(s, q, e)
  <2> HIDE DEF e
  <2>1. ASSUME NEW q \in 0..n PROVE ReadValue(s, q, d) = ReadValue(s, q, e)
    <3>1. Advances(s, q + 1, d)
      <4>1. \A x \in PositionsFrom(s, q + 1) : x \in PositionsFrom(s, 0)
        BY DEF PositionsFrom
      <4> QED  BY <1>4, <4>1 DEF Advances
    <3>2. Agree(d, e, q + 1, n)
      <4>1. \A x \in (q + 1)..n : x \in 0..n
        OBVIOUS
      <4> QED  BY <1>5, <4>1 DEF Agree
    <3> QED  BY <1>1, <3>1, <3>2, ValueLocal
  <2> QED  BY <2>1
<1>7. e = [q \in 0..n |-> ReadValue(s, q, e)]
  BY <1>6
<1>8. Positions(s) = 0..n
  BY <1>1 DEF Positions, PositionsFrom
<1> HIDE DEF e
<1> QED  BY <1>7, <1>8

(* The values that a stream has at its positions.                           *)
LEMMA ValueUnfolds ==
  ASSUME NEW s \in Seq(Tokens), NEW n \in Nat, n = Len(s) + 1
  PROVE  /\ \A q \in 0..n : Value(s)[q] = ReadValue(s, q, Value(s))
         /\ Advances(s, 0, Value(s))
<1>1. PICK v : v = Value(s)
  OBVIOUS
<1>2. v = [q \in Positions(s) |-> ReadValue(s, q, v)]
  <2> DEFINE d == CHOOSE d : d = [q \in Positions(s) |-> ReadValue(s, q, d)]
  <2>1. d = [q \in Positions(s) |-> ReadValue(s, q, d)]
    BY ValueExists
  <2>2. v = d
    BY <1>1 DEF Value
  <2> HIDE DEF d
  <2> QED  BY <2>1, <2>2
<1>3. Positions(s) = 0..n
  BY DEF Positions, PositionsFrom
<1>4. \A q \in 0..n : v[q] = ReadValue(s, q, v)
  BY <1>2, <1>3
<1> DEFINE Done == {k \in 0..n : Advances(s, k, v)}
<1>5. ASSUME NEW k \in 0..n, \A j \in (k + 1)..n : j \in Done PROVE k \in Done
  <2>1. Advances(s, k + 1, v)
    <3>1. CASE k = n
      <4>1. PositionsFrom(s, k + 1) = {}
        BY <3>1 DEF PositionsFrom
      <4> QED  BY <4>1 DEF Advances
    <3>2. CASE k # n
      <4>1. k + 1 \in (k + 1)..n
        BY <3>2
      <4> QED  BY <1>5, <4>1
    <3> QED  BY <3>1, <3>2
  <2>2. ASSUME NEW q \in PositionsFrom(s, k), v[q].status = "ok"
        PROVE  v[q].at \in PositionsFrom(s, q + 1)
    <3>1. CASE q = k
      <4>1. ReadValue(s, k, v).at \in (k + 1)..n
        BY <1>4, <2>1, <2>2, <3>1, ValueAdvances
      <4> QED  BY <1>4, <3>1, <4>1 DEF PositionsFrom
    <3>2. CASE q # k
      <4>1. q \in PositionsFrom(s, k + 1)
        BY <3>2 DEF PositionsFrom
      <4> QED  BY <2>1, <2>2, <4>1 DEF Advances
    <3> QED  BY <3>1, <3>2
  <2> QED  BY <2>2 DEF Advances
<1> HIDE DEF Done
<1>6. Advances(s, 0, v)
  <2>1. \A j \in 0..n : j \in Done
    BY <1>5, DownInduction
  <2> QED  BY <2>1 DEF Done
<1> QED  BY <1>1, <1>4, <1>6
-----------------------------------------------------------------------------
(* A set of values that has what its lists and dicts contain.               *)
Closed(T) ==
  \A v \in T :
    \/ v[1] = "String" /\ v[2] \in Text
    \/ v[1] = "Bytes" /\ v[2] \in Strings \cap Binary
    \/ v[1] = "Integer" /\ v[2] \in Signed(Width)
    \/ v[1] = "List" /\ v[2] \in Seq(T)
    \/ v[1] = "Dict" /\ \A key \in DOMAIN v[2] : v[2][key] \in T

LEMMA ItemsType ==
  ASSUME NEW s \in Seq(Tokens), NEW n \in Nat, n = Len(s) + 1, NEW q \in 0..n, NEW d,
         Advances(s, q, d), NEW T, \A r \in q..n : d[r].status = "ok" => d[r].value \in T,
         Items(s, q, d).status = "ok"
  PROVE  Items(s, q, d).value \in Seq(T)
<1> DEFINE Done == {k \in 0..n : k >= q /\ Items(s, k, d).status = "ok" => Items(s, k, d).value \in Seq(T)}
<1>1. ASSUME NEW k \in 0..n, \A j \in (k + 1)..n : j \in Done PROVE k \in Done
  <2> SUFFICES ASSUME k >= q, Items(s, k, d).status = "ok" PROVE Items(s, k, d).value \in Seq(T)
    OBVIOUS
  <2>1. Advances(s, k, d)
    <3>1. q \in Nat /\ k \in q..n
      OBVIOUS
    <3> QED  BY <3>1, AdvancesLater
  <2>2. CASE Peek(s, k) = End
    <3>1. Items(s, k, d) = Ok(<<>>, k + 1)
      BY <2>1, <2>2, ItemsNext
    <3>2. Items(s, k, d).value = <<>>
      BY <3>1 DEF Ok
    <3> QED  BY <3>2
  <2>3. CASE Peek(s, k) # End
    <3>1. d[k].status = "ok" /\ d[k].at \in (k + 1)..n /\ Items(s, d[k].at, d).status = "ok"
      BY <2>1, <2>3, ItemsNext
    <3>2. PICK r : r = d[k].at
      OBVIOUS
    <3>3. Items(s, r, d).value \in Seq(T)
      BY <1>1, <3>1, <3>2
    <3>4. Prepends(s, k, d)
      BY <2>1, <2>3, <3>1, ItemsNext
    <3>5. Items(s, k, d).value = <<d[k].value>> \o Items(s, r, d).value
      BY <3>2, <3>4 DEF Ok, Prepends
    <3>6. d[k].value \in T
      BY <3>1
    <3>7. <<d[k].value>> \in Seq(T)
      BY <3>6
    <3> QED  BY <3>3, <3>5, <3>7
  <2> QED  BY <2>2, <2>3
<1> HIDE DEF Done
<1>2. q \in Done
  BY <1>1, DownInduction
<1> QED  BY <1>2 DEF Done

LEMMA EntriesType ==
  ASSUME NEW s \in Seq(Tokens), NEW n \in Nat, n = Len(s) + 1, NEW q \in 0..n, NEW d,
         Advances(s, q, d), NEW T, \A r \in q..n : d[r].status = "ok" => d[r].value \in T,
         Entries(s, q, d).status = "ok"
  PROVE  \A key \in DOMAIN Entries(s, q, d).value : Entries(s, q, d).value[key] \in T
<1> DEFINE Typed(k) == \A key \in DOMAIN Entries(s, k, d).value : Entries(s, k, d).value[key] \in T
           Done == {k \in 0..n : k >= q /\ Entries(s, k, d).status = "ok" => Typed(k)}
<1>1. ASSUME NEW k \in 0..n, \A j \in (k + 1)..n : j \in Done PROVE k \in Done
  <2> SUFFICES ASSUME k >= q, Entries(s, k, d).status = "ok" PROVE Typed(k)
    OBVIOUS
  <2>1. Advances(s, k, d)
    <3>1. q \in Nat /\ k \in q..n
      OBVIOUS
    <3> QED  BY <3>1, AdvancesLater
  <2>2. CASE Peek(s, k) = End
    <3>1. Entries(s, k, d) = Ok(NoEntry, k + 1)
      BY <2>1, <2>2, EntriesNext
    <3>2. Entries(s, k, d).value = NoEntry
      BY <3>1 DEF Ok
    <3>3. DOMAIN NoEntry = {}
      BY DEF NoEntry
    <3> QED  BY <3>2, <3>3
  <2>3. CASE Peek(s, k) # End
    <3>1. /\ ReadStr(s, k).status = "ok" /\ d[k + 1].status = "ok"
          /\ d[k + 1].at \in (k + 2)..n /\ Entries(s, d[k + 1].at, d).status = "ok"
          /\ k \in 1..Len(s)
      BY <2>1, <2>3, EntriesNext
    <3>2. PICK r : r = d[k + 1].at
      OBVIOUS
    <3>3. Typed(r)
      BY <1>1, <3>1, <3>2
    <3>4. Grows(s, k, d)
      BY <2>1, <2>3, <3>1, EntriesNext
    <3>5. PICK f : f = Entries(s, r, d).value
      OBVIOUS
    <3>6. Entries(s, k, d).value = f ++ Entry(s[k][2], d[k + 1].value)
      BY <3>2, <3>4, <3>5 DEF Ok, Grows
    <3>7. d[k + 1].value \in T
      <4>1. k + 1 \in q..n
        BY <3>1
      <4> QED  BY <3>1, <4>1
    <3>8. \A key \in DOMAIN f : f[key] \in T
      BY <3>3, <3>5
    <3>9. PICK g : g = Entry(s[k][2], d[k + 1].value)
      OBVIOUS
    <3>10. \A key \in DOMAIN g : g[key] \in T
      BY <3>7, <3>9 DEF Entry
    <3>11. \A key \in DOMAIN (f ++ g) : (f ++ g)[key] \in T
      BY <3>8, <3>10 DEF ++
    <3> QED  BY <3>6, <3>9, <3>11
  <2> QED  BY <2>2, <2>3
<1> HIDE DEF Done
<1>2. q \in Done
  BY <1>1, DownInduction
<1> QED  BY <1>2 DEF Done

(* The values of a stream.                                                  *)
ValuesOf(s) == {Value(s)[q].value : q \in {r \in 0..(Len(s) + 1) : Value(s)[r].status = "ok"}}

LEMMA ValuesAreClosed ==
  ASSUME NEW s \in Seq(Tokens)
  PROVE  Closed(ValuesOf(s))
<1>1. PICK n \in Nat : n = Len(s) + 1
  <2>1. Len(s) + 1 \in Nat
    OBVIOUS
  <2> QED  BY <2>1
<1>2. PICK d : d = Value(s)
  OBVIOUS
<1>3. PICK T : T = ValuesOf(s)
  OBVIOUS
<1>4. Advances(s, 0, d) /\ \A q \in 0..n : d[q] = ReadValue(s, q, d)
  BY <1>1, <1>2, ValueUnfolds
<1>5. T = {d[q].value : q \in {r \in 0..n : d[r].status = "ok"}}
  BY <1>1, <1>2, <1>3 DEF ValuesOf
<1>6. \A r \in 0..n : d[r].status = "ok" => d[r].value \in T
  BY <1>5
<1>7. ASSUME NEW q \in 0..n, ReadValue(s, q, d).status = "ok", NEW v, v = ReadValue(s, q, d).value
      PROVE  \/ v[1] = "String" /\ v[2] \in Text
             \/ v[1] = "Bytes" /\ v[2] \in Strings \cap Binary
             \/ v[1] = "Integer" /\ v[2] \in Signed(Width)
             \/ v[1] = "List" /\ v[2] \in Seq(T)
             \/ v[1] = "Dict" /\ \A key \in DOMAIN v[2] : v[2][key] \in T
  <2>1. \A x, r : Ok(x, r).value = x /\ Ok(x, r).status = "ok"
    BY DEF Ok
  <2>2. ASSUME Peek(s, q) \in {Dict, List}
        PROVE  /\ q + 1 \in 0..n /\ Advances(s, q + 1, d)
               /\ \A r \in (q + 1)..n : d[r].status = "ok" => d[r].value \in T
    <3>1. q \in 1..Len(s)
      BY <2>2, OpenIsToken
    <3>2. q + 1 \in 0..n /\ 0 \in Nat
      BY <1>1, <3>1
    <3>3. Advances(s, q + 1, d)
      BY <1>1, <1>4, <3>2, AdvancesLater
    <3> QED  BY <1>6, <3>2, <3>3
  <2>3. CASE Peek(s, q) = Dict
    <3>1. PICK r : r = Entries(s, q + 1, d)
      OBVIOUS
    <3>2. ReadValue(s, q, d) = As("Dict", r)
      BY <2>3, <3>1, ValueOfDict
    <3>3. r.status = "ok" /\ v = <<"Dict", r.value>>
      BY <1>7, <2>1, <3>2 DEF As
    <3>4. \A key \in DOMAIN r.value : r.value[key] \in T
      BY <1>1, <2>2, <2>3, <3>1, <3>3, EntriesType
    <3> QED  BY <3>3, <3>4
  <2>4. CASE Peek(s, q) = List
    <3>1. PICK r : r = Items(s, q + 1, d)
      OBVIOUS
    <3>2. ReadValue(s, q, d) = As("List", r)
      BY <2>4, <3>1, ValueOfList
    <3>3. r.status = "ok" /\ v = <<"List", r.value>>
      BY <1>7, <2>1, <3>2 DEF As
    <3>4. r.value \in Seq(T)
      BY <1>1, <2>2, <2>4, <3>1, <3>3, ItemsType
    <3> QED  BY <3>3, <3>4
  <2>5. CASE Peek(s, q)[1] = "s"
    <3>1. s[q][2] \in Strings
      BY <2>5, StrIsToken
    <3>2. ReadValue(s, q, d) = Ok(<<Variant(s[q][2]), s[q][2]>>, q + 1)
      BY <2>5, ValueOfString
    <3>3. v = <<Variant(s[q][2]), s[q][2]>>
      BY <1>7, <2>1, <3>2
    <3> QED  BY <3>1, <3>3 DEF Variant, Text
  <2>6. CASE Peek(s, q) \notin {Dict, List} /\ Peek(s, q)[1] # "s"
    <3>1. Peek(s, q)[1] = "i" /\ s[q][2] \in Signed(Width)
      BY <1>7, <2>6, NumberIsToken
    <3>2. ReadValue(s, q, d) = Ok(<<"Integer", s[q][2]>>, q + 1)
      BY <3>1, ValueOfNumber
    <3>3. v = <<"Integer", s[q][2]>>
      BY <1>7, <2>1, <3>2
    <3> QED  BY <3>1, <3>3
  <2> QED  BY <2>3, <2>4, <2>5, <2>6
<1>8. ASSUME NEW v \in T
      PROVE  \E q \in 0..n : ReadValue(s, q, d).status = "ok" /\ v = ReadValue(s, q, d).value
  BY <1>4, <1>5
<1>9. Closed(T)
  BY <1>7, <1>8 DEF Closed
<1> QED  BY <1>3, <1>9

(* What the fields of such values are read as.                              *)
LEMMA StringType ==
  ASSUME NEW T, Closed(T), NEW v \in T, StringFrom(v).status = "ok"
  PROVE  StringFrom(v).value \in Text
<1>1. v[1] = "String" \/ (v[1] = "Bytes" /\ v[2] \notin Binary)
  BY DEF StringFrom, Malformed
<1>2. StringFrom(v).value = v[2]
  BY <1>1 DEF StringFrom, Ok
<1> QED  BY <1>1, <1>2 DEF Closed

LEMMA NumberType ==
  ASSUME NEW T, Closed(T), NEW v \in T, U64From(v).status = "ok"
  PROVE  U64From(v).value \in Unsigned(Width)
<1>1. v[1] = "Integer"
  BY DEF U64From, IntegerFrom, Malformed
<1>2. U64From(v).value = v[2] % TwoTo[Width]
  BY <1>1 DEF U64From, IntegerFrom, Ok
<1>3. v[2] \in Signed(Width)
  BY <1>1 DEF Closed
<1>4. v[2] \in Int
  <2>1. PICK h \in Nat \ {0} : Signed(Width) = -h..(h - 1)
    BY Halves
  <2> QED  BY <1>3, <2>1
<1> QED  BY <1>2, <1>4, NumberIsUnsigned

LEMMA HashesType ==
  ASSUME NEW T, Closed(T), NEW v \in T, HashesFrom(v).status = "ok"
  PROVE  HashesFrom(v).value \in Hashes
<1>1. v[1] = "Bytes"
  BY DEF HashesFrom, Malformed
<1>2. v[2] \in Strings
  BY <1>1 DEF Closed
<1>3. HashesFrom(v).value = Sha1List(v[2])
  BY <1>1 DEF HashesFrom, Ok
<1>4. \A w \in DOMAIN Whole : Whole[w] \in Strings \ DOMAIN Whole
  BY MetaInfoAssumption DEF MetaInfoAssumption
<1>5. Sha1List(v[2]) \in Strings \ DOMAIN Whole
  BY <1>2, <1>4 DEF Sha1List
<1>6. Sha1List(Sha1List(v[2])) = Sha1List(v[2])
  BY <1>5 DEF Sha1List
<1> QED  BY <1>3, <1>5, <1>6 DEF Hashes

LEMMA FieldType ==
  ASSUME NEW T, Closed(T), NEW v \in T, NEW key, GetValue(v, key).status = "ok"
  PROVE  GetValue(v, key).value \in T
<1>1. v[1] = "Dict" /\ key \in DOMAIN v[2]
  BY DEF GetValue, Malformed, Missing
<1>2. GetValue(v, key).value = v[2][key]
  BY <1>1 DEF GetValue, Ok
<1> QED  BY <1>1, <1>2 DEF Closed

LEMMA StringFieldType ==
  ASSUME NEW T, Closed(T), NEW v \in T, NEW key, GetField(v, key, StringFrom).status = "ok"
  PROVE  GetField(v, key, StringFrom).value \in Text
<1>1. GetValue(v, key).status = "ok"
  BY DEF GetField, Then
<1>2. GetField(v, key, StringFrom) = StringFrom(GetValue(v, key).value)
  BY <1>1 DEF GetField, Then
<1> QED  BY <1>1, <1>2, FieldType, StringType

LEMMA NumberFieldType ==
  ASSUME NEW T, Closed(T), NEW v \in T, NEW key, GetField(v, key, U64From).status = "ok"
  PROVE  GetField(v, key, U64From).value \in Unsigned(Width)
<1>1. GetValue(v, key).status = "ok"
  BY DEF GetField, Then
<1>2. GetField(v, key, U64From) = U64From(GetValue(v, key).value)
  BY <1>1 DEF GetField, Then
<1> QED  BY <1>1, <1>2, FieldType, NumberType

LEMMA HashesFieldType ==
  ASSUME NEW T, Closed(T), NEW v \in T, NEW key, GetField(v, key, HashesFrom).status = "ok"
  PROVE  GetField(v, key, HashesFrom).value \in Hashes
<1>1. GetValue(v, key).status = "ok"
  BY DEF GetField, Then
<1>2. GetField(v, key, HashesFrom) = HashesFrom(GetValue(v, key).value)
  BY <1>1 DEF GetField, Then
<1> QED  BY <1>1, <1>2, FieldType, HashesType

LEMMA StringOptionType ==
  ASSUME NEW T, Closed(T), NEW v \in T, NEW key, GetOptionField(v, key, StringFrom).status = "ok"
  PROVE  GetOptionField(v, key, StringFrom).value \in Options
<1>1. \A x : Ok(x, 0).status = "ok" /\ Ok(x, 0).value = x
  BY DEF Ok
<1>2. v[1] = "Dict"
  <2>1. CASE v[1] # "Dict"
    <3>1. GetOptionValue(v, key).status # "ok"
      BY <2>1 DEF GetOptionValue, Malformed
    <3> QED  BY <3>1 DEF GetOptionField, Then
  <2> QED  BY <2>1
<1>3. CASE key \notin DOMAIN v[2]
  <2>1. GetOptionValue(v, key) = Ok(<<>>, 0)
    BY <1>2, <1>3 DEF GetOptionValue
  <2>2. GetOptionField(v, key, StringFrom) = Ok(<<>>, 0)
    BY <1>1, <2>1 DEF GetOptionField, Then
  <2> QED  BY <1>1, <2>2 DEF Options
<1>4. CASE key \in DOMAIN v[2]
  <2>1. PICK x : x = v[2][key]
    OBVIOUS
  <2>2. x \in T
    BY <1>2, <1>4, <2>1 DEF Closed
  <2>3. GetOptionValue(v, key) = Ok(<<x>>, 0) /\ <<x>> # <<>> /\ <<x>>[1] = x
    BY <1>2, <1>4, <2>1 DEF GetOptionValue
  <2>4. StringFrom(x).status = "ok"
    BY <1>1, <2>3 DEF GetOptionField, Then
  <2>5. GetOptionField(v, key, StringFrom) = Ok(<<StringFrom(x).value>>, 0)
    BY <1>1, <2>3, <2>4 DEF GetOptionField, Then
  <2>6. StringFrom(x).value \in Text
    BY <2>2, <2>4, StringType
  <2> QED  BY <1>1, <2>5, <2>6 DEF Options
<1> QED  BY <1>3, <1>4

LEMMA ListOf ==
  ASSUME NEW T, Closed(T), NEW v \in T, v[1] = "List"
  PROVE  \E n \in Nat : DOMAIN v[2] = 1..n /\ \A i \in 1..n : v[2][i] \in T
<1>1. v[2] \in Seq(T)
  BY DEF Closed
<1> QED  BY <1>1

LEMMA StringsType ==
  ASSUME NEW T, Closed(T), NEW v \in T, StringsFrom(v).status = "ok"
  PROVE  StringsFrom(v).value \in Seq(Text)
<1>1. v[1] = "List"
  BY DEF StringsFrom, ListFrom, Malformed
<1>2. PICK n \in Nat : DOMAIN v[2] = 1..n /\ \A i \in 1..n : v[2][i] \in T
  BY <1>1, ListOf
<1>3. PICK results : results = [i \in 1..n |-> StringFrom(v[2][i])]
  OBVIOUS
<1>4. StringsFrom(v) = Collect(results)
  BY <1>1, <1>2, <1>3 DEF StringsFrom, ListFrom
<1>5. \A i \in 1..n : results[i].status = "ok" => results[i].value \in Text
  BY <1>2, <1>3, StringType
<1>6. Len(results) = n
  <2>1. results = [i \in 1..n |-> results[i]]
    BY <1>3
  <2> QED  BY <2>1, FunctionIsSeq
<1> QED  BY <1>4, <1>5, <1>6, CollectedType

LEMMA FileInfoType ==
  ASSUME NEW T, Closed(T), NEW v \in T, FileInfoFrom(v).status = "ok"
  PROVE  FileInfoFrom(v).value \in FileInfos
<1>1. PICK l : l = GetField(v, "length", U64From)
  OBVIOUS
<1>2. PICK m : m = GetOptionField(v, "md5sum", StringFrom)
  OBVIOUS
<1>3. PICK p : p = GetField(v, "path", StringsFrom)
  OBVIOUS
<1>4. l.status = "ok" /\ m.status = "ok" /\ p.status = "ok"
  BY <1>1, <1>2, <1>3 DEF FileInfoFrom, Then
<1>5. FileInfoFrom(v) = Ok(FileInfo(l.value, m.value, p.value), 0)
  BY <1>1, <1>2, <1>3, <1>4 DEF FileInfoFrom, Then
<1>6. l.value \in Unsigned(Width)
  BY <1>1, <1>4, NumberFieldType
<1>7. m.value \in Options
  BY <1>2, <1>4, StringOptionType
<1>8. p.value \in Seq(Text)
  <2>1. GetValue(v, "path").status = "ok" /\ p = StringsFrom(GetValue(v, "path").value)
    BY <1>3, <1>4 DEF GetField, Then
  <2> QED  BY <1>4, <2>1, FieldType, StringsType
<1>9. FileInfo(l.value, m.value, p.value) \in FileInfos
  BY <1>6, <1>7, <1>8 DEF FileInfo, FileInfos
<1> QED  BY <1>5, <1>9 DEF Ok

LEMMA FilesType ==
  ASSUME NEW T, Closed(T), NEW v \in T, ListFrom(v, FileInfoFrom).status = "ok"
  PROVE  ListFrom(v, FileInfoFrom).value \in Seq(FileInfos)
<1>1. v[1] = "List"
  BY DEF ListFrom, Malformed
<1>2. PICK n \in Nat : DOMAIN v[2] = 1..n /\ \A i \in 1..n : v[2][i] \in T
  BY <1>1, ListOf
<1>3. PICK results : results = [i \in 1..n |-> FileInfoFrom(v[2][i])]
  OBVIOUS
<1>4. ListFrom(v, FileInfoFrom) = Collect(results)
  BY <1>1, <1>2, <1>3 DEF ListFrom
<1>5. \A i \in 1..n : results[i].status = "ok" => results[i].value \in FileInfos
  BY <1>2, <1>3, FileInfoType
<1>6. Len(results) = n
  <2>1. results = [i \in 1..n |-> results[i]]
    BY <1>3
  <2> QED  BY <2>1, FunctionIsSeq
<1> QED  BY <1>4, <1>5, <1>6, CollectedType

LEMMA TiersType ==
  ASSUME NEW T, Closed(T), NEW v \in T, ListFrom(v, StringsFrom).status = "ok"
  PROVE  ListFrom(v, StringsFrom).value \in Seq(Seq(Text))
<1>1. v[1] = "List"
  BY DEF ListFrom, Malformed
<1>2. PICK n \in Nat : DOMAIN v[2] = 1..n /\ \A i \in 1..n : v[2][i] \in T
  BY <1>1, ListOf
<1>3. PICK results : results = [i \in 1..n |-> StringsFrom(v[2][i])]
  OBVIOUS
<1>4. ListFrom(v, StringsFrom) = Collect(results)
  BY <1>1, <1>2, <1>3 DEF ListFrom
<1>5. \A i \in 1..n : results[i].status = "ok" => results[i].value \in Seq(Text)
  BY <1>2, <1>3, StringsType
<1>6. Len(results) = n
  <2>1. results = [i \in 1..n |-> results[i]]
    BY <1>3
  <2> QED  BY <2>1, FunctionIsSeq
<1> QED  BY <1>4, <1>5, <1>6, CollectedType

TiersFrom(v) == GetOptionField(v, "announce-list", LAMBDA l : ListFrom(l, StringsFrom))

LEMMA TiersOptionType ==
  ASSUME NEW T, Closed(T), NEW v \in T, TiersFrom(v).status = "ok"
  PROVE  TiersFrom(v).value \in TierLists
<1>1. \A x : Ok(x, 0).status = "ok" /\ Ok(x, 0).value = x
  BY DEF Ok
<1>2. PICK key : key = "announce-list"
  OBVIOUS
<1>3. PICK g : g = GetOptionValue(v, key)
  OBVIOUS
<1>4. v[1] = "Dict"
  <2>1. CASE v[1] # "Dict"
    <3>1. g.status # "ok"
      BY <1>3, <2>1 DEF GetOptionValue, Malformed
    <3> QED  BY <1>2, <1>3, <3>1 DEF TiersFrom, GetOptionField, Then
  <2> QED  BY <2>1
<1>5. CASE key \notin DOMAIN v[2]
  <2>1. g = Ok(<<>>, 0)
    BY <1>3, <1>4, <1>5 DEF GetOptionValue
  <2>2. TiersFrom(v) = Ok(<<>>, 0)
    BY <1>1, <1>2, <1>3, <2>1 DEF TiersFrom, GetOptionField, Then
  <2> QED  BY <1>1, <2>2 DEF TierLists
<1>6. CASE key \in DOMAIN v[2]
  <2>1. PICK x : x = v[2][key]
    OBVIOUS
  <2>2. x \in T
    BY <1>4, <1>6, <2>1 DEF Closed
  <2>3. g = Ok(<<x>>, 0) /\ <<x>> # <<>> /\ <<x>>[1] = x
    BY <1>3, <1>4, <1>6, <2>1 DEF GetOptionValue
  <2>4. PICK r : r = ListFrom(x, StringsFrom)
    OBVIOUS
  <2>5. TiersFrom(v) = IF r.status = "ok" THEN Ok(<<r.value>>, 0) ELSE r
    BY <1>1, <1>2, <1>3, <2>3, <2>4 DEF TiersFrom, GetOptionField, Then
  <2>6. r.status = "ok" /\ TiersFrom(v).value = <<r.value>>
    BY <1>1, <2>5
  <2>7. r.value \in Seq(Seq(Text))
    BY <2>2, <2>4, <2>6, TiersType
  <2> QED  BY <2>6, <2>7 DEF TierLists
<1> QED  BY <1>5, <1>6

LEMMA NamedType ==
  ASSUME NEW T, Closed(T), NEW v \in T, NamedFrom(v).status = "ok"
  PROVE  NamedFrom(v).value \in [name : Text, pieceLength : Unsigned(Width), pieces : Hashes]
<1>1. PICK a : a = GetField(v, "name", StringFrom)
  OBVIOUS
<1>2. PICK b : b = GetField(v, PieceLength, U64From)
  OBVIOUS
<1>3. PICK c : c = GetField(v, "pieces", HashesFrom)
  OBVIOUS
<1>4. a.status = "ok" /\ b.status = "ok" /\ c.status = "ok"
  BY <1>1, <1>2, <1>3 DEF NamedFrom, Then
<1>5. NamedFrom(v) = Ok(Named(a.value, b.value, c.value), 0)
  BY <1>1, <1>2, <1>3, <1>4 DEF NamedFrom, Then
<1>6. a.value \in Text
  BY <1>1, <1>4, StringFieldType
<1>7. b.value \in Unsigned(Width)
  BY <1>2, <1>4, NumberFieldType
<1>8. c.value \in Hashes
  BY <1>3, <1>4, HashesFieldType
<1>9. NamedFrom(v).value = Named(a.value, b.value, c.value)
  BY <1>5 DEF Ok
<1> QED  BY <1>6, <1>7, <1>8, <1>9 DEF Named

LEMMA InfoType ==
  ASSUME NEW T, Closed(T), NEW v \in T, InfoFrom(v).status = "ok"
  PROVE  InfoFrom(v).value \in SingleInfos \cup MultiInfos
<1>1. v[1] = "Dict"
  BY DEF InfoFrom, Malformed
<1>2. PICK named : named = NamedFrom(v)
  OBVIOUS
<1>3. ASSUME named.status = "ok"
      PROVE  named.value \in [name : Text, pieceLength : Unsigned(Width), pieces : Hashes]
  BY <1>2, <1>3, NamedType
<1>4. CASE "files" \notin DOMAIN v[2]
  <2>1. PICK l : l = GetField(v, "length", U64From)
    OBVIOUS
  <2>2. PICK m : m = GetOptionField(v, "md5sum", StringFrom)
    OBVIOUS
  <2>3. InfoFrom(v) =
          IF l.status = "ok"
          THEN IF m.status = "ok"
               THEN IF named.status = "ok" THEN Ok(SingleInfo(l.value, m.value, named.value), 0) ELSE named
               ELSE m
          ELSE l
    BY <1>1, <1>2, <1>4, <2>1, <2>2 DEF InfoFrom, Then
  <2>4. l.status = "ok" /\ m.status = "ok" /\ named.status = "ok"
    BY <2>3
  <2>5. InfoFrom(v).value = SingleInfo(l.value, m.value, named.value)
    BY <2>3, <2>4 DEF Ok
  <2>6. l.value \in Unsigned(Width)
    BY <2>1, <2>4, NumberFieldType
  <2>7. m.value \in Options
    BY <2>2, <2>4, StringOptionType
  <2>8. SingleInfo(l.value, m.value, named.value) \in SingleInfos
    BY <1>3, <2>4, <2>6, <2>7 DEF SingleInfo, SingleInfos
  <2> QED  BY <2>5, <2>8
<1>5. CASE "files" \in DOMAIN v[2]
  <2>1. PICK x : x = v[2]["files"]
    OBVIOUS
  <2>2. x \in T
    BY <1>1, <1>5, <2>1 DEF Closed
  <2>3. PICK l : l = ListFrom(x, FileInfoFrom)
    OBVIOUS
  <2>4. GetValue(v, "files") = Ok(x, 0)
    BY <1>1, <1>5, <2>1 DEF GetValue
  <2>5. InfoFrom(v) =
          IF l.status = "ok"
          THEN IF named.status = "ok" THEN Ok(MultiInfo(l.value, named.value), 0) ELSE named
          ELSE l
    <3>1. Ok(x, 0).status = "ok" /\ Ok(x, 0).value = x
      BY DEF Ok
    <3> QED  BY <1>1, <1>2, <1>5, <2>3, <2>4, <3>1 DEF InfoFrom, GetField, Then
  <2>6. l.status = "ok" /\ named.status = "ok"
    BY <2>5
  <2>7. InfoFrom(v).value = MultiInfo(l.value, named.value)
    BY <2>5, <2>6 DEF Ok
  <2>8. l.value \in Seq(FileInfos)
    BY <2>2, <2>3, <2>6, FilesType
  <2>9. MultiInfo(l.value, named.value) \in MultiInfos
    BY <1>3, <2>6, <2>8 DEF MultiInfo, MultiInfos
  <2> QED  BY <2>7, <2>9
<1> QED  BY <1>4, <1>5

LEMMA MetaInfoType ==
  ASSUME NEW T, Closed(T), NEW v \in T, MetaInfoFrom(v).status = "ok"
  PROVE  MetaInfoFrom(v).value \in MetaInfos
<1>1. PICK i : i = GetField(v, "info", InfoFrom)
  OBVIOUS
<1>2. PICK a : a = GetOptionField(v, "announce", StringFrom)
  OBVIOUS
<1>3. PICK l : l = TiersFrom(v)
  OBVIOUS
<1>4. PICK c : c = GetOptionField(v, "comment", StringFrom)
  OBVIOUS
<1>5. PICK b : b = GetOptionField(v, CreatedBy, StringFrom)
  OBVIOUS
<1>6. PICK e : e = GetOptionField(v, "encoding", StringFrom)
  OBVIOUS
<1>7. MetaInfoFrom(v) =
        IF i.status = "ok"
        THEN IF a.status = "ok"
             THEN IF l.status = "ok"
                  THEN IF c.status = "ok"
                       THEN IF b.status = "ok"
                            THEN IF e.status = "ok"
                                 THEN Ok(TorrentMetaInfo(i.value, a.value, l.value, c.value, b.value, e.value), 0)
                                 ELSE e
                            ELSE b
                       ELSE c
                  ELSE l
             ELSE a
        ELSE i
  BY <1>1, <1>2, <1>3, <1>4, <1>5, <1>6 DEF MetaInfoFrom, Then, TiersFrom
<1>8. /\ i.status = "ok" /\ a.status = "ok" /\ l.status = "ok"
      /\ c.status = "ok" /\ b.status = "ok" /\ e.status = "ok"
  BY <1>7
<1>9. MetaInfoFrom(v).value = TorrentMetaInfo(i.value, a.value, l.value, c.value, b.value, e.value)
  BY <1>7, <1>8 DEF Ok
<1>10. i.value \in SingleInfos \cup MultiInfos
  <2>1. GetValue(v, "info").status = "ok" /\ i = InfoFrom(GetValue(v, "info").value)
    BY <1>1, <1>8 DEF GetField, Then
  <2> QED  BY <1>8, <2>1, FieldType, InfoType
<1>11. a.value \in Options
  BY <1>2, <1>8, StringOptionType
<1>12. l.value \in TierLists
  BY <1>3, <1>8, TiersOptionType
<1>13. c.value \in Options
  BY <1>4, <1>8, StringOptionType
<1>14. b.value \in Options
  BY <1>5, <1>8, StringOptionType
<1>15. e.value \in Options
  BY <1>6, <1>8, StringOptionType
<1>16. TorrentMetaInfo(i.value, a.value, l.value, c.value, b.value, e.value) \in MetaInfos
  BY <1>10, <1>11, <1>12, <1>13, <1>14, <1>15 DEF TorrentMetaInfo, MetaInfos
<1> QED  BY <1>9, <1>16

(* Whatever stream it is that the parser accepts (TorrentMetaInfo::parse),  *)
(* the record has whole hashes, texts for names and lengths of 64 bits.     *)
THEOREM ParseType ==
  ASSUME NEW s \in Seq(Tokens), Parse(s).status = "ok"
  PROVE  Parse(s).value \in MetaInfos
<1>1. DecodeValue(s, 1).status = "ok" /\ Parse(s) = MetaInfoFrom(DecodeValue(s, 1).value)
  BY DEF Parse, Then
<1>2. 1 \in 0..(Len(s) + 1)
  OBVIOUS
<1>3. DecodeValue(s, 1).value \in ValuesOf(s)
  BY <1>1, <1>2 DEF ValuesOf, DecodeValue
<1>4. Closed(ValuesOf(s))
  BY ValuesAreClosed
<1> QED  BY <1>1, <1>3, <1>4, MetaInfoType
-----------------------------------------------------------------------------
(* The tokens p, wherever a stream has them, are read as the value v.       *)
At(s, q, p) ==
  /\ q \in Nat /\ q + Len(p) <= Len(s) + 1
  /\ \A x \in 1..Len(p) : (q - 1) + x \in 1..Len(s) /\ s[(q - 1) + x] = p[x]

Decodes(p, v) ==
  /\ p \in Seq(Tokens) /\ p # <<>> /\ p[1] # End
  /\ \A s \in Seq(Tokens) : \A q \in Nat : At(s, q, p) => Value(s)[q] = Ok(v, q + Len(p))

LEMMA FirstAt ==
  ASSUME NEW s \in Seq(Tokens), NEW q \in Nat, NEW p \in Seq(Tokens), p # <<>>, At(s, q, p)
  PROVE  q \in 1..Len(s) /\ Peek(s, q) = p[1] /\ s[q] = p[1]
<1>1. 1 \in 1..Len(p)
  OBVIOUS
<1>2. (q - 1) + 1 \in 1..Len(s) /\ s[(q - 1) + 1] = p[1]
  BY <1>1 DEF At
<1>3. (q - 1) + 1 = q
  OBVIOUS
<1>4. q \in 1..Len(s) /\ s[q] = p[1]
  BY <1>2, <1>3
<1> QED  BY <1>4 DEF Peek

LEMMA ValueAt ==
  ASSUME NEW s \in Seq(Tokens), NEW q \in 1..Len(s)
  PROVE  Value(s)[q] = ReadValue(s, q, Value(s))
<1>1. Len(s) + 1 \in Nat /\ q \in 0..(Len(s) + 1)
  OBVIOUS
<1> QED  BY <1>1, ValueUnfolds

LEMMA StringDecodes ==
  ASSUME NEW w \in Strings
  PROVE  Decodes(<<Str(w)>>, <<Variant(w), w>>)
<1>1. PICK p : p = <<Str(w)>>
  OBVIOUS
<1>2. p \in Seq(Tokens) /\ Len(p) = 1 /\ p # <<>> /\ p[1] = Str(w)
  <2>1. Str(w) \in Tokens
    BY DEF Str, Tokens
  <2> QED  BY <1>1, <2>1
<1>3. Str(w)[1] = "s" /\ Str(w)[2] = w /\ Str(w) # End
  BY DEF Str, End
<1>4. ASSUME NEW s \in Seq(Tokens), NEW q \in Nat, At(s, q, p)
      PROVE  Value(s)[q] = Ok(<<Variant(w), w>>, q + Len(p))
  <2>1. q \in 1..Len(s) /\ Peek(s, q) = Str(w) /\ s[q] = Str(w)
    BY <1>2, <1>4, FirstAt
  <2>2. Value(s)[q] = ReadValue(s, q, Value(s))
    BY <2>1, ValueAt
  <2>3. ReadValue(s, q, Value(s)) = Ok(<<Variant(s[q][2]), s[q][2]>>, q + 1)
    BY <1>3, <2>1, ValueOfString
  <2> QED  BY <1>2, <1>3, <2>1, <2>2, <2>3
<1>5. Decodes(p, <<Variant(w), w>>)
  BY <1>2, <1>3, <1>4 DEF Decodes
<1> QED  BY <1>1, <1>5

LEMMA NumberDecodes ==
  ASSUME NEW k \in Signed(Width)
  PROVE  Decodes(<<Num(k)>>, <<"Integer", k>>)
<1>1. PICK p : p = <<Num(k)>>
  OBVIOUS
<1>2. p \in Seq(Tokens) /\ Len(p) = 1 /\ p # <<>> /\ p[1] = Num(k)
  <2>1. k \in Int
    <3>1. PICK h \in Nat \ {0} : Signed(Width) = -h..(h - 1)
      BY Halves
    <3> QED  BY <3>1
  <2>2. Num(k) \in Tokens
    BY <2>1 DEF Num, Tokens
  <2> QED  BY <1>1, <2>2
<1>3. Num(k)[1] = "i" /\ Num(k)[2] = k /\ Num(k) # End
  BY DEF Num, End
<1>4. ASSUME NEW s \in Seq(Tokens), NEW q \in Nat, At(s, q, p)
      PROVE  Value(s)[q] = Ok(<<"Integer", k>>, q + Len(p))
  <2>1. q \in 1..Len(s) /\ Peek(s, q) = Num(k) /\ s[q] = Num(k)
    BY <1>2, <1>4, FirstAt
  <2>2. Value(s)[q] = ReadValue(s, q, Value(s))
    BY <2>1, ValueAt
  <2>3. ReadValue(s, q, Value(s)) = Ok(<<"Integer", s[q][2]>>, q + 1)
    BY <1>3, <2>1, ValueOfNumber
  <2> QED  BY <1>2, <1>3, <2>1, <2>2, <2>3
<1>5. Decodes(p, <<"Integer", k>>)
  BY <1>2, <1>3, <1>4 DEF Decodes
<1> QED  BY <1>1, <1>5

(* What is between the opening of a list or a dict and its end.             *)
Encloses(p, open, whole) ==
  /\ p \in Seq(Tokens) /\ Len(p) = Len(whole) + 2 /\ p[1] = open /\ p # <<>>
  /\ \A x \in 1..Len(whole) : p[x + 1] = whole[x]
  /\ p[Len(whole) + 2] = End

LEMMA Inside ==
  ASSUME NEW open \in Tokens, NEW whole \in Seq(Tokens)
  PROVE  Encloses(<<open>> \o whole \o <<End>>, open, whole)
<1>1. PICK l \in Nat : l = Len(whole)
  OBVIOUS
<1>2. End \in Tokens
  BY DEF Tokens
<1>3. PICK a : a = <<open>> \o whole
  OBVIOUS
<1>4. /\ a \in Seq(Tokens) /\ Len(a) = l + 1 /\ a[1] = open
      /\ \A x \in 1..l : a[x + 1] = whole[x]
  <2>1. <<open>> \in Seq(Tokens) /\ Len(<<open>>) = 1 /\ <<open>>[1] = open
    OBVIOUS
  <2> QED  BY <1>1, <1>3, <2>1
<1>5. PICK p : p = a \o <<End>>
  OBVIOUS
<1>6. /\ p \in Seq(Tokens) /\ Len(p) = l + 2
      /\ \A x \in 1..(l + 1) : p[x] = a[x]
      /\ p[l + 2] = End
  <2>1. <<End>> \in Seq(Tokens) /\ Len(<<End>>) = 1 /\ <<End>>[1] = End
    BY <1>2
  <2> QED  BY <1>4, <1>5, <2>1
<1>7. p[1] = open /\ \A x \in 1..l : p[x + 1] = whole[x]
  <2>1. \A x \in 1..l : x + 1 \in 1..(l + 1)
    OBVIOUS
  <2>2. 1 \in 1..(l + 1)
    OBVIOUS
  <2> QED  BY <1>4, <1>6, <2>1, <2>2
<1>8. p = <<open>> \o whole \o <<End>>
  BY <1>3, <1>5
<1>9. p # <<>>
  BY <1>6
<1>10. Len(p) = Len(whole) + 2 /\ p[Len(whole) + 2] = End
  BY <1>1, <1>6
<1>11. \A x \in 1..Len(whole) : p[x + 1] = whole[x]
  BY <1>1, <1>7
<1>12. Encloses(p, open, whole)
  BY <1>6, <1>7, <1>9, <1>10, <1>11 DEF Encloses
<1> QED  BY <1>8, <1>12

LEMMA EndAt ==
  ASSUME NEW whole \in Seq(Tokens), NEW open, NEW p, Encloses(p, open, whole),
         NEW s \in Seq(Tokens), NEW q \in Nat, At(s, q, p)
  PROVE  /\ (q + 1) + Len(whole) \in 1..Len(s) /\ Peek(s, (q + 1) + Len(whole)) = End
         /\ q \in 1..Len(s) /\ Peek(s, q) = open /\ (q + 1) \in 1..Len(s)
<1>1. PICK l \in Nat, n \in Nat : l = Len(whole) /\ n = Len(s)
  <2>1. Len(whole) \in Nat /\ Len(s) \in Nat
    OBVIOUS
  <2> QED  BY <2>1
<1>2. Len(p) = l + 2 /\ p[l + 2] = End
  BY <1>1 DEF Encloses
<1>3. l + 2 \in 1..Len(p)
  BY <1>2
<1>4. (q - 1) + (l + 2) \in 1..n /\ s[(q - 1) + (l + 2)] = End
  BY <1>1, <1>2, <1>3 DEF At
<1>5. (q - 1) + (l + 2) = (q + 1) + l
  OBVIOUS
<1>6. q \in 1..n /\ Peek(s, q) = open
  BY <1>1, FirstAt DEF Encloses
<1>7. q + 1 \in 1..n
  BY <1>4, <1>6
<1> QED  BY <1>1, <1>4, <1>5, <1>6, <1>7 DEF Peek

LEMMA PartAt ==
  ASSUME NEW n \in Nat, NEW parts \in [1..n -> Seq(Tokens)], NEW whole \in Seq(Tokens), NEW start,
         Follow(parts, n, start, whole), NEW open, NEW p, Encloses(p, open, whole),
         NEW s \in Seq(Tokens), NEW q \in Nat, At(s, q, p), NEW i \in 1..n
  PROVE  At(s, (q + 1) + start[i], parts[i])
<1>1. PICK l \in Nat, a \in Nat, b \in Nat, m \in Nat :
         l = Len(whole) /\ a = start[i] /\ b = Len(parts[i]) /\ m = Len(s)
  <2>1. Len(whole) \in Nat /\ Len(parts[i]) \in Nat /\ Len(s) \in Nat
    OBVIOUS
  <2>2. i \in 1..(n + 1)
    OBVIOUS
  <2>3. start[i] \in Nat
    BY <2>2 DEF Follow
  <2> QED  BY <2>1, <2>3
<1>2. a + b <= l /\ \A x \in 1..b : whole[a + x] = parts[i][x]
  BY <1>1 DEF Follow
<1>3. Len(p) = l + 2 /\ \A x \in 1..l : p[x + 1] = whole[x]
  BY <1>1 DEF Encloses
<1>4. q + (l + 2) <= m + 1
  BY <1>1, <1>3 DEF At
<1>5. ASSUME NEW x \in 1..b
      PROVE  (((q + 1) + a) - 1) + x \in 1..m /\ s[(((q + 1) + a) - 1) + x] = parts[i][x]
  <2>1. PICK y \in Nat : y = a + x
    OBVIOUS
  <2>2. y \in 1..l /\ y + 1 \in 1..(l + 2)
    <3>1. a + b <= l
      BY <1>2
    <3> QED  BY <2>1, <3>1
  <2>3. p[y + 1] = parts[i][x]
    BY <1>2, <1>3, <2>1, <2>2
  <2>4. (q - 1) + (y + 1) \in 1..m /\ s[(q - 1) + (y + 1)] = p[y + 1]
    BY <1>1, <1>3, <2>2 DEF At
  <2>5. (((q + 1) + a) - 1) + x = (q - 1) + (y + 1)
    BY <2>1
  <2> QED  BY <2>3, <2>4, <2>5
<1>6. ((q + 1) + a) \in Nat /\ ((q + 1) + a) + b <= m + 1
  BY <1>2, <1>4
<1>7. PICK r : r = (q + 1) + a
  OBVIOUS
<1>8. r \in Nat /\ r + Len(parts[i]) <= Len(s) + 1
  BY <1>1, <1>6, <1>7
<1>9. \A x \in 1..Len(parts[i]) : (r - 1) + x \in 1..Len(s) /\ s[(r - 1) + x] = parts[i][x]
  BY <1>1, <1>5, <1>7
<1>10. At(s, r, parts[i])
  BY <1>8, <1>9 DEF At
<1> QED  BY <1>1, <1>7, <1>10

(* A list is read from its items one behind the other.                      *)
LEMMA ListDecodes ==
  ASSUME NEW n \in Nat, NEW parts \in [1..n -> Seq(Tokens)], NEW V, NEW vals \in Seq(V), Len(vals) = n,
         \A i \in 1..n : Decodes(parts[i], vals[i])
  PROVE  Decodes(<<List>> \o FlattenSeq(parts) \o <<End>>, <<"List", vals>>)
<1>1. PICK whole, start :
         whole \in Seq(Tokens) /\ whole = FlattenSeq(parts) /\ Follow(parts, n, start, whole)
  <2>1. FlattenSeq(parts) \in Seq(Tokens) /\ \E start : Follow(parts, n, start, FlattenSeq(parts))
    BY FlattenParts
  <2> QED  BY <2>1
<1>2. PICK p : p = <<List>> \o FlattenSeq(parts) \o <<End>>
  OBVIOUS
<1>3. Encloses(p, List, whole)
  <2>1. List \in Tokens
    BY DEF Tokens
  <2> QED  BY <1>1, <1>2, <2>1, Inside
<1>4. p \in Seq(Tokens) /\ p # <<>> /\ p[1] = List /\ List # End
  BY <1>3 DEF Encloses, List, End
<1>5. ASSUME NEW s \in Seq(Tokens), NEW q \in Nat, At(s, q, p)
      PROVE  Value(s)[q] = Ok(<<"List", vals>>, q + Len(p))
  <2>1. PICK d, l, m : d = Value(s) /\ l \in Nat /\ l = Len(whole) /\ m \in Nat /\ m = Len(s) + 1
    <3>1. Len(whole) \in Nat /\ Len(s) + 1 \in Nat
      BY <1>1
    <3> QED  BY <3>1
  <2>2. /\ (q + 1) + l \in 1..Len(s) /\ Peek(s, (q + 1) + l) = End
        /\ q \in 1..Len(s) /\ Peek(s, q) = List
    BY <1>1, <1>3, <1>5, <2>1, EndAt
  <2>3. Advances(s, 0, d)
    BY <2>1, ValueUnfolds
  <2>4. ASSUME NEW i \in 1..(n + 1)
        PROVE  start[i] \in Nat /\ (q + 1) + start[i] \in 0..m
    <3>1. start[i] \in Nat /\ start[i] <= l
      <4>1. start[i] \in Nat
        BY <1>1 DEF Follow
      <4>2. CASE i = n + 1
        BY <1>1, <2>1, <4>2, <4>1 DEF Follow
      <4>3. CASE i # n + 1
        <5>1. i \in 1..n
          BY <4>3
        <5>2. Len(parts[i]) \in Nat
          BY <5>1
        <5>3. start[i] + Len(parts[i]) <= l
          <6>1. start[i + 1] = start[i] + Len(parts[i]) /\ start[i + 1] <= Len(whole)
            BY <1>1, <5>1 DEF Follow
          <6> QED  BY <2>1, <6>1
        <5> QED  BY <2>1, <4>1, <5>2, <5>3
      <4>4. start[i] <= l
        BY <4>2, <4>3
      <4> QED  BY <4>1, <4>4
    <3> QED  BY <2>1, <2>2, <3>1
  <2> DEFINE Reads(i) == Items(s, (q + 1) + start[i], d) = Ok(RestOf(vals, i), (q + l) + 2)
             Done == {k \in 0..n : Reads(k + 1)}
  <2>5. ASSUME NEW k \in 0..n, \A j \in (k + 1)..n : j \in Done PROVE k \in Done
    <3>1. PICK r \in Nat : r = (q + 1) + start[k + 1] /\ r \in 0..m
      <4>1. k + 1 \in 1..(n + 1)
        OBVIOUS
      <4> QED  BY <2>4, <4>1
    <3>2. Advances(s, r, d)
      <4>1. 0 \in Nat /\ r \in 0..m
        BY <3>1
      <4> QED  BY <2>1, <2>3, <4>1, AdvancesLater
    <3>3. CASE k = n
      <4>1. start[n + 1] = l
        BY <2>1, <1>1 DEF Follow
      <4>2. r = (q + 1) + l
        BY <3>1, <3>3, <4>1
      <4>3. Items(s, r, d) = Ok(<<>>, r + 1)
        BY <2>1, <2>2, <3>1, <3>2, <4>2, ItemsNext
      <4>4. RestOf(vals, n + 1) = <<>>
        BY RestAtEnd
      <4>5. r + 1 = (q + l) + 2
        BY <2>1, <4>2
      <4> QED  BY <3>1, <3>3, <4>3, <4>4, <4>5
    <3>4. CASE k # n
      <4>1. PICK i \in 1..n : i = k + 1 /\ k + 1 \in (k + 1)..n
        BY <3>4
      <4>2. Reads(i + 1)
        BY <2>5, <4>1
      <4>3. At(s, r, parts[i])
        BY <1>1, <1>3, <1>5, <3>1, <4>1, PartAt
      <4>4. Decodes(parts[i], vals[i])
        BY <4>1
      <4>5. d[r] = Ok(vals[i], r + Len(parts[i]))
        BY <2>1, <4>3, <4>4 DEF Decodes
      <4>6. Peek(s, r) # End
        BY <4>3, <4>4, FirstAt DEF Decodes
      <4>7. start[i + 1] = start[i] + Len(parts[i])
        BY <1>1 DEF Follow
      <4>8. r + Len(parts[i]) = (q + 1) + start[i + 1]
        <5>1. Len(parts[i]) \in Nat /\ start[i] \in Nat
          <6>1. i \in 1..(n + 1)
            OBVIOUS
          <6> QED  BY <2>4, <6>1
        <5> QED  BY <3>1, <4>1, <4>7, <5>1
      <4>9. d[r].status = "ok" /\ d[r].value = vals[i] /\ d[r].at = (q + 1) + start[i + 1]
        BY <4>5, <4>8 DEF Ok
      <4>10. PICK t : t = Items(s, (q + 1) + start[i + 1], d)
        OBVIOUS
      <4>11. t = Ok(RestOf(vals, i + 1), (q + l) + 2)
        BY <4>2, <4>10
      <4>12. t.status = "ok" /\ t.value = RestOf(vals, i + 1) /\ t.at = (q + l) + 2
        BY <4>11 DEF Ok
      <4>13. Prepends(s, r, d)
        <5>1. Items(s, d[r].at, d).status = "ok"
          BY <4>9, <4>10, <4>12
        <5> QED  BY <2>1, <3>1, <3>2, <4>6, <4>9, <5>1, ItemsNext
      <4>14. Items(s, r, d) = Ok(<<vals[i]>> \o RestOf(vals, i + 1), (q + l) + 2)
        BY <4>9, <4>10, <4>12, <4>13 DEF Prepends
      <4>15. <<vals[i]>> \o RestOf(vals, i + 1) = RestOf(vals, i)
        BY RestAtNext
      <4> QED  BY <3>1, <4>1, <4>14, <4>15
    <3> QED  BY <3>3, <3>4
  <2> HIDE DEF Done
  <2>6. 0 \in Done
    <3>1. \A j \in 0..n : j \in Done
      BY <2>5, DownInduction
    <3> QED  BY <3>1
  <2>7. Items(s, q + 1, d) = Ok(vals, (q + l) + 2)
    <3>1. Items(s, (q + 1) + start[1], d) = Ok(RestOf(vals, 1), (q + l) + 2)
      <4>1. 0 + 1 = 1
        OBVIOUS
      <4> QED  BY <2>6, <4>1 DEF Done
    <3>2. start[1] = 0 /\ (q + 1) + 0 = q + 1
      BY <1>1 DEF Follow
    <3>3. RestOf(vals, 1) = vals
      BY RestAtEnd
    <3> QED  BY <3>1, <3>2, <3>3
  <2>8. d[q] = As("List", Items(s, q + 1, d))
    <3>1. d[q] = ReadValue(s, q, d)
      BY <2>1, <2>2, ValueAt
    <3> QED  BY <2>2, <3>1, ValueOfList
  <2>9. d[q] = Ok(<<"List", vals>>, (q + l) + 2)
    <3>1. PICK t : t = Items(s, q + 1, d)
      OBVIOUS
    <3>2. t.status = "ok" /\ t.value = vals /\ t.at = (q + l) + 2
      BY <2>7, <3>1 DEF Ok
    <3> QED  BY <2>8, <3>1, <3>2 DEF As
  <2>10. q + Len(p) = (q + l) + 2
    BY <1>3, <2>1 DEF Encloses
  <2> QED  BY <2>1, <2>9, <2>10
<1>6. Decodes(p, <<"List", vals>>)
  BY <1>4, <1>5 DEF Decodes
<1> QED  BY <1>2, <1>6

LEMMA AtBoth ==
  ASSUME NEW s \in Seq(Tokens), NEW q \in Nat, NEW t \in Tokens, NEW b \in Seq(Tokens),
         At(s, q, <<t>> \o b)
  PROVE  /\ q \in 1..Len(s) /\ s[q] = t /\ Peek(s, q) = t
         /\ At(s, q + 1, b) /\ Len(<<t>> \o b) = Len(b) + 1
<1>1. PICK p : p = <<t>> \o b
  OBVIOUS
<1>2. PICK l, m : l \in Nat /\ l = Len(b) /\ m \in Nat /\ m = Len(s)
  <2>1. Len(b) \in Nat /\ Len(s) \in Nat
    OBVIOUS
  <2> QED  BY <2>1
<1>3. p \in Seq(Tokens) /\ Len(p) = l + 1 /\ p[1] = t /\ \A x \in 1..l : p[x + 1] = b[x]
  <2>1. <<t>> \in Seq(Tokens) /\ Len(<<t>>) = 1 /\ <<t>>[1] = t
    OBVIOUS
  <2> QED  BY <1>1, <1>2, <2>1
<1>4. p # <<>>
  BY <1>2, <1>3
<1>5. q \in 1..Len(s) /\ s[q] = t /\ Peek(s, q) = t
  BY <1>1, <1>3, <1>4, FirstAt
<1>6. q + (l + 1) <= m + 1
  BY <1>1, <1>2, <1>3 DEF At
<1>7. ASSUME NEW x \in 1..l
      PROVE  ((q + 1) - 1) + x \in 1..m /\ s[((q + 1) - 1) + x] = b[x]
  <2>1. x + 1 \in 1..(l + 1)
    BY <1>2
  <2>2. (q - 1) + (x + 1) \in 1..m /\ s[(q - 1) + (x + 1)] = p[x + 1]
    BY <1>1, <1>2, <1>3, <2>1 DEF At
  <2>3. ((q + 1) - 1) + x = (q - 1) + (x + 1)
    BY <1>2
  <2> QED  BY <1>3, <2>2, <2>3
<1>8. At(s, q + 1, b)
  <2>1. q + 1 \in Nat /\ (q + 1) + l <= m + 1
    BY <1>2, <1>6
  <2> QED  BY <1>2, <1>7, <2>1 DEF At
<1> QED  BY <1>1, <1>2, <1>3, <1>5, <1>8

LEMMA TextAt ==
  ASSUME NEW s \in Seq(Tokens), NEW q \in 1..Len(s), NEW w \in Text, Peek(s, q) = Str(w), s[q] = Str(w)
  PROVE  ReadStr(s, q).status = "ok" /\ s[q][2] = w /\ Peek(s, q) # End
<1>1. Str(w)[1] = "s" /\ Str(w)[2] = w /\ Str(w) # End
  BY DEF Str, End
<1>2. ReadByteString(s, q) = Ok(w, q + 1)
  BY <1>1 DEF ReadByteString
<1>3. ReadByteString(s, q).status = "ok" /\ ReadByteString(s, q).value = w
  BY <1>2 DEF Ok
<1>4. ReadStr(s, q) = ReadByteString(s, q)
  BY <1>3 DEF ReadStr, Text
<1> QED  BY <1>1, <1>3, <1>4

(* The entries of f from word i on.                                         *)
EntriesFrom(f, i) == [w \in {Words[j] : j \in i..Len(Words)} \cap DOMAIN f |-> f[w]]

LEMMA EntriesFromNext ==
  ASSUME NEW f, NEW n \in Nat, n = Len(Words), NEW i \in 1..n
  PROVE  /\ Words[i] \notin DOMAIN f => EntriesFrom(f, i) = EntriesFrom(f, i + 1)
         /\ Words[i] \in DOMAIN f =>
              EntriesFrom(f, i + 1) ++ Entry(Words[i], f[Words[i]]) = EntriesFrom(f, i)
<1>1. \A j, k \in 1..n : Words[j] = Words[k] => j = k
  <2>1. DOMAIN Words = 1..n
    BY BencodeAssumption DEF BencodeAssumption
  <2> QED  BY <2>1, BencodeAssumption DEF BencodeAssumption
<1>2. PICK later : later = {Words[j] : j \in (i + 1)..n}
  OBVIOUS
<1>3. {Words[j] : j \in i..n} = later \cup {Words[i]}
  <2>1. \A j \in i..n : j = i \/ j \in (i + 1)..n
    OBVIOUS
  <2>2. i \in i..n /\ \A j \in (i + 1)..n : j \in i..n
    OBVIOUS
  <2> QED  BY <1>2, <2>1, <2>2
<1>4. Words[i] \notin later
  <2>1. ASSUME NEW j \in (i + 1)..n PROVE Words[j] # Words[i]
    <3>1. j \in 1..n /\ j # i
      OBVIOUS
    <3> QED  BY <1>1, <3>1
  <2> QED  BY <1>2, <2>1
<1>5. EntriesFrom(f, i) = [w \in (later \cup {Words[i]}) \cap DOMAIN f |-> f[w]]
  BY <1>3 DEF EntriesFrom
<1>6. EntriesFrom(f, i + 1) = [w \in later \cap DOMAIN f |-> f[w]]
  BY <1>2 DEF EntriesFrom
<1>7. CASE Words[i] \notin DOMAIN f
  <2>1. (later \cup {Words[i]}) \cap DOMAIN f = later \cap DOMAIN f
    BY <1>7
  <2> QED  BY <1>5, <1>6, <1>7, <2>1
<1>8. CASE Words[i] \in DOMAIN f
  <2>1. PICK e, g : e = EntriesFrom(f, i + 1) /\ g = Entry(Words[i], f[Words[i]])
    OBVIOUS
  <2>2. DOMAIN e = later \cap DOMAIN f /\ \A w \in later \cap DOMAIN f : e[w] = f[w]
    BY <1>6, <2>1
  <2>3. DOMAIN g = {Words[i]} /\ g[Words[i]] = f[Words[i]]
    BY <2>1 DEF Entry
  <2>4. (later \cup {Words[i]}) \cap DOMAIN f = DOMAIN e \cup DOMAIN g
    BY <1>8, <2>2, <2>3
  <2>5. \A w \in DOMAIN e \cup DOMAIN g : (IF w \in DOMAIN e THEN e[w] ELSE g[w]) = f[w]
    BY <2>2, <2>3
  <2>6. e ++ g = [w \in DOMAIN e \cup DOMAIN g |-> f[w]]
    BY <2>5 DEF ++
  <2> QED  BY <1>5, <1>8, <2>1, <2>4, <2>6
<1> QED  BY <1>7, <1>8

LEMMA EntriesFromEnds ==
  ASSUME NEW f, f = [w \in DOMAIN f |-> f[w]], DOMAIN f \subseteq Strings
  PROVE  EntriesFrom(f, Len(Words) + 1) = NoEntry /\ EntriesFrom(f, 1) = f
<1>1. PICK n : n \in Nat /\ n = Len(Words) /\ DOMAIN Words = 1..n
  <2>1. Words \in Seq(Strings)
    BY BencodeAssumption DEF BencodeAssumption
  <2> QED  BY <2>1
<1>2. EntriesFrom(f, n + 1) = NoEntry
  <2>1. {Words[j] : j \in (n + 1)..n} \cap DOMAIN f = {}
    <3>1. (n + 1)..n = {}
      BY <1>1
    <3> QED  BY <3>1
  <2> QED  BY <1>1, <2>1 DEF EntriesFrom, NoEntry
<1>3. {Words[j] : j \in 1..n} \cap DOMAIN f = DOMAIN f
  BY <1>1 DEF Strings
<1> QED  BY <1>1, <1>2, <1>3 DEF EntriesFrom

(* A dict is read from its keys and their values.                           *)
DictParts(f, sub) ==
  [i \in 1..Len(Words) |->
    IF Words[i] \in DOMAIN f THEN <<Str(Words[i])>> \o sub[Words[i]] ELSE <<>>]

LEMMA DictDecodes ==
  ASSUME NEW f, f = [w \in DOMAIN f |-> f[w]], DOMAIN f \subseteq Text,
         NEW sub, \A w \in DOMAIN f : Decodes(sub[w], f[w])
  PROVE  Decodes(<<Dict>> \o FlattenSeq(DictParts(f, sub)) \o <<End>>, <<"Dict", f>>)
<1>1. PICK n, parts : n \in Nat /\ n = Len(Words) /\ parts = DictParts(f, sub)
  <2>1. Len(Words) \in Nat
    <3>1. Words \in Seq(Strings)
      BY BencodeAssumption DEF BencodeAssumption
    <3> QED  BY <3>1
  <2> QED  BY <2>1
<1>2. \A i \in 1..n : Words[i] \in DOMAIN f =>
        /\ Words[i] \in Text /\ Str(Words[i]) \in Tokens
        /\ sub[Words[i]] \in Seq(Tokens) /\ parts[i] = <<Str(Words[i])>> \o sub[Words[i]]
  <2>1. \A w \in Text : Str(w) \in Tokens
    BY DEF Str, Tokens, Text
  <2> QED  BY <1>1, <2>1 DEF DictParts, Decodes
<1>3. \A i \in 1..n : Words[i] \notin DOMAIN f => parts[i] = <<>>
  BY <1>1 DEF DictParts
<1>4. parts \in [1..n -> Seq(Tokens)]
  <2>1. \A i \in 1..n : parts[i] \in Seq(Tokens)
    <3>1. <<>> \in Seq(Tokens)
      OBVIOUS
    <3>2. ASSUME NEW i \in 1..n, Words[i] \in DOMAIN f PROVE parts[i] \in Seq(Tokens)
      <4>1. PICK w, b : w = Words[i] /\ b = sub[w]
        OBVIOUS
      <4>2. Str(w) \in Tokens /\ b \in Seq(Tokens) /\ parts[i] = <<Str(w)>> \o b
        BY <1>2, <3>2, <4>1
      <4>3. <<Str(w)>> \in Seq(Tokens)
        BY <4>2
      <4> QED  BY <4>2, <4>3
    <3> QED  BY <1>3, <3>1, <3>2
  <2>2. parts = [i \in 1..n |-> parts[i]]
    BY <1>1 DEF DictParts
  <2> QED  BY <2>1, <2>2
<1>5. PICK whole, start :
         whole \in Seq(Tokens) /\ whole = FlattenSeq(parts) /\ Follow(parts, n, start, whole)
  <2>1. FlattenSeq(parts) \in Seq(Tokens) /\ \E start : Follow(parts, n, start, FlattenSeq(parts))
    BY <1>1, <1>4, FlattenParts
  <2> QED  BY <2>1
<1>6. PICK p : p = <<Dict>> \o FlattenSeq(parts) \o <<End>>
  OBVIOUS
<1>7. Encloses(p, Dict, whole)
  <2>1. Dict \in Tokens
    BY DEF Tokens
  <2> QED  BY <1>5, <1>6, <2>1, Inside
<1>8. p \in Seq(Tokens) /\ p # <<>> /\ p[1] = Dict /\ Dict # End
  BY <1>7 DEF Encloses, Dict, End
<1>9. EntriesFrom(f, n + 1) = NoEntry /\ EntriesFrom(f, 1) = f
  BY <1>1, EntriesFromEnds DEF Text
<1>10. ASSUME NEW s \in Seq(Tokens), NEW q \in Nat, At(s, q, p)
       PROVE  Value(s)[q] = Ok(<<"Dict", f>>, q + Len(p))
  <2>1. PICK d, l, m : d = Value(s) /\ l \in Nat /\ l = Len(whole) /\ m \in Nat /\ m = Len(s) + 1
    <3>1. Len(whole) \in Nat /\ Len(s) + 1 \in Nat
      BY <1>5
    <3> QED  BY <3>1
  <2>2. /\ (q + 1) + l \in 1..Len(s) /\ Peek(s, (q + 1) + l) = End
        /\ q \in 1..Len(s) /\ Peek(s, q) = Dict
    BY <1>5, <1>7, <1>10, <2>1, EndAt
  <2>3. Advances(s, 0, d)
    BY <2>1, ValueUnfolds
  <2>4. ASSUME NEW i \in 1..(n + 1)
        PROVE  start[i] \in Nat /\ (q + 1) + start[i] \in 0..m
    <3>1. start[i] \in Nat /\ start[i] <= l
      <4>1. start[i] \in Nat
        BY <1>5 DEF Follow
      <4>2. CASE i = n + 1
        BY <1>5, <2>1, <4>2, <4>1 DEF Follow
      <4>3. CASE i # n + 1
        <5>1. i \in 1..n
          BY <1>1, <4>3
        <5>2. Len(parts[i]) \in Nat
          <6>1. parts[i] \in Seq(Tokens)
            BY <1>4, <5>1
          <6> QED  BY <6>1
        <5>3. start[i] + Len(parts[i]) <= l
          <6>1. start[i + 1] = start[i] + Len(parts[i]) /\ start[i + 1] <= Len(whole)
            BY <1>5, <5>1 DEF Follow
          <6> QED  BY <2>1, <6>1
        <5> QED  BY <2>1, <4>1, <5>2, <5>3
      <4>4. start[i] <= l
        BY <4>2, <4>3
      <4> QED  BY <4>1, <4>4
    <3> QED  BY <2>1, <2>2, <3>1
  <2> DEFINE Reads(i) == Entries(s, (q + 1) + start[i], d) = Ok(EntriesFrom(f, i), (q + l) + 2)
             Done == {k \in 0..n : Reads(k + 1)}
  <2>5. ASSUME NEW k \in 0..n, \A j \in (k + 1)..n : j \in Done PROVE k \in Done
    <3>1. PICK r \in Nat : r = (q + 1) + start[k + 1] /\ r \in 0..m
      <4>1. k + 1 \in 1..(n + 1)
        BY <1>1
      <4> QED  BY <2>1, <2>4, <4>1
    <3>2. Advances(s, r, d)
      <4>1. 0 \in Nat /\ r \in 0..m
        BY <3>1
      <4> QED  BY <2>1, <2>3, <4>1, AdvancesLater
    <3>3. CASE k = n
      <4>1. start[n + 1] = l
        BY <2>1, <1>5 DEF Follow
      <4>2. r = (q + 1) + l
        BY <3>1, <3>3, <4>1
      <4>3. Entries(s, r, d) = Ok(NoEntry, r + 1)
        <5>1. Peek(s, r) = End
          BY <2>2, <4>2
        <5>2. m \in Nat /\ m = Len(s) + 1
          BY <2>1
        <5> QED  BY <3>1, <3>2, <5>1, <5>2, EntriesNext
      <4>4. r + 1 = (q + l) + 2
        BY <2>1, <4>2
      <4> QED  BY <1>9, <3>1, <3>3, <4>3, <4>4
    <3>4. CASE k # n
      <4>1. PICK i \in 1..n : i = k + 1 /\ k + 1 \in (k + 1)..n
        BY <1>1, <3>4
      <4>2. Reads(i + 1)
        BY <2>5, <4>1
      <4>3. At(s, r, parts[i])
        BY <1>1, <1>4, <1>5, <1>7, <1>10, <3>1, <4>1, PartAt
      <4>4. start[i + 1] = start[i] + Len(parts[i])
        BY <1>5 DEF Follow
      <4>5. start[i] \in Nat /\ r = (q + 1) + start[i]
        <5>1. i \in 1..(n + 1)
          BY <1>1
        <5> QED  BY <2>4, <3>1, <4>1, <5>1
      <4>6. CASE Words[i] \notin DOMAIN f
        <5>1. Len(parts[i]) = 0
          BY <1>3, <4>6
        <5>2. (q + 1) + start[i + 1] = r
          BY <4>4, <4>5, <5>1
        <5>3. EntriesFrom(f, i) = EntriesFrom(f, i + 1)
          BY <1>1, <4>6, EntriesFromNext
        <5> QED  BY <3>1, <4>1, <4>2, <5>2, <5>3
      <4>7. CASE Words[i] \in DOMAIN f
        <5>1. PICK w, b : w = Words[i] /\ b = sub[w]
          OBVIOUS
        <5>2. w \in Text /\ Str(w) \in Tokens /\ b \in Seq(Tokens) /\ parts[i] = <<Str(w)>> \o b
          BY <1>2, <4>7, <5>1
        <5>3. r \in 1..Len(s) /\ s[r] = Str(w) /\ Peek(s, r) = Str(w) /\ At(s, r + 1, b)
                /\ Len(parts[i]) = Len(b) + 1
          BY <3>1, <4>3, <5>2, AtBoth
        <5>4. ReadStr(s, r).status = "ok" /\ s[r][2] = w /\ Peek(s, r) # End
          BY <5>2, <5>3, TextAt
        <5>5. Decodes(b, f[w])
          BY <4>7, <5>1
        <5>6. d[r + 1] = Ok(f[w], (r + 1) + Len(b))
          <6>1. r + 1 \in Nat
            BY <3>1
          <6> QED  BY <2>1, <5>3, <5>5, <6>1 DEF Decodes
        <5>7. (r + 1) + Len(b) = (q + 1) + start[i + 1]
          <6>1. Len(b) \in Nat
            BY <5>2
          <6>2. start[i + 1] = start[i] + (Len(b) + 1)
            BY <4>4, <5>3
          <6>3. PICK x \in Nat, y \in Nat : x = start[i] /\ y = Len(b)
            BY <4>5, <6>1
          <6>4. r = (q + 1) + x /\ start[i + 1] = x + (y + 1)
            BY <4>5, <6>2, <6>3
          <6>5. ((q + 1) + x + 1) + y = (q + 1) + (x + (y + 1))
            OBVIOUS
          <6> QED  BY <6>3, <6>4, <6>5
        <5>8. d[r + 1].status = "ok" /\ d[r + 1].value = f[w] /\ d[r + 1].at = (q + 1) + start[i + 1]
          BY <5>6, <5>7 DEF Ok
        <5>9. PICK t : t = Entries(s, (q + 1) + start[i + 1], d)
          OBVIOUS
        <5>10. t = Ok(EntriesFrom(f, i + 1), (q + l) + 2)
          BY <4>2, <5>9
        <5>11. t.status = "ok" /\ t.value = EntriesFrom(f, i + 1) /\ t.at = (q + l) + 2
          BY <5>10 DEF Ok
        <5>12. Grows(s, r, d)
          <6>1. Entries(s, d[r + 1].at, d).status = "ok"
            BY <5>8, <5>9, <5>11
          <6> QED  BY <2>1, <3>1, <3>2, <5>4, <5>8, <6>1, EntriesNext
        <5>13. Entries(s, r, d) = Ok(EntriesFrom(f, i + 1) ++ Entry(w, f[w]), (q + l) + 2)
          BY <5>4, <5>8, <5>9, <5>11, <5>12 DEF Grows
        <5>14. EntriesFrom(f, i + 1) ++ Entry(w, f[w]) = EntriesFrom(f, i)
          BY <1>1, <4>7, <5>1, EntriesFromNext
        <5>15. Entries(s, r, d) = Ok(EntriesFrom(f, i), (q + l) + 2)
          BY <5>13, <5>14
        <5> QED  BY <3>1, <4>1, <5>15
      <4> QED  BY <4>6, <4>7
    <3> QED  BY <3>3, <3>4
  <2> HIDE DEF Done
  <2>6. 0 \in Done
    <3>1. \A j \in 0..n : j \in Done
      BY <1>1, <2>5, DownInduction
    <3>2. 0 \in 0..n
      BY <1>1
    <3> QED  BY <3>1, <3>2
  <2>7. Entries(s, q + 1, d) = Ok(f, (q + l) + 2)
    <3>1. Entries(s, (q + 1) + start[1], d) = Ok(EntriesFrom(f, 1), (q + l) + 2)
      <4>1. 0 + 1 = 1
        OBVIOUS
      <4> QED  BY <2>6, <4>1 DEF Done
    <3>2. start[1] = 0 /\ (q + 1) + 0 = q + 1
      BY <1>5 DEF Follow
    <3> QED  BY <1>9, <3>1, <3>2
  <2>8. d[q] = As("Dict", Entries(s, q + 1, d))
    <3>1. d[q] = ReadValue(s, q, d)
      BY <2>1, <2>2, ValueAt
    <3> QED  BY <2>2, <3>1, ValueOfDict
  <2>9. d[q] = Ok(<<"Dict", f>>, (q + l) + 2)
    <3>1. PICK t : t = Entries(s, q + 1, d)
      OBVIOUS
    <3>2. t.status = "ok" /\ t.value = f /\ t.at = (q + l) + 2
      BY <2>7, <3>1 DEF Ok
    <3> QED  BY <2>8, <3>1, <3>2 DEF As
  <2>10. q + Len(p) = (q + l) + 2
    BY <1>7, <2>1 DEF Encloses
  <2> QED  BY <2>1, <2>9, <2>10
<1>11. Decodes(p, <<"Dict", f>>)
  BY <1>8, <1>10 DEF Decodes
<1> QED  BY <1>1, <1>6, <1>11
-----------------------------------------------------------------------------
(* The values that are encoded, by how deep they nest.                      *)
Maps(V) == UNION {[D -> V] : D \in SUBSET Text}
Nested(V) == Scalars \cup ({"List"} \X Seq(V)) \cup ({"Dict"} \X Maps(V))

Values2 == Nested(Scalars)
Values3 == Nested(Values2)
Values4 == Nested(Values3)
Values5 == Nested(Values4)
Values6 == Nested(Values5)

(* e is what v is written as if enc has the encodings of its parts.         *)
Written(e, v, enc) ==
  /\ v[1] = "Integer" => e = <<Num(v[2])>>
  /\ v[1] \in {"Bytes", "String"} => e = <<Str(v[2])>>
  /\ v[1] = "List" =>
       e = <<List>> \o FlattenSeq([i \in DOMAIN v[2] |-> enc[v[2][i]]]) \o <<End>>
  /\ v[1] = "Dict" =>
       e = <<Dict>> \o FlattenSeq([i \in DOMAIN Words |->
             IF Words[i] \in DOMAIN v[2] THEN <<Str(Words[i])>> \o enc[v[2][Words[i]]] ELSE <<>>])
             \o <<End>>

LEMMA ScalarDecodes ==
  ASSUME NEW v \in Scalars, NEW e, NEW enc, Written(e, v, enc)
  PROVE  Decodes(e, v)
<1>1. ASSUME NEW w \in Text, v = <<"String", w>> PROVE Decodes(e, v)
  <2>1. w \in Strings /\ Variant(w) = "String"
    BY DEF Text, Variant
  <2>2. Decodes(<<Str(w)>>, <<Variant(w), w>>)
    BY <2>1, StringDecodes
  <2>3. e = <<Str(w)>>
    BY <1>1 DEF Written
  <2> QED  BY <1>1, <2>1, <2>2, <2>3
<1>2. ASSUME NEW w \in Strings \cap Binary, v = <<"Bytes", w>> PROVE Decodes(e, v)
  <2>1. w \in Strings /\ Variant(w) = "Bytes"
    BY DEF Variant
  <2>2. Decodes(<<Str(w)>>, <<Variant(w), w>>)
    BY <2>1, StringDecodes
  <2>3. e = <<Str(w)>>
    BY <1>2 DEF Written
  <2> QED  BY <1>2, <2>1, <2>2, <2>3
<1>3. ASSUME NEW k \in Signed(Width), v = <<"Integer", k>> PROVE Decodes(e, v)
  <2>1. e = <<Num(k)>>
    BY <1>3 DEF Written
  <2> QED  BY <1>3, <2>1, NumberDecodes
<1> QED  BY <1>1, <1>2, <1>3 DEF Scalars

(* If its parts are read back, so is a value.                               *)
LEMMA NestedDecodes ==
  ASSUME NEW V, NEW enc, \A w \in V : Decodes(enc[w], w),
         NEW v \in Nested(V), NEW e, Written(e, v, enc)
  PROVE  Decodes(e, v)
<1>1. CASE v \in Scalars
  BY <1>1, ScalarDecodes
<1>2. ASSUME NEW l \in Seq(V), v = <<"List", l>> PROVE Decodes(e, v)
  <2>1. PICK n : n \in Nat /\ n = Len(l) /\ DOMAIN l = 1..n /\ \A i \in 1..n : l[i] \in V
    OBVIOUS
  <2>2. PICK parts : parts = [i \in 1..n |-> enc[l[i]]]
    OBVIOUS
  <2>3. ASSUME NEW i \in 1..n PROVE parts[i] \in Seq(Tokens) /\ Decodes(parts[i], l[i])
    <3>1. parts[i] = enc[l[i]]
      BY <2>2
    <3>2. l[i] \in V
      BY <2>1
    <3>3. Decodes(parts[i], l[i])
      BY <3>1, <3>2
    <3>4. parts[i] \in Seq(Tokens)
      BY <3>3 DEF Decodes
    <3> QED  BY <3>3, <3>4
  <2>4. parts \in [1..n -> Seq(Tokens)]
    BY <2>2, <2>3
  <2>5. e = <<List>> \o FlattenSeq(parts) \o <<End>>
    BY <1>2, <2>1, <2>2 DEF Written
  <2> QED  BY <1>2, <2>1, <2>3, <2>4, <2>5, ListDecodes
<1>3. ASSUME NEW D \in SUBSET Text, NEW f \in [D -> V], v = <<"Dict", f>> PROVE Decodes(e, v)
  <2>1. DOMAIN f = D /\ f = [w \in DOMAIN f |-> f[w]] /\ DOMAIN f \subseteq Text
    OBVIOUS
  <2>2. PICK sub : sub = [w \in D |-> enc[f[w]]]
    OBVIOUS
  <2>3. \A w \in DOMAIN f : Decodes(sub[w], f[w])
    BY <2>1, <2>2
  <2>4. DictParts(f, sub) = [i \in DOMAIN Words |->
          IF Words[i] \in DOMAIN f THEN <<Str(Words[i])>> \o enc[f[Words[i]]] ELSE <<>>]
    <3>1. DOMAIN Words = 1..Len(Words)
      <4>1. Words \in Seq(Strings)
        BY BencodeAssumption DEF BencodeAssumption
      <4> QED  BY <4>1
    <3>2. \A w \in DOMAIN f : sub[w] = enc[f[w]]
      BY <2>1, <2>2
    <3> QED  BY <3>1, <3>2 DEF DictParts
  <2>5. e = <<Dict>> \o FlattenSeq(DictParts(f, sub)) \o <<End>>
    BY <1>3, <2>4 DEF Written
  <2> QED  BY <1>3, <2>1, <2>3, <2>5, DictDecodes
<1> QED  BY <1>1, <1>2, <1>3 DEF Nested, Maps

LEMMA PartsOf ==
  ASSUME NEW V, NEW v \in Nested(V)
  PROVE  /\ v[1] \in {"String", "Bytes", "Integer", "List", "Dict"}
         /\ v[1] = "List" => \A i \in DOMAIN v[2] : v[2][i] \in V
         /\ v[1] = "Dict" => \A w \in DOMAIN v[2] : v[2][w] \in V
<1>1. CASE v \in Scalars
  BY <1>1 DEF Scalars
<1>2. CASE v \in {"List"} \X Seq(V)
  BY <1>2
<1>3. ASSUME NEW D \in SUBSET Text, NEW f \in [D -> V], v = <<"Dict", f>>
      PROVE  v[1] = "Dict" /\ \A w \in DOMAIN v[2] : v[2][w] \in V
  BY <1>3
<1> QED  BY <1>1, <1>2, <1>3 DEF Nested, Maps

LEMMA Level1 ==
  ASSUME NEW v \in Scalars PROVE Decodes(Encode1(v), v)
<1>1. v[1] \in {"String", "Bytes", "Integer"}
  BY DEF Scalars
<1>2. Written(Encode1(v), v, <<>>)
  BY <1>1 DEF Written, Encode1, EncodeWith
<1> QED  BY <1>2, ScalarDecodes

LEMMA Level2 ==
  ASSUME NEW v \in Values2 PROVE Decodes(Encode2(v), v)
<1>1. PICK enc : enc = [w \in Scalars |-> Encode1(w)]
  OBVIOUS
<1>2. \A w \in Scalars : enc[w] = Encode1(w) /\ Decodes(enc[w], w)
  BY <1>1, Level1
<1>3. v \in Nested(Scalars)
  BY DEF Values2
<1>4. v[1] = "List" =>
        [i \in DOMAIN v[2] |-> Encode1(v[2][i])] = [i \in DOMAIN v[2] |-> enc[v[2][i]]]
  BY <1>2, <1>3, PartsOf
<1>5. v[1] = "Dict" => \A w \in DOMAIN v[2] : Encode1(v[2][w]) = enc[v[2][w]]
  BY <1>2, <1>3, PartsOf
<1>6. Written(Encode2(v), v, enc)
  BY <1>3, <1>4, <1>5, PartsOf DEF Written, Encode2, EncodeWith
<1> QED  BY <1>2, <1>3, <1>6, NestedDecodes

LEMMA Level3 ==
  ASSUME NEW v \in Values3 PROVE Decodes(Encode3(v), v)
<1>1. PICK enc : enc = [w \in Values2 |-> Encode2(w)]
  OBVIOUS
<1>2. \A w \in Values2 : enc[w] = Encode2(w) /\ Decodes(enc[w], w)
  BY <1>1, Level2
<1>3. v \in Nested(Values2)
  BY DEF Values3
<1>4. v[1] = "List" =>
        [i \in DOMAIN v[2] |-> Encode2(v[2][i])] = [i \in DOMAIN v[2] |-> enc[v[2][i]]]
  BY <1>2, <1>3, PartsOf
<1>5. v[1] = "Dict" => \A w \in DOMAIN v[2] : Encode2(v[2][w]) = enc[v[2][w]]
  BY <1>2, <1>3, PartsOf
<1>6. Written(Encode3(v), v, enc)
  BY <1>3, <1>4, <1>5, PartsOf DEF Written, Encode3, EncodeWith
<1> QED  BY <1>2, <1>3, <1>6, NestedDecodes

LEMMA Level4 ==
  ASSUME NEW v \in Values4 PROVE Decodes(Encode4(v), v)
<1>1. PICK enc : enc = [w \in Values3 |-> Encode3(w)]
  OBVIOUS
<1>2. \A w \in Values3 : enc[w] = Encode3(w) /\ Decodes(enc[w], w)
  BY <1>1, Level3
<1>3. v \in Nested(Values3)
  BY DEF Values4
<1>4. v[1] = "List" =>
        [i \in DOMAIN v[2] |-> Encode3(v[2][i])] = [i \in DOMAIN v[2] |-> enc[v[2][i]]]
  BY <1>2, <1>3, PartsOf
<1>5. v[1] = "Dict" => \A w \in DOMAIN v[2] : Encode3(v[2][w]) = enc[v[2][w]]
  BY <1>2, <1>3, PartsOf
<1>6. Written(Encode4(v), v, enc)
  BY <1>3, <1>4, <1>5, PartsOf DEF Written, Encode4, EncodeWith
<1> QED  BY <1>2, <1>3, <1>6, NestedDecodes

LEMMA Level5 ==
  ASSUME NEW v \in Values5 PROVE Decodes(Encode5(v), v)
<1>1. PICK enc : enc = [w \in Values4 |-> Encode4(w)]
  OBVIOUS
<1>2. \A w \in Values4 : enc[w] = Encode4(w) /\ Decodes(enc[w], w)
  BY <1>1, Level4
<1>3. v \in Nested(Values4)
  BY DEF Values5
<1>4. v[1] = "List" =>
        [i \in DOMAIN v[2] |-> Encode4(v[2][i])] = [i \in DOMAIN v[2] |-> enc[v[2][i]]]
  BY <1>2, <1>3, PartsOf
<1>5. v[1] = "Dict" => \A w \in DOMAIN v[2] : Encode4(v[2][w]) = enc[v[2][w]]
  BY <1>2, <1>3, PartsOf
<1>6. Written(Encode5(v), v, enc)
  BY <1>3, <1>4, <1>5, PartsOf DEF Written, Encode5, EncodeWith
<1> QED  BY <1>2, <1>3, <1>6, NestedDecodes

LEMMA Level6 ==
  ASSUME NEW v \in Values6 PROVE Decodes(Encode(v), v)
<1>1. PICK enc : enc = [w \in Values5 |-> Encode5(w)]
  OBVIOUS
<1>2. \A w \in Values5 : enc[w] = Encode5(w) /\ Decodes(enc[w], w)
  BY <1>1, Level5
<1>3. v \in Nested(Values5)
  BY DEF Values6
<1>4. v[1] = "List" =>
        [i \in DOMAIN v[2] |-> Encode5(v[2][i])] = [i \in DOMAIN v[2] |-> enc[v[2][i]]]
  BY <1>2, <1>3, PartsOf
<1>5. v[1] = "Dict" => \A w \in DOMAIN v[2] : Encode5(v[2][w]) = enc[v[2][w]]
  BY <1>2, <1>3, PartsOf
<1>6. Written(Encode(v), v, enc)
  BY <1>3, <1>4, <1>5, PartsOf DEF Written, Encode, EncodeWith
<1> QED  BY <1>2, <1>3, <1>6, NestedDecodes

(* What a torrent is turned into is a value of six levels.                  *)
LEMMA NamesAreTexts ==
  {"announce", "announce-list", "comment", CreatedBy, "encoding", "files", "info", "length",
   "md5sum", "name", "path", PieceLength, "pieces"} \subseteq Text
BY MetaInfoAssumption DEF MetaInfoAssumption, Fields, Text

LEMMA EntryIn ==
  ASSUME NEW V, NEW key \in Text, NEW v \in V
  PROVE  Entry(key, v) \in Maps(V)
<1>1. Entry(key, v) \in [{key} -> V] /\ {key} \in SUBSET Text
  BY DEF Entry
<1> QED  BY <1>1 DEF Maps

LEMMA JoinIn ==
  ASSUME NEW V, NEW f \in Maps(V), NEW g \in Maps(V)
  PROVE  f ++ g \in Maps(V)
<1>1. PICK D \in SUBSET Text : f \in [D -> V]
  BY DEF Maps
<1>2. PICK E \in SUBSET Text : g \in [E -> V]
  BY DEF Maps
<1>3. f ++ g \in [D \cup E -> V]
  BY <1>1, <1>2 DEF ++
<1>4. D \cup E \in SUBSET Text
  OBVIOUS
<1> QED  BY <1>3, <1>4 DEF Maps

LEMMA OptionIn ==
  ASSUME NEW V, NEW key \in Text, NEW values, values # <<>> => values[1] \in V
  PROVE  OptionEntry(key, values) \in Maps(V)
<1>1. NoEntry \in Maps(V)
  <2>1. NoEntry \in [{} -> V] /\ {} \in SUBSET Text
    BY DEF NoEntry
  <2> QED  BY <2>1 DEF Maps
<1> QED  BY <1>1, EntryIn DEF OptionEntry

LEMMA DictIn ==
  ASSUME NEW V, NEW f \in Maps(V) PROVE <<"Dict", f>> \in Nested(V)
BY DEF Nested

LEMMA ListIn ==
  ASSUME NEW V, NEW n \in Nat, NEW l, l = [i \in 1..n |-> l[i]], \A i \in 1..n : l[i] \in V
  PROVE  ListValue(l) \in Nested(V)
<1>1. l \in Seq(V)
  <2>1. l \in [1..n -> V]
    OBVIOUS
  <2> QED  BY <2>1
<1> QED  BY <1>1 DEF Nested, ListValue

LEMMA TextIn ==
  ASSUME NEW w \in Text PROVE StringValue(w) \in Scalars
BY DEF StringValue, Scalars

LEMMA NumberIn ==
  ASSUME NEW n \in Unsigned(Width) PROVE IntegerValue(n) \in Scalars
<1>1. PICK k \in Signed(Width) : IntegerValue(n) = <<"Integer", k>>
  BY NumberIsKept
<1> QED  BY <1>1 DEF Scalars

LEMMA StringsIn ==
  ASSUME NEW V, Scalars \subseteq V, NEW p \in Seq(Text)
  PROVE  StringsValue(p) \in Nested(V)
<1>1. PICK n : n \in Nat /\ DOMAIN p = 1..n /\ \A i \in 1..n : p[i] \in Text
  OBVIOUS
<1>2. PICK l : l = StringValues(p)
  OBVIOUS
<1>3. l = [i \in 1..n |-> StringValue(p[i])]
  BY <1>1, <1>2 DEF StringValues
<1>4. l = [i \in 1..n |-> l[i]] /\ \A i \in 1..n : l[i] \in V
  BY <1>1, <1>3, TextIn
<1>5. ListValue(l) \in Nested(V)
  BY <1>1, <1>4, ListIn
<1> QED  BY <1>2, <1>5 DEF StringsValue

LEMMA StringOptionIn ==
  ASSUME NEW V, Scalars \subseteq V, NEW key \in Text, NEW o \in Options
  PROVE  OptionEntry(key, StringValues(o)) \in Maps(V)
<1>1. StringValues(o) # <<>> => StringValues(o)[1] \in V
  <2>1. CASE o = <<>>
    BY <2>1 DEF StringValues
  <2>2. ASSUME NEW w \in Text, o = <<w>> PROVE StringValues(o)[1] \in V
    <3>1. StringValues(o)[1] = StringValue(w)
      BY <2>2 DEF StringValues
    <3> QED  BY <3>1, TextIn
  <2> QED  BY <2>1, <2>2 DEF Options
<1> QED  BY <1>1, OptionIn

LEMMA Levels ==
  /\ Scalars \subseteq Values2 /\ Scalars \subseteq Values3
  /\ Scalars \subseteq Values4 /\ Scalars \subseteq Values5
BY DEF Values2, Values3, Values4, Values5, Nested

LEMMA FileInfoIn ==
  ASSUME NEW f \in FileInfos PROVE FileInfoValue(f) \in Values3
<1>1. f.length \in Unsigned(Width) /\ f.md5sum \in Options /\ f.path \in Seq(Text)
  BY DEF FileInfos
<1>2. PICK a : a = Entry("length", IntegerValue(f.length))
  OBVIOUS
<1>3. PICK b : b = OptionEntry("md5sum", StringValues(f.md5sum))
  OBVIOUS
<1>4. PICK c : c = Entry("path", StringsValue(f.path))
  OBVIOUS
<1>5. a \in Maps(Values2)
  BY <1>1, <1>2, EntryIn, NamesAreTexts, NumberIn, Levels
<1>6. b \in Maps(Values2)
  BY <1>1, <1>3, StringOptionIn, NamesAreTexts, Levels
<1>7. c \in Maps(Values2)
  <2>1. StringsValue(f.path) \in Values2
    BY <1>1, StringsIn DEF Values2
  <2> QED  BY <1>4, <2>1, EntryIn, NamesAreTexts
<1>8. (a ++ b) ++ c \in Maps(Values2)
  BY <1>5, <1>6, <1>7, JoinIn
<1>9. FileInfoValue(f) = <<"Dict", (a ++ b) ++ c>>
  BY <1>2, <1>3, <1>4 DEF FileInfoValue
<1> QED  BY <1>8, <1>9, DictIn DEF Values3

LEMMA FilesIn ==
  ASSUME NEW files \in Seq(FileInfos) PROVE FilesValue(files) \in Values4
<1>1. PICK n : n \in Nat /\ DOMAIN files = 1..n /\ \A i \in 1..n : files[i] \in FileInfos
  OBVIOUS
<1>2. PICK l : l = [i \in 1..n |-> FileInfoValue(files[i])]
  OBVIOUS
<1>3. l = [i \in 1..n |-> l[i]] /\ \A i \in 1..n : l[i] \in Values3
  BY <1>1, <1>2, FileInfoIn
<1>4. ListValue(l) \in Nested(Values3)
  BY <1>1, <1>3, ListIn
<1>5. FilesValue(files) = ListValue(l)
  BY <1>1, <1>2 DEF FilesValue
<1> QED  BY <1>4, <1>5 DEF Values4

LEMMA InfoIn ==
  ASSUME NEW info \in SingleInfos \cup MultiInfos, info.pieces \in Binary
  PROVE  InfoValue(info) \in Values5
<1>1. /\ info.name \in Text /\ info.pieceLength \in Unsigned(Width)
      /\ info.pieces \in Strings \cap Binary
  BY DEF SingleInfos, MultiInfos, Hashes
<1>2. PICK a : a = Entry("name", StringValue(info.name))
  OBVIOUS
<1>3. PICK b : b = Entry(PieceLength, IntegerValue(info.pieceLength))
  OBVIOUS
<1>4. PICK c : c = Entry("pieces", HashesValue(info.pieces))
  OBVIOUS
<1>5. a \in Maps(Values4)
  BY <1>1, <1>2, EntryIn, NamesAreTexts, TextIn, Levels
<1>6. b \in Maps(Values4)
  BY <1>1, <1>3, EntryIn, NamesAreTexts, NumberIn, Levels
<1>7. c \in Maps(Values4)
  <2>1. HashesValue(info.pieces) \in Scalars
    BY <1>1 DEF HashesValue, Scalars
  <2> QED  BY <1>4, <2>1, EntryIn, NamesAreTexts, Levels
<1>8. PICK e : e = (a ++ b) ++ c
  OBVIOUS
<1>9. e \in Maps(Values4)
  BY <1>5, <1>6, <1>7, <1>8, JoinIn
<1>10. CASE info \in MultiInfos
  <2>1. info.kind = "multi" /\ info.files \in Seq(FileInfos)
    BY <1>10 DEF MultiInfos
  <2>2. PICK g : g = Entry("files", FilesValue(info.files))
    OBVIOUS
  <2>3. g \in Maps(Values4)
    BY <2>1, <2>2, EntryIn, NamesAreTexts, FilesIn
  <2>4. InfoValue(info) = <<"Dict", e ++ g>>
    BY <1>2, <1>3, <1>4, <1>8, <2>1, <2>2 DEF InfoValue, FilesValue
  <2>5. e ++ g \in Maps(Values4)
    BY <1>9, <2>3, JoinIn
  <2> QED  BY <2>4, <2>5, DictIn DEF Values5
<1>11. CASE info \in SingleInfos
  <2>1. info.kind # "multi" /\ info.length \in Unsigned(Width) /\ info.md5sum \in Options
    BY <1>11 DEF SingleInfos
  <2>2. PICK g : g = Entry("length", IntegerValue(info.length))
    OBVIOUS
  <2>3. PICK h : h = OptionEntry("md5sum", StringValues(info.md5sum))
    OBVIOUS
  <2>4. g \in Maps(Values4)
    BY <2>1, <2>2, EntryIn, NamesAreTexts, NumberIn, Levels
  <2>5. h \in Maps(Values4)
    BY <2>1, <2>3, StringOptionIn, NamesAreTexts, Levels
  <2>6. InfoValue(info) = <<"Dict", e ++ (g ++ h)>>
    BY <1>2, <1>3, <1>4, <1>8, <2>1, <2>2, <2>3 DEF InfoValue
  <2>7. e ++ (g ++ h) \in Maps(Values4)
    BY <1>9, <2>4, <2>5, JoinIn
  <2> QED  BY <2>6, <2>7, DictIn DEF Values5
<1> QED  BY <1>10, <1>11

LEMMA TiersIn ==
  ASSUME NEW tiers \in Seq(Seq(Text))
  PROVE  ListValue(TierValues(tiers)) \in Values5
<1>1. PICK n : n \in Nat /\ DOMAIN tiers = 1..n /\ \A i \in 1..n : tiers[i] \in Seq(Text)
  OBVIOUS
<1>2. PICK l : l = TierValues(tiers)
  OBVIOUS
<1>3. l = [i \in 1..n |-> StringsValue(tiers[i])]
  BY <1>1, <1>2 DEF TierValues
<1>4. \A p \in Seq(Text) : StringsValue(p) \in Values4
  BY StringsIn, Levels DEF Values4
<1>5. l = [i \in 1..n |-> l[i]] /\ \A i \in 1..n : l[i] \in Values4
  BY <1>1, <1>3, <1>4
<1>6. ListValue(l) \in Nested(Values4)
  BY <1>1, <1>5, ListIn
<1> QED  BY <1>2, <1>6 DEF Values5

LEMMA MetaInfoIn ==
  ASSUME NEW m \in MetaInfos, m.info.pieces \in Binary
  PROVE  MetaInfoValue(m) \in Values6
<1>1. /\ m.info \in SingleInfos \cup MultiInfos /\ m.announce \in Options
      /\ m.announceList \in TierLists /\ m.comment \in Options
      /\ m.createdBy \in Options /\ m.encoding \in Options
  BY DEF MetaInfos
<1>2. PICK a : a = OptionEntry("announce", StringValues(m.announce))
  OBVIOUS
<1>3. PICK l : l = OptionEntry("announce-list", TiersValues(m.announceList))
  OBVIOUS
<1>4. PICK c : c = OptionEntry("comment", StringValues(m.comment))
  OBVIOUS
<1>5. PICK b : b = OptionEntry(CreatedBy, StringValues(m.createdBy))
  OBVIOUS
<1>6. PICK e : e = OptionEntry("encoding", StringValues(m.encoding))
  OBVIOUS
<1>7. PICK i : i = Entry("info", InfoValue(m.info))
  OBVIOUS
<1>8. a \in Maps(Values5)
  BY <1>1, <1>2, StringOptionIn, NamesAreTexts, Levels
<1>9. l \in Maps(Values5)
  <2>1. PICK values : values = TiersValues(m.announceList)
    OBVIOUS
  <2>2. values # <<>> => values[1] \in Values5
    <3>1. CASE m.announceList = <<>>
      BY <2>1, <3>1 DEF TiersValues
    <3>2. ASSUME NEW tiers \in Seq(Seq(Text)), m.announceList = <<tiers>> PROVE values[1] \in Values5
      <4>1. values[1] = ListValue(TierValues(tiers))
        BY <2>1, <3>2 DEF TiersValues
      <4> QED  BY <4>1, TiersIn
    <3> QED  BY <1>1, <3>1, <3>2 DEF TierLists
  <2> QED  BY <1>3, <2>1, <2>2, OptionIn, NamesAreTexts
<1>10. c \in Maps(Values5)
  BY <1>1, <1>4, StringOptionIn, NamesAreTexts, Levels
<1>11. b \in Maps(Values5)
  BY <1>1, <1>5, StringOptionIn, NamesAreTexts, Levels
<1>12. e \in Maps(Values5)
  BY <1>1, <1>6, StringOptionIn, NamesAreTexts, Levels
<1>13. i \in Maps(Values5)
  BY <1>1, <1>7, EntryIn, NamesAreTexts, InfoIn
<1>14. ((((a ++ l) ++ c) ++ b) ++ e) ++ i \in Maps(Values5)
  <2>1. PICK x : x = (a ++ l) ++ c
    OBVIOUS
  <2>2. x \in Maps(Values5)
    BY <1>8, <1>9, <1>10, <2>1, JoinIn
  <2>3. (x ++ b) ++ e \in Maps(Values5)
    BY <1>11, <1>12, <2>2, JoinIn
  <2>4. ((x ++ b) ++ e) ++ i \in Maps(Values5)
    BY <1>13, <2>3, JoinIn
  <2> QED  BY <2>1, <2>4
<1>15. MetaInfoValue(m) = <<"Dict", ((((a ++ l) ++ c) ++ b) ++ e) ++ i>>
  BY <1>2, <1>3, <1>4, <1>5, <1>6, <1>7 DEF MetaInfoValue, TiersValues
<1> QED  BY <1>14, <1>15, DictIn DEF Values6

(* What is encoded is decoded.                                              *)
LEMMA EncodedIsDecoded ==
  ASSUME NEW v \in Values6
  PROVE  DecodeValue(Encode(v), 1).status = "ok" /\ DecodeValue(Encode(v), 1).value = v
<1>1. PICK s : s = Encode(v)
  OBVIOUS
<1>2. Decodes(s, v)
  BY <1>1, Level6
<1>3. s \in Seq(Tokens)
  BY <1>2 DEF Decodes
<1>4. At(s, 1, s)
  <2>1. PICK n : n \in Nat /\ n = Len(s)
    <3>1. Len(s) \in Nat
      BY <1>3
    <3> QED  BY <3>1
  <2>2. 1 \in Nat /\ 1 + n <= n + 1 /\ \A x \in 1..n : (1 - 1) + x = x
    BY <2>1
  <2> QED  BY <2>1, <2>2 DEF At
<1>5. Value(s)[1] = Ok(v, 1 + Len(s))
  BY <1>2, <1>3, <1>4 DEF Decodes
<1> QED  BY <1>1, <1>5 DEF DecodeValue, Ok

(* A torrent whose hashes are not a text is read back from the bytes it is  *)
(* encoded as (TorrentMetaInfo::parse after encode).                        *)
THEOREM BytesAreReadBack ==
  ASSUME NEW m \in MetaInfos, m.info.pieces \in Binary
  PROVE  Parse(Encode(MetaInfoValue(m))) = Ok(m, 0)
<1>1. PICK v, s : v = MetaInfoValue(m) /\ s = Encode(v)
  OBVIOUS
<1>2. DecodeValue(s, 1).status = "ok" /\ DecodeValue(s, 1).value = v
  BY <1>1, MetaInfoIn, EncodedIsDecoded
<1>3. Parse(s) = MetaInfoFrom(v)
  BY <1>2 DEF Parse, Then
<1> QED  BY <1>1, <1>3, ValueIsReadBack
-----------------------------------------------------------------------------
(* Answers of a tracker.                                                    *)
LEMMA SomeFails ==
  ASSUME NEW n \in Nat, NEW results, Len(results) = n,
         \A i \in 1..n : results[i].status # "panic",
         \E i \in 1..n : results[i].status # "ok"
  PROVE  Collect(results).status \notin {"ok", "panic"}
<1>1. PICK f : f = Collected(results)
  OBVIOUS
<1>2. \A i \in 1..(n + 1) : f[i] = CollectStep(results, f, i)
  BY <1>1, CollectedUnfolds
<1> DEFINE Fails(k) ==
             /\ f[k].status # "panic"
             /\ (\E i \in k..n : results[i].status # "ok") => f[k].status # "ok"
           Good == {k \in 0..(n + 1) : k = 0 \/ Fails(k)}
<1>3. ASSUME NEW k \in 0..(n + 1), \A j \in (k + 1)..(n + 1) : j \in Good PROVE k \in Good
  <2>1. CASE k = 0
    BY <2>1
  <2>2. CASE k = n + 1
    <3>1. n + 1 \in 1..(n + 1) /\ n + 1 > Len(results)
      OBVIOUS
    <3>2. f[n + 1] = Ok(<<>>, 0)
      BY <1>2, <3>1 DEF CollectStep
    <3>3. f[n + 1].status = "ok"
      BY <3>2 DEF Ok
    <3>4. \A i \in k..n : FALSE
      BY <2>2
    <3> QED  BY <2>2, <3>3, <3>4
  <2>3. CASE k \in 1..n
    <3>1. k + 1 \in (k + 1)..(n + 1)
      BY <2>3
    <3>2. Fails(k + 1)
      <4>1. k + 1 \in Good
        BY <1>3, <3>1
      <4> QED  BY <2>3, <4>1
    <3>3. f[k] = CollectStep(results, f, k)
      BY <1>2, <2>3
    <3>4. ~(k > Len(results)) /\ results[k].status # "panic"
      BY <2>3
    <3>5. CASE results[k].status # "ok"
      <4>1. f[k] = results[k]
        BY <3>3, <3>4, <3>5 DEF CollectStep
      <4> QED  BY <3>4, <3>5, <4>1
    <3>6. CASE results[k].status = "ok" /\ f[k + 1].status # "ok"
      <4>1. f[k] = f[k + 1]
        BY <3>3, <3>4, <3>6 DEF CollectStep
      <4> QED  BY <3>2, <3>6, <4>1
    <3>7. CASE results[k].status = "ok" /\ f[k + 1].status = "ok"
      <4>1. f[k].status = "ok"
        BY <3>3, <3>4, <3>7 DEF CollectStep, Ok
      <4>2. \A i \in (k + 1)..n : results[i].status = "ok"
        BY <3>2, <3>7
      <4>3. \A i \in k..n : i = k \/ i \in (k + 1)..n
        BY <2>3
      <4> QED  BY <3>7, <4>1, <4>2, <4>3
    <3> QED  BY <3>5, <3>6, <3>7
  <2> QED  BY <2>1, <2>2, <2>3
<1> HIDE DEF Good
<1>4. 1 \in Good
  <2>1. n + 1 \in Nat /\ 1 \in 0..(n + 1)
    OBVIOUS
  <2> QED  BY <1>3, <2>1, DownInduction
<1>5. Fails(1)
  BY <1>4 DEF Good
<1> QED  BY <1>1, <1>5 DEF Collect

LEMMA ResponseTexts == {"complete", "incomplete", "interval", "ip", MinInterval, "peers", "port"} \subseteq Text
BY ResponseAssumption DEF ResponseAssumption, ResponseFields, Text

LEMMA FlatIn ==
  ASSUME NEW V, Scalars \subseteq V, NEW f, IsFlat(f)
  PROVE  f \in Maps(V)
<1>1. f \in [DOMAIN f -> V] /\ DOMAIN f \in SUBSET Text
  BY DEF IsFlat
<1> QED  BY <1>1 DEF Maps

(* What the fields of a peer are read as, and what is not one.              *)
LEMMA IpIsRead ==
  ASSUME NEW p, IsFlat(p)
  PROVE  LET ip == GetField(<<"Dict", p>>, "ip", StringFrom)
         IN  IF Has(p, "ip", "String") THEN ip = Ok(p["ip"][2], 0) ELSE ip.status \notin {"ok", "panic"}
<1>1. CASE "ip" \notin DOMAIN p
  <2>1. GetField(<<"Dict", p>>, "ip", StringFrom) = Missing(0)
    BY <1>1 DEF GetField, GetValue, Then, Missing
  <2> QED  BY <1>1, <2>1 DEF Has, Missing
<1>2. CASE "ip" \in DOMAIN p
  <2>1. PICK v \in Scalars : v = p["ip"]
    BY <1>2 DEF IsFlat
  <2>2. GetField(<<"Dict", p>>, "ip", StringFrom) = StringFrom(v)
    BY <1>2, <2>1 DEF GetField, GetValue, Then, Ok
  <2>3. IF v[1] = "String" THEN StringFrom(v) = Ok(v[2], 0) ELSE StringFrom(v) = Malformed(0)
    BY <2>1 DEF Scalars, StringFrom
  <2>4. Has(p, "ip", "String") <=> v[1] = "String"
    BY <1>2, <2>1 DEF Has
  <2>5. Malformed(0).status \notin {"ok", "panic"}
    BY DEF Malformed
  <2>6. p["ip"][2] = v[2]
    BY <2>1
  <2> QED  BY <2>2, <2>3, <2>4, <2>5, <2>6
<1> QED  BY <1>1, <1>2

LEMMA PortIsRead ==
  ASSUME NEW p, IsFlat(p)
  PROVE  LET port == GetField(<<"Dict", p>>, "port", U16From)
         IN  IF Has(p, "port", "Integer") THEN port = Ok(p["port"][2] % TwoTo[Width \div 4], 0)
             ELSE port.status \notin {"ok", "panic"}
<1>1. CASE "port" \notin DOMAIN p
  <2>1. GetField(<<"Dict", p>>, "port", U16From) = Missing(0)
    BY <1>1 DEF GetField, GetValue, Then, Missing
  <2> QED  BY <1>1, <2>1 DEF Has, Missing
<1>2. CASE "port" \in DOMAIN p
  <2>1. GetField(<<"Dict", p>>, "port", U16From) = U16From(p["port"])
    BY <1>2 DEF GetField, GetValue, Then, Ok
  <2>2. PICK v : v = p["port"]
    OBVIOUS
  <2>3. IF v[1] = "Integer" THEN U16From(v) = Ok(v[2] % TwoTo[Width \div 4], 0)
        ELSE U16From(v) = Malformed(0)
    BY DEF U16From, IntegerFrom
  <2>4. Has(p, "port", "Integer") <=> v[1] = "Integer"
    BY <1>2, <2>2 DEF Has
  <2>5. Malformed(0).status \notin {"ok", "panic"}
    BY DEF Malformed
  <2> QED  BY <2>1, <2>2, <2>3, <2>4, <2>5
<1> QED  BY <1>1, <1>2

LEMMA PeerIsRead ==
  ASSUME NEW p, IsFlat(p)
  PROVE  IF IsPeer(p) THEN PeerFrom(<<"Dict", p>>) = Ok(ListedPeer(p), 0)
         ELSE PeerFrom(<<"Dict", p>>).status \notin {"ok", "panic"}
<1> DEFINE ip == GetField(<<"Dict", p>>, "ip", StringFrom)
           port == GetField(<<"Dict", p>>, "port", U16From)
<1>1. /\ Has(p, "ip", "String") => ip = Ok(p["ip"][2], 0)
      /\ ~Has(p, "ip", "String") => ip.status \notin {"ok", "panic"}
  BY IpIsRead
<1>2. /\ Has(p, "port", "Integer") => port = Ok(p["port"][2] % TwoTo[Width \div 4], 0)
      /\ ~Has(p, "port", "Integer") => port.status \notin {"ok", "panic"}
  BY PortIsRead
<1>3. PeerFrom(<<"Dict", p>>) =
        IF ip.status = "ok" THEN IF port.status = "ok" THEN Ok(Peer(ip.value, port.value), 0) ELSE port
        ELSE ip
  BY DEF PeerFrom, Then
<1> HIDE DEF ip, port
<1>4. \A v : Ok(v, 0).status = "ok" /\ Ok(v, 0).value = v
  BY DEF Ok
<1>5. CASE IsPeer(p)
  <2>1. ip = Ok(p["ip"][2], 0) /\ port = Ok(p["port"][2] % TwoTo[Width \div 4], 0)
    BY <1>1, <1>2, <1>5 DEF IsPeer
  <2> QED  BY <1>3, <1>4, <1>5, <2>1 DEF ListedPeer
<1>6. CASE ~IsPeer(p)
  <2>1. ip.status # "ok" \/ port.status # "ok"
    BY <1>1, <1>2, <1>6 DEF IsPeer
  <2>2. ip.status # "panic" /\ port.status # "panic"
    BY <1>1, <1>2, <1>4
  <2> QED  BY <1>3, <1>6, <2>1, <2>2
<1> QED  BY <1>5, <1>6

LEMMA ListedAreRead ==
  ASSUME NEW P, NEW listed \in Seq(P), \A i \in DOMAIN listed : IsFlat(listed[i])
  PROVE  LET v == ListValue([i \in DOMAIN listed |-> <<"Dict", listed[i]>>])
         IN  /\ v \in Values5
             /\ IF \A i \in DOMAIN listed : IsPeer(listed[i])
                THEN PeersFrom(v) = Ok([i \in DOMAIN listed |-> ListedPeer(listed[i])], 0)
                ELSE PeersFrom(v).status \notin {"ok", "panic"}
<1>1. PICK n : n \in Nat /\ n = Len(listed) /\ DOMAIN listed = 1..n
  OBVIOUS
<1>2. PICK l : l = [i \in 1..n |-> <<"Dict", listed[i]>>]
  OBVIOUS
<1>3. DOMAIN l = 1..n /\ l = [i \in 1..n |-> l[i]] /\ \A i \in 1..n : l[i] = <<"Dict", listed[i]>>
  BY <1>2
<1>4. ListValue(l) \in Values5
  <2>1. ASSUME NEW i \in 1..n PROVE l[i] \in Values4
    <3>1. listed[i] \in Maps(Values3)
      BY <1>1, FlatIn, Levels
    <3> QED  BY <1>3, <3>1, DictIn DEF Values4
  <2> QED  BY <1>1, <1>3, <2>1, ListIn DEF Values5
<1>5. PICK results : results = [i \in 1..n |-> PeerFrom(l[i])]
  OBVIOUS
<1>6. Len(results) = n /\ \A i \in 1..n : results[i] = PeerFrom(<<"Dict", listed[i]>>)
  <2>1. results = [i \in 1..n |-> results[i]]
    BY <1>5
  <2> QED  BY <1>1, <1>3, <1>5, <2>1, FunctionIsSeq
<1>7. PeersFrom(ListValue(l)) = Collect(results)
  <2>1. ListFrom(<<"List", l>>, PeerFrom) = Collect([i \in DOMAIN l |-> PeerFrom(l[i])])
    BY DEF ListFrom
  <2> QED  BY <1>3, <1>5, <2>1 DEF PeersFrom, ListValue
<1>8. \A i \in 1..n : IF IsPeer(listed[i]) THEN results[i] = Ok(ListedPeer(listed[i]), 0)
                      ELSE results[i].status \notin {"ok", "panic"}
  BY <1>1, <1>6, PeerIsRead
<1>9. CASE \A i \in 1..n : IsPeer(listed[i])
  <2>1. PICK vals : vals = [i \in 1..n |-> ListedPeer(listed[i])]
    OBVIOUS
  <2>2. vals = [i \in 1..n |-> vals[i]] /\ \A i \in 1..n : vals[i] = ListedPeer(listed[i])
    BY <2>1
  <2>3. Len(vals) = n /\ vals \in Seq({vals[i] : i \in 1..n})
    BY <1>1, <2>2, FunctionIsSeq
  <2>4. \A i \in 1..n : results[i] = Ok(vals[i], 0)
    BY <1>8, <1>9, <2>2
  <2>5. Collect(results) = Ok(vals, 0)
    BY <1>6, <2>3, <2>4, AllCollected
  <2> QED  BY <1>1, <1>2, <1>4, <1>7, <1>9, <2>1, <2>5
<1>10. CASE \E i \in 1..n : ~IsPeer(listed[i])
  <2>1. \E i \in 1..n : results[i].status # "ok"
    BY <1>8, <1>10
  <2>2. \A i \in 1..n : results[i].status # "panic"
    <3>1. \A x : Ok(x, 0).status = "ok"
      BY DEF Ok
    <3> QED  BY <1>8, <3>1
  <2>3. Collect(results).status \notin {"ok", "panic"}
    BY <1>1, <1>6, <2>1, <2>2, SomeFails
  <2> QED  BY <1>1, <1>2, <1>4, <1>7, <1>10, <2>3
<1> QED  BY <1>9, <1>10

(* What the answer r has under "peers".                                     *)
LEMMA PeersAreRead ==
  ASSUME NEW r \in Replies, r.form # "failure"
  PROVE  LET read == PeersFrom(PeersValue(r))
         IN  /\ PeersValue(r) \in Values5
             /\ NamesPeers(r) => read = Ok(NamedPeers(r), 0)
             /\ ~NamesPeers(r) => read.status # "ok"
             /\ read.status = "panic" <=> r.form = "ragged"
<1>1. \/ /\ r.form = "list" /\ r.peers \in Seq({r.peers[i] : i \in DOMAIN r.peers})
         /\ \A i \in DOMAIN r.peers : IsFlat(r.peers[i])
      \/ r.form = "compact" /\ r.chunks \in Strings \cap Binary /\ r.chunks \notin Ragged
      \/ r.form = "text" /\ r.chunks \in Text
      \/ r.form = "ragged" /\ r.chunks \in Strings \cap Binary /\ r.chunks \in Ragged
  BY RepliesAssumption DEF RepliesAssumption
<1>2. CASE r.form = "list"
  <2>1. PICK listed : listed = r.peers
    OBVIOUS
  <2>2. PICK v : v = ListValue([i \in DOMAIN listed |-> <<"Dict", listed[i]>>])
    OBVIOUS
  <2>3. PeersValue(r) = v
    BY <1>2, <2>1, <2>2 DEF PeersValue
  <2>4. /\ v \in Values5
        /\ IF \A i \in DOMAIN listed : IsPeer(listed[i])
           THEN PeersFrom(v) = Ok([i \in DOMAIN listed |-> ListedPeer(listed[i])], 0)
           ELSE PeersFrom(v).status \notin {"ok", "panic"}
    <3>1. listed \in Seq({listed[i] : i \in DOMAIN listed}) /\ \A i \in DOMAIN listed : IsFlat(listed[i])
      BY <1>1, <1>2, <2>1
    <3>2. PICK P : P = {listed[i] : i \in DOMAIN listed}
      OBVIOUS
    <3>3. listed \in Seq(P)
      BY <3>1, <3>2
    <3> QED  BY <2>2, <3>1, <3>3, ListedAreRead
  <2>5. NamesPeers(r) <=> \A i \in DOMAIN listed : IsPeer(listed[i])
    BY <1>2, <2>1 DEF NamesPeers
  <2>6. NamedPeers(r) = [i \in DOMAIN listed |-> ListedPeer(listed[i])]
    BY <1>2, <2>1 DEF NamedPeers
  <2> QED  BY <1>2, <2>3, <2>4, <2>5, <2>6 DEF Ok
<1>3. CASE r.form \in {"compact", "ragged"}
  <2>1. PeersValue(r) = <<"Bytes", r.chunks>>
    BY <1>3 DEF PeersValue
  <2>2. PeersValue(r) \in Values5
    BY <1>1, <1>3, <2>1, Levels DEF Scalars
  <2>3. PeersFrom(PeersValue(r)) = PeersOfChunks(r.chunks)
    BY <2>1 DEF PeersFrom
  <2> QED  BY <1>1, <1>3, <2>2, <2>3 DEF PeersOfChunks, Malformed, Ok, NamesPeers, NamedPeers
<1>4. CASE r.form = "text"
  <2>1. PeersValue(r) = StringValue(r.chunks)
    BY <1>4 DEF PeersValue
  <2>2. PeersValue(r) \in Values5
    BY <1>1, <1>4, <2>1, TextIn, Levels
  <2>3. PeersFrom(PeersValue(r)) = Malformed(0)
    BY <2>1 DEF PeersFrom, StringValue
  <2> QED  BY <1>4, <2>2, <2>3 DEF Malformed, NamesPeers
<1> QED  BY <1>1, <1>2, <1>3, <1>4

(* The other fields of an answer are found whatever its peers are.          *)
LEMMA CountIsRead ==
  ASSUME NEW f, NEW key
  PROVE  LET count == GetField(<<"Dict", f>>, key, U32From)
         IN  count.status # "panic" /\ (count.status = "ok" <=> Has(f, key, "Integer"))
BY DEF GetField, GetValue, Then, Ok, Missing, Malformed, U32From, IntegerFrom, Has

LEMMA MinIntervalIsRead ==
  ASSUME NEW f
  PROVE  LET minInterval == GetOptionField(<<"Dict", f>>, MinInterval, U32From)
         IN  /\ minInterval.status # "panic"
             /\ minInterval.status = "ok" <=> (MinInterval \in DOMAIN f => Has(f, MinInterval, "Integer"))
<1>1. CASE MinInterval \in DOMAIN f
  <2>1. GetOptionValue(<<"Dict", f>>, MinInterval) = Ok(<<f[MinInterval]>>, 0)
    BY <1>1 DEF GetOptionValue
  <2>2. <<f[MinInterval]>> # <<>> /\ <<f[MinInterval]>>[1] = f[MinInterval]
    OBVIOUS
  <2>3. PICK u : u = U32From(f[MinInterval])
    OBVIOUS
  <2>4. u.status # "panic" /\ (u.status = "ok" <=> Has(f, MinInterval, "Integer"))
    BY <1>1, <2>3 DEF U32From, IntegerFrom, Ok, Malformed, Has
  <2>5. GetOptionField(<<"Dict", f>>, MinInterval, U32From) =
          IF u.status = "ok" THEN Ok(<<u.value>>, 0) ELSE u
    BY <2>1, <2>2, <2>3 DEF GetOptionField, Then, Ok
  <2> QED  BY <1>1, <2>4, <2>5 DEF Ok
<1>2. CASE MinInterval \notin DOMAIN f
  <2>1. GetOptionValue(<<"Dict", f>>, MinInterval) = Ok(<<>>, 0)
    BY <1>2 DEF GetOptionValue
  <2> QED  BY <1>2, <2>1 DEF GetOptionField, Then, Ok
<1> QED  BY <1>1, <1>2

(* Its peers and whether its other fields are whole decide what becomes of  *)
(* an answer.                                                               *)
LEMMA ResponseIsRead ==
  ASSUME NEW others, "peers" \notin DOMAIN others, NEW v, NEW f, f = others ++ Entry("peers", v)
  PROVE  LET response == ResponseFrom(<<"Dict", f>>)
         IN  /\ PeersFrom(v).status # "ok" => response = PeersFrom(v)
             /\ PeersFrom(v).status = "ok" =>
                  /\ response.status # "panic"
                  /\ response.status = "ok" <=> IsWhole(others)
                  /\ response.status = "ok" => response.value.peers = PeersFrom(v).value
<1>1. WithEntry(others, "peers", v, f)
  BY JoinEntry
<1>2. MinInterval # "peers"
  BY Zenon DEF MinInterval
<1>3. \A key : key # "peers" =>
        /\ key \in DOMAIN f <=> key \in DOMAIN others
        /\ Has(f, key, "Integer") <=> Has(others, key, "Integer")
  BY <1>1 DEF WithEntry, Has
<1>4. GetField(<<"Dict", f>>, "peers", PeersFrom) = PeersFrom(v)
  BY <1>1 DEF WithEntry, GetField, GetValue, Then, Ok
<1> DEFINE interval == GetField(<<"Dict", f>>, "interval", U32From)
           minInterval == GetOptionField(<<"Dict", f>>, MinInterval, U32From)
           complete == GetField(<<"Dict", f>>, "complete", U32From)
           incomplete == GetField(<<"Dict", f>>, "incomplete", U32From)
<1>5. /\ interval.status # "panic" /\ minInterval.status # "panic"
      /\ complete.status # "panic" /\ incomplete.status # "panic"
  BY CountIsRead, MinIntervalIsRead
<1>6. IsWhole(others) <=> /\ interval.status = "ok" /\ minInterval.status = "ok"
                          /\ complete.status = "ok" /\ incomplete.status = "ok"
  <2>1. /\ interval.status = "ok" <=> Has(others, "interval", "Integer")
        /\ complete.status = "ok" <=> Has(others, "complete", "Integer")
        /\ incomplete.status = "ok" <=> Has(others, "incomplete", "Integer")
    BY <1>3, CountIsRead
  <2>2. minInterval.status = "ok" <=> (MinInterval \in DOMAIN others => Has(others, MinInterval, "Integer"))
    BY <1>2, <1>3, MinIntervalIsRead
  <2> HIDE DEF interval, minInterval, complete, incomplete
  <2> QED  BY <2>1, <2>2 DEF IsWhole
<1> DEFINE response == ResponseFrom(<<"Dict", f>>)
           whole == [interval |-> interval.value, minInterval |-> minInterval.value,
                     complete |-> complete.value, incomplete |-> incomplete.value,
                     peers |-> PeersFrom(v).value]
<1>7. response = IF PeersFrom(v).status # "ok" THEN PeersFrom(v)
                 ELSE IF interval.status # "ok" THEN interval
                 ELSE IF minInterval.status # "ok" THEN minInterval
                 ELSE IF complete.status # "ok" THEN complete
                 ELSE IF incomplete.status # "ok" THEN incomplete
                 ELSE Ok(whole, 0)
  <2>1. PICK found : found = PeersFrom(v)
    OBVIOUS
  <2> QED  BY <1>4, <2>1 DEF ResponseFrom, Then
<1>8. Ok(whole, 0).status = "ok" /\ Ok(whole, 0).value.peers = PeersFrom(v).value
  BY DEF Ok
<1> HIDE DEF interval, minInterval, complete, incomplete, response, whole
<1>9. /\ PeersFrom(v).status # "ok" => response = PeersFrom(v)
      /\ PeersFrom(v).status = "ok" =>
           /\ response.status # "panic"
           /\ response.status = "ok" <=> IsWhole(others)
           /\ response.status = "ok" => response.value.peers = PeersFrom(v).value
  BY <1>5, <1>6, <1>7, <1>8
<1> QED  BY <1>9 DEF response

LEMMA FailureIsRefused ==
  ASSUME NEW others, "peers" \notin DOMAIN others, NEW f, f = others ++ NoEntry
  PROVE  ResponseFrom(<<"Dict", f>>).status = "missing"
<1>1. "peers" \notin DOMAIN f
  BY DEF ++, NoEntry
<1>2. GetField(<<"Dict", f>>, "peers", PeersFrom) = Missing(0)
  BY <1>1 DEF GetField, GetValue, Then, Missing
<1> QED  BY <1>2 DEF ResponseFrom, Then, Missing

(* What TrackerResponse::parse makes of an answer whose fields, but for its *)
(* peers, are scalars, as are those of its peers: the peers in either form  *)
(* if the counts and the interval are there too, a panic of a short last    *)
(* chunk, and an error of every other.                                      *)
THEOREM AnswerIsParsed ==
  ASSUME NEW r \in Replies
  PROVE  LET parsed == ParseResponse(Encode(Answer(r)))
         IN  /\ parsed.status = "ok" <=> NamesPeers(r) /\ IsWhole(r.others)
             /\ parsed.status = "panic" <=> r.form = "ragged"
             /\ parsed.status = "ok" => parsed.value.peers = NamedPeers(r)
<1>1. /\ IsFlat(r.others) /\ "peers" \notin DOMAIN r.others
      /\ r.form \in {"list", "compact", "text", "ragged", "failure"}
  BY RepliesAssumption DEF RepliesAssumption
<1>2. r.others \in Maps(Values5)
  BY <1>1, FlatIn, Levels
<1>3. PICK parsed : parsed = ParseResponse(Encode(Answer(r)))
  OBVIOUS
<1>4. ASSUME NEW f \in Maps(Values5), Answer(r) = <<"Dict", f>>
      PROVE  parsed = ResponseFrom(<<"Dict", f>>)
  <2>1. Answer(r) \in Values6
    BY <1>4, DictIn DEF Values6
  <2>2. PICK s : s = Encode(Answer(r))
    OBVIOUS
  <2>3. DecodeValue(s, 1).status = "ok" /\ DecodeValue(s, 1).value = <<"Dict", f>>
    BY <1>4, <2>1, <2>2, EncodedIsDecoded
  <2>4. ParseResponse(s) = ResponseFrom(DecodeValue(s, 1).value)
    BY <2>3 DEF ParseResponse, Then
  <2> QED  BY <1>3, <2>2, <2>3, <2>4
<1>5. CASE r.form = "failure"
  <2>1. PICK f : f = r.others ++ NoEntry
    OBVIOUS
  <2>2. Answer(r) = <<"Dict", f>>
    BY <1>5, <2>1 DEF Answer
  <2>3. NoEntry \in Maps(Values5)
    <3>1. NoEntry \in [{} -> Values5] /\ {} \in SUBSET Text
      BY DEF NoEntry
    <3> QED  BY <3>1 DEF Maps
  <2>4. f \in Maps(Values5)
    BY <1>2, <2>1, <2>3, JoinIn
  <2>5. parsed.status = "missing"
    BY <1>1, <1>4, <2>1, <2>2, <2>4, FailureIsRefused
  <2> QED  BY <1>3, <1>5, <2>5 DEF NamesPeers
<1>6. CASE r.form # "failure"
  <2>1. PICK v, e, f : v = PeersValue(r) /\ e = Entry("peers", v) /\ f = r.others ++ e
    OBVIOUS
  <2>2. Answer(r) = <<"Dict", f>>
    BY <1>6, <2>1 DEF Answer
  <2>3. e \in Maps(Values5)
    BY <1>6, <2>1, EntryIn, ResponseTexts, PeersAreRead
  <2>4. f \in Maps(Values5)
    BY <1>2, <2>1, <2>3, JoinIn
  <2>5. parsed = ResponseFrom(<<"Dict", f>>)
    BY <1>4, <2>2, <2>4
  <2>6. /\ PeersFrom(v).status # "ok" => parsed = PeersFrom(v)
        /\ PeersFrom(v).status = "ok" =>
             /\ parsed.status # "panic"
             /\ parsed.status = "ok" <=> IsWhole(r.others)
             /\ parsed.status = "ok" => parsed.value.peers = PeersFrom(v).value
    BY <1>1, <2>1, <2>5, ResponseIsRead
  <2>7. /\ PeersFrom(v).status = "ok" <=> NamesPeers(r)
        /\ NamesPeers(r) => PeersFrom(v).value = NamedPeers(r)
        /\ PeersFrom(v).status = "panic" <=> r.form = "ragged"
    BY <1>6, <2>1, PeersAreRead DEF Ok
  <2>8. /\ parsed.status = "ok" <=> NamesPeers(r) /\ IsWhole(r.others)
        /\ parsed.status = "panic" <=> r.form = "ragged"
        /\ parsed.status = "ok" => parsed.value.peers = NamedPeers(r)
    BY <2>6, <2>7
  <2> QED  BY <1>3, <2>8
<1> QED  BY <1>5, <1>6
-----------------------------------------------------------------------------
(* The urls of a torrent: as many as there are.                             *)
Where(s, u) == {k \in 1..Len(s) : s[k] = u}
Pairs(n, A) == UNION {{<<i, x>> : x \in A[i]} : i \in 1..n}
Spots(n, parts, u) == Pairs(n, [i \in 1..n |-> Where(parts[i], u)])

LEMMA PairsAre ==
  ASSUME NEW n \in Nat, NEW A
  PROVE  /\ \A i \in 1..n : \A x \in A[i] : <<i, x>> \in Pairs(n, A)
         /\ \A p \in Pairs(n, A) : p[1] \in 1..n /\ p[2] \in A[p[1]] /\ p = <<p[1], p[2]>>
BY DEF Pairs

(* Each place of u in a part is one in the whole.                           *)
LEMMA FlatCount ==
  ASSUME NEW S, NEW n \in Nat, NEW parts \in [1..n -> Seq(S)], NEW u
  PROVE  ExistsBijection(Spots(n, parts, u), Where(FlattenSeq(parts), u))
<1>1. PICK whole : whole = FlattenSeq(parts) /\ whole \in Seq(S)
  BY FlattenParts
<1>2. PICK start : Follow(parts, n, start, whole)
  BY <1>1, FlattenParts
<1>3. PICK places : places = [i \in 1..n |-> Where(parts[i], u)]
  OBVIOUS
<1>4. PICK A : A = Pairs(n, places)
  OBVIOUS
<1>5. PICK B : B = Where(whole, u)
  OBVIOUS
<1>6. \A i \in 1..n : parts[i] \in Seq(S) /\ Len(parts[i]) \in Nat
  OBVIOUS
<1>7. \A p \in A : p[1] \in 1..n /\ p[2] \in 1..Len(parts[p[1]]) /\ parts[p[1]][p[2]] = u /\ p = <<p[1], p[2]>>
  <2>1. \A p \in A : p[1] \in 1..n /\ p[2] \in places[p[1]] /\ p = <<p[1], p[2]>>
    BY <1>4, PairsAre
  <2>2. \A i \in 1..n : \A x \in places[i] : x \in 1..Len(parts[i]) /\ parts[i][x] = u
    BY <1>3 DEF Where
  <2> QED  BY <2>1, <2>2
<1>8. \A i \in 1..n : \A x \in 1..Len(parts[i]) : parts[i][x] = u => <<i, x>> \in A
  <2>1. \A i \in 1..n : \A x \in 1..Len(parts[i]) : parts[i][x] = u => x \in places[i]
    BY <1>3 DEF Where
  <2> QED  BY <1>4, <2>1, PairsAre
<1>9. \A i \in 1..n : start[i] \in Nat
  BY <1>2 DEF Follow
<1>10. \A i \in 1..n : \A x \in 1..Len(parts[i]) :
         start[i] + x \in 1..Len(whole) /\ whole[start[i] + x] = parts[i][x]
  <2> SUFFICES ASSUME NEW i \in 1..n, NEW x \in 1..Len(parts[i])
               PROVE  start[i] + x \in 1..Len(whole) /\ whole[start[i] + x] = parts[i][x]
    OBVIOUS
  <2>1. PICK a, l, w : /\ a \in Nat /\ l \in Nat /\ w \in Nat
                       /\ a = start[i] /\ l = Len(parts[i]) /\ w = Len(whole)
    <3>1. start[i] \in Nat /\ Len(parts[i]) \in Nat
      BY <1>6, <1>9
    <3>2. Len(whole) \in Nat
      BY <1>1
    <3> QED  BY <3>1, <3>2
  <2>2. a + l <= w /\ whole[a + x] = parts[i][x]
    BY <1>2, <2>1 DEF Follow
  <2>3. a + x \in 1..w
    BY <2>1, <2>2
  <2> QED  BY <2>1, <2>2, <2>3
<1>11. PICK g : g = [p \in A |-> start[p[1]] + p[2]]
  OBVIOUS
<1>12. g \in [A -> B]
  <2>1. ASSUME NEW p \in A PROVE start[p[1]] + p[2] \in B
    BY <1>5, <1>7, <1>10 DEF Where
  <2> QED  BY <1>11, <2>1
<1>13. ASSUME NEW p \in A, NEW q \in A, g[p] = g[q] PROVE p = q
  <2>1. PICK i, x, j, y : /\ i = p[1] /\ x = p[2] /\ j = q[1] /\ y = q[2]
                          /\ i \in 1..n /\ j \in 1..n
                          /\ x \in 1..Len(parts[i]) /\ y \in 1..Len(parts[j])
                          /\ p = <<i, x>> /\ q = <<j, y>>
    BY <1>7
  <2>2. start[i] + x = start[j] + y
    BY <1>11, <1>13, <2>1
  <2>3. PICK a, b, l, m : /\ a \in Nat /\ b \in Nat /\ l \in Nat /\ m \in Nat
                          /\ a = start[i] /\ b = start[j] /\ l = Len(parts[i]) /\ m = Len(parts[j])
    <3>1. start[i] \in Nat /\ Len(parts[i]) \in Nat /\ start[j] \in Nat /\ Len(parts[j]) \in Nat
      BY <1>6, <1>9, <2>1
    <3> QED  BY <3>1
  <2>4. a + x = b + y
    BY <2>2, <2>3
  <2>5. x \in 1..l /\ y \in 1..m
    BY <2>1, <2>3
  <2>6. /\ start[i + 1] = start[i] + Len(parts[i]) /\ start[j + 1] = start[j] + Len(parts[j])
        /\ i < j => start[i + 1] <= start[j]
        /\ j < i => start[j + 1] <= start[i]
    <3>1. \A h \in 1..n : start[h + 1] = start[h] + Len(parts[h])
      BY <1>2 DEF Follow
    <3>2. \A h, k \in 1..n : h < k => start[h + 1] <= start[k]
      BY <1>2 DEF Follow
    <3> QED  BY <2>1, <3>1, <3>2
  <2>7. (i < j => a + l <= b) /\ (j < i => b + m <= a)
    BY <2>3, <2>6
  <2>8. i = j
    <3>1. x \in Nat /\ y \in Nat /\ 1 <= x /\ x <= l /\ 1 <= y /\ y <= m
      BY <2>3, <2>5
    <3>2. a \in Nat /\ b \in Nat /\ l \in Nat /\ m \in Nat
      BY <2>3
    <3>3. ~(a + l <= b) /\ ~(b + m <= a)
      BY <2>4, <3>1, <3>2
    <3>4. ~(i < j) /\ ~(j < i)
      BY <2>7, <3>3
    <3>5. i \in Int /\ j \in Int
      BY <2>1
    <3> QED  BY <3>4, <3>5
  <2>9. x = y
    BY <2>3, <2>4, <2>5, <2>8
  <2> QED  BY <2>1, <2>8, <2>9
<1>14. ASSUME NEW k \in B PROVE \E p \in A : g[p] = k
  <2>1. k \in 1..Len(whole) /\ whole[k] = u
    BY <1>5 DEF Where
  <2>2. PICK i \in 1..n : \E x \in 1..Len(parts[i]) : k = start[i] + x
    BY <1>2, <2>1 DEF Follow
  <2>3. PICK x \in 1..Len(parts[i]) : k = start[i] + x
    BY <2>2
  <2>4. parts[i][x] = u
    BY <1>10, <2>1, <2>3
  <2>5. <<i, x>> \in A
    BY <1>8, <2>4
  <2>6. g[<<i, x>>] = k
    BY <1>11, <2>3, <2>5
  <2> QED  BY <2>5, <2>6
<1>15. g \in Bijection(A, B)
  BY <1>12, <1>13, <1>14, Fun_IsBij
<1> QED  BY <1>1, <1>3, <1>4, <1>5, <1>15 DEF ExistsBijection, Spots

LEMMA PairsBijection ==
  ASSUME NEW n \in Nat, NEW A, NEW B, \A i \in 1..n : ExistsBijection(A[i], B[i])
  PROVE  ExistsBijection(Pairs(n, A), Pairs(n, B))
<1>1. PICK h : h = [i \in 1..n |-> CHOOSE f : f \in Bijection(A[i], B[i])]
  OBVIOUS
<1>2. \A i \in 1..n : h[i] \in Bijection(A[i], B[i])
  BY <1>1 DEF ExistsBijection
<1>3. ASSUME NEW i \in 1..n
      PROVE  /\ \A x \in A[i] : h[i][x] \in B[i]
             /\ \A x, y \in A[i] : h[i][x] = h[i][y] => x = y
             /\ \A z \in B[i] : \E x \in A[i] : h[i][x] = z
  <2>1. PICK f : f = h[i] /\ f \in Bijection(A[i], B[i])
    BY <1>2
  <2>2. /\ f \in [A[i] -> B[i]]
        /\ \A a, b \in A[i] : f[a] = f[b] => a = b
        /\ \A t \in B[i] : \E s \in A[i] : f[s] = t
    BY <2>1, Fun_BijectionProperties
  <2> QED  BY <2>1, <2>2
<1>4. PICK g : g = [p \in Pairs(n, A) |-> <<p[1], h[p[1]][p[2]]>>]
  OBVIOUS
<1>5. g \in [Pairs(n, A) -> Pairs(n, B)]
  <2>1. ASSUME NEW p \in Pairs(n, A) PROVE <<p[1], h[p[1]][p[2]]>> \in Pairs(n, B)
    <3>1. p[1] \in 1..n /\ p[2] \in A[p[1]]
      BY PairsAre
    <3>2. h[p[1]][p[2]] \in B[p[1]]
      BY <1>3, <3>1
    <3> QED  BY <3>1, <3>2, PairsAre
  <2> QED  BY <1>4, <2>1
<1>6. ASSUME NEW p \in Pairs(n, A), NEW q \in Pairs(n, A), g[p] = g[q] PROVE p = q
  <2>1. /\ p[1] \in 1..n /\ p[2] \in A[p[1]] /\ p = <<p[1], p[2]>>
        /\ q[1] \in 1..n /\ q[2] \in A[q[1]] /\ q = <<q[1], q[2]>>
    BY PairsAre
  <2>2. p[1] = q[1] /\ h[p[1]][p[2]] = h[q[1]][q[2]]
    BY <1>4, <1>6
  <2>3. p[2] = q[2]
    BY <1>3, <2>1, <2>2
  <2> QED  BY <2>1, <2>2, <2>3
<1>7. ASSUME NEW t \in Pairs(n, B) PROVE \E p \in Pairs(n, A) : g[p] = t
  <2>1. t[1] \in 1..n /\ t[2] \in B[t[1]] /\ t = <<t[1], t[2]>>
    BY PairsAre
  <2>2. PICK x \in A[t[1]] : h[t[1]][x] = t[2]
    BY <1>3, <2>1
  <2>3. <<t[1], x>> \in Pairs(n, A)
    BY <2>1, <2>2, PairsAre
  <2>4. g[<<t[1], x>>] = t
    BY <1>4, <2>1, <2>2, <2>3
  <2> QED  BY <2>3, <2>4
<1>8. g \in Bijection(Pairs(n, A), Pairs(n, B))
  BY <1>5, <1>6, <1>7, Fun_IsBij
<1> QED  BY <1>8 DEF ExistsBijection

UrlOf(string) == IF string \in DOMAIN ParsedUrl THEN <<ParsedUrl[string]>> ELSE <<>>
Urls == {ParsedUrl[w] : w \in DOMAIN ParsedUrl}
NamedAt(strings, u) == {k \in DOMAIN strings : Names(strings[k], u)}

(* The strings that are the url u are where it is among the urls.           *)
LEMMA UrlsCount ==
  ASSUME NEW strings \in Seq(Text), NEW u
  PROVE  UrlsOf(strings) \in Seq(Urls) /\ ExistsBijection(NamedAt(strings, u), Where(UrlsOf(strings), u))
<1>1. PICK n : n \in Nat /\ n = Len(strings) /\ DOMAIN strings = 1..n
  OBVIOUS
<1>2. PICK parts : parts = [i \in 1..n |-> UrlOf(strings[i])]
  OBVIOUS
<1>3. UrlsOf(strings) = FlattenSeq(parts)
  BY <1>1, <1>2 DEF UrlsOf, UrlOf
<1>4. ASSUME NEW w PROVE UrlOf(w) \in Seq(Urls)
  <2>1. ASSUME NEW v \in Urls PROVE <<v>> \in Seq(Urls)
    OBVIOUS
  <2>2. <<>> \in Seq(Urls)
    OBVIOUS
  <2>3. w \in DOMAIN ParsedUrl => ParsedUrl[w] \in Urls
    BY DEF Urls
  <2> QED  BY <2>1, <2>2, <2>3 DEF UrlOf
<1>5. parts \in [1..n -> Seq(Urls)]
  BY <1>2, <1>4
<1>6. UrlsOf(strings) \in Seq(Urls)
  BY <1>1, <1>3, <1>5, FlattenParts
<1>7. ExistsBijection(Spots(n, parts, u), Where(UrlsOf(strings), u))
  BY <1>1, <1>3, <1>5, FlatCount
<1>8. PICK A, B : A = NamedAt(strings, u) /\ B = Spots(n, parts, u)
  OBVIOUS
<1>9. \A w : Where(UrlOf(w), u) = IF Names(w, u) THEN {1} ELSE {}
  <2> SUFFICES ASSUME NEW w PROVE Where(UrlOf(w), u) = IF Names(w, u) THEN {1} ELSE {}
    OBVIOUS
  <2>1. CASE w \in DOMAIN ParsedUrl
    <3>1. PICK v, s : v = ParsedUrl[w] /\ s = <<v>> /\ s = UrlOf(w)
      BY <2>1 DEF UrlOf
    <3>2. Len(s) = 1 /\ s[1] = v /\ 1..1 = {1}
      BY <3>1
    <3> QED  BY <2>1, <3>1, <3>2 DEF Where, Names
  <2>2. CASE w \notin DOMAIN ParsedUrl
    <3>1. UrlOf(w) = <<>> /\ Len(<<>>) = 0 /\ 1..0 = {}
      BY <2>2 DEF UrlOf
    <3> QED  BY <2>2, <3>1 DEF Where, Names
  <2> QED  BY <2>1, <2>2
<1>10. PICK places : places = [i \in 1..n |-> Where(parts[i], u)]
  OBVIOUS
<1>11. \A i \in 1..n : places[i] = IF Names(strings[i], u) THEN {1} ELSE {}
  BY <1>2, <1>9, <1>10
<1>12. B = Pairs(n, places)
  BY <1>8, <1>10 DEF Spots
<1>13. \A k \in A : k \in 1..n /\ <<k, 1>> \in B
  BY <1>1, <1>8, <1>11, <1>12, PairsAre DEF NamedAt
<1>14. \A p \in B : p[1] \in A /\ p = <<p[1], 1>>
  <2>1. \A p \in B : p[1] \in 1..n /\ p[2] \in places[p[1]] /\ p = <<p[1], p[2]>>
    BY <1>1, <1>12, PairsAre
  <2> QED  BY <1>1, <1>8, <1>11, <2>1 DEF NamedAt
<1>15. PICK g : g = [k \in A |-> <<k, 1>>]
  OBVIOUS
<1>16. g \in [A -> B] /\ \A a, b \in A : g[a] = g[b] => a = b
  BY <1>13, <1>15
<1>17. \A p \in B : \E k \in A : g[k] = p
  BY <1>14, <1>15
<1>18. g \in Bijection(A, B)
  BY <1>16, <1>17, Fun_IsBij
<1>19. ExistsBijection(A, B)
  BY <1>18 DEF ExistsBijection
<1> QED  BY <1>6, <1>7, <1>8, <1>19, Fun_ExistsBijTransitive

LEMMA ListedCount ==
  ASSUME NEW tiers \in Seq(Seq(Text)), NEW u
  PROVE  /\ ListedUrls(tiers) \in Seq(Urls)
         /\ ExistsBijection(Listings(tiers, u), Where(ListedUrls(tiers), u))
<1>1. PICK n : n \in Nat /\ n = Len(tiers) /\ DOMAIN tiers = 1..n /\ \A i \in 1..n : tiers[i] \in Seq(Text)
  OBVIOUS
<1>2. PICK parts : parts = [i \in 1..n |-> UrlsOf(tiers[i])]
  OBVIOUS
<1>3. ListedUrls(tiers) = FlattenSeq(parts)
  BY <1>1, <1>2 DEF ListedUrls
<1>4. parts \in [1..n -> Seq(Urls)]
  BY <1>1, <1>2, UrlsCount
<1>5. ListedUrls(tiers) \in Seq(Urls)
  BY <1>1, <1>3, <1>4, FlattenParts
<1>6. ExistsBijection(Spots(n, parts, u), Where(ListedUrls(tiers), u))
  BY <1>1, <1>3, <1>4, FlatCount
<1>7. PICK A, B : A = [i \in 1..n |-> NamedAt(tiers[i], u)] /\ B = [i \in 1..n |-> Where(parts[i], u)]
  OBVIOUS
<1>8. \A i \in 1..n : ExistsBijection(A[i], B[i])
  BY <1>1, <1>2, <1>7, UrlsCount
<1>9. ExistsBijection(Pairs(n, A), Pairs(n, B))
  BY <1>1, <1>8, PairsBijection
<1>10. Pairs(n, B) = Spots(n, parts, u)
  BY <1>7 DEF Spots
<1>11. Pairs(n, A) = Listings(tiers, u)
  <2>1. \A i \in 1..n : A[i] = {k \in DOMAIN tiers[i] : Names(tiers[i][k], u)}
    BY <1>7 DEF NamedAt
  <2> QED  BY <1>1, <2>1 DEF Pairs, Listings
<1> QED  BY <1>5, <1>6, <1>9, <1>10, <1>11, Fun_ExistsBijTransitive

LEMMA NoUrl == UrlsOf(<<>>) = <<>>
<1>1. PICK parts : parts = [i \in 1..0 |-> UrlOf(<<>>[i])]
  OBVIOUS
<1>2. UrlsOf(<<>>) = FlattenSeq(parts)
  BY <1>1 DEF UrlsOf, UrlOf
<1>3. parts \in [1..0 -> Seq(Urls)]
  BY <1>1
<1>4. PICK start : Follow(parts, 0, start, FlattenSeq(parts)) /\ FlattenSeq(parts) \in Seq(Urls)
  BY <1>3, FlattenParts
<1>5. Len(FlattenSeq(parts)) = 0
  BY <1>4 DEF Follow
<1> QED  BY <1>2, <1>4, <1>5

LEMMA OneUrl ==
  ASSUME NEW w \in Text
  PROVE  UrlsOf(<<w>>) = UrlOf(w)
<1>1. PICK parts : parts = [i \in 1..1 |-> UrlOf(w)]
  OBVIOUS
<1>2. UrlsOf(<<w>>) = FlattenSeq(parts)
  <2>1. DOMAIN <<w>> = 1..1 /\ \A i \in 1..1 : <<w>>[i] = w
    OBVIOUS
  <2> QED  BY <1>1, <2>1 DEF UrlsOf, UrlOf
<1>3. UrlOf(w) \in Seq(Urls)
  <2>1. ASSUME NEW v \in Urls PROVE <<v>> \in Seq(Urls)
    OBVIOUS
  <2>2. <<>> \in Seq(Urls)
    OBVIOUS
  <2>3. w \in DOMAIN ParsedUrl => ParsedUrl[w] \in Urls
    BY DEF Urls
  <2> QED  BY <2>1, <2>2, <2>3 DEF UrlOf
<1>4. parts \in [1..1 -> Seq(Urls)] /\ parts[1] = UrlOf(w)
  BY <1>1, <1>3
<1>5. PICK whole : whole = FlattenSeq(parts) /\ whole \in Seq(Urls)
  BY <1>4, FlattenParts
<1>6. PICK start : Follow(parts, 1, start, whole)
  BY <1>4, <1>5, FlattenParts
<1>7. PICK p, l : p = UrlOf(w) /\ p \in Seq(Urls) /\ l = Len(p) /\ l \in Nat
  BY <1>3
<1>8. start[1] = 0 /\ start[1 + 1] = Len(whole) /\ start[1 + 1] = 0 + l
      /\ \A x \in 1..l : whole[0 + x] = p[x]
  <2>1. 1 \in 1..1
    OBVIOUS
  <2> QED  BY <1>4, <1>6, <1>7, <2>1 DEF Follow
<1>9. Len(whole) = l /\ \A x \in 1..l : 0 + x = x
  BY <1>7, <1>8
<1>10. \A x \in 1..l : whole[x] = p[x]
  BY <1>8, <1>9
<1>11. whole = p
  BY <1>5, <1>7, <1>9, <1>10
<1> QED  BY <1>2, <1>5, <1>7, <1>11

LEMMA CountIs ==
  ASSUME NEW S, NEW s \in Seq(S), NEW u, NEW T, ExistsBijection(T, Where(s, u))
  PROVE  Cardinality(Where(s, u)) = Cardinality(T) /\ (Where(s, u) = {} <=> T = {})
<1>1. PICK n \in Nat : n = Len(s)
  OBVIOUS
<1>2. IsFiniteSet(1..n) /\ Where(s, u) \in SUBSET (1..n)
  BY <1>1, FS_Interval DEF Where
<1>3. IsFiniteSet(Where(s, u))
  BY <1>2, FS_Subset
<1>4. ExistsBijection(Where(s, u), T)
  BY Fun_ExistsBijSymmetric
<1>5. IsFiniteSet(T) /\ Cardinality(T) = Cardinality(Where(s, u))
  BY <1>3, <1>4, FS_Bijection
<1> QED  BY <1>3, <1>5, FS_EmptySet

(* TorrentMetaInfo::get_urls takes each url of the tiers as often as they   *)
(* have it, and the announce url, if they do not, once.                     *)
THEOREM UrlsAreTaken ==
  ASSUME NEW m \in MetaInfos, NEW u
  PROVE  Cardinality({i \in DOMAIN GetUrls(m) : GetUrls(m)[i] = u}) =
           IF Listings(TiersOf(m), u) = {} /\ IsAnnounced(m, u) THEN 1
           ELSE Cardinality(Listings(TiersOf(m), u))
<1>1. PICK tiers : tiers = TiersOf(m) /\ tiers \in Seq(Seq(Text))
  <2>1. m.announceList \in TierLists
    BY DEF MetaInfos
  <2>2. TiersOf(m) \in Seq(Seq(Text))
    <3>1. CASE m.announceList = <<>>
      <4>1. <<>> \in Seq(Seq(Text))
        OBVIOUS
      <4> QED  BY <3>1, <4>1 DEF TiersOf
    <3>2. ASSUME NEW t \in Seq(Seq(Text)), m.announceList = <<t>> PROVE TiersOf(m) \in Seq(Seq(Text))
      <4>1. <<t>> # <<>> /\ <<t>>[1] = t
        OBVIOUS
      <4> QED  BY <3>2, <4>1 DEF TiersOf
    <3> QED  BY <2>1, <3>1, <3>2 DEF TierLists
  <2> QED  BY <2>2
<1>2. PICK listed, n : listed = ListedUrls(tiers) /\ listed \in Seq(Urls)
                       /\ n = Len(listed) /\ n \in Nat /\ DOMAIN listed = 1..n
  <2>1. ListedUrls(tiers) \in Seq(Urls)
    BY <1>1, ListedCount
  <2> QED  BY <2>1
<1>3. \A v : Cardinality(Where(listed, v)) = Cardinality(Listings(tiers, v))
             /\ (Where(listed, v) = {} <=> Listings(tiers, v) = {})
  <2> TAKE v
  <2>1. ExistsBijection(Listings(tiers, v), Where(listed, v))
    BY <1>1, <1>2, ListedCount
  <2> QED  BY <1>2, <2>1, CountIs
<1>4. PICK announce : announce = UrlsOf(m.announce)
  OBVIOUS
<1>5. GetUrls(m) = IF \E i \in DOMAIN listed : announce # <<>> /\ listed[i] = announce[1]
                   THEN listed ELSE listed \o announce
  BY <1>1, <1>2, <1>4 DEF GetUrls
<1>6. \/ announce = <<>> /\ ~IsAnnounced(m, u)
      \/ \E v : announce = <<v>> /\ v \in Urls /\ (IsAnnounced(m, u) <=> u = v)
  <2>1. m.announce \in Options
    BY DEF MetaInfos
  <2>2. CASE m.announce = <<>>
    BY <1>4, <2>2, NoUrl DEF IsAnnounced
  <2>3. ASSUME NEW w \in Text, m.announce = <<w>>
        PROVE  \/ announce = <<>> /\ ~IsAnnounced(m, u)
               \/ \E v : announce = <<v>> /\ v \in Urls /\ (IsAnnounced(m, u) <=> u = v)
    <3>1. announce = UrlOf(w)
      BY <1>4, <2>3, OneUrl
    <3>2. IsAnnounced(m, u) <=> Names(w, u)
      <4>1. <<w>> # <<>> /\ <<w>>[1] = w
        OBVIOUS
      <4> QED  BY <2>3, <4>1 DEF IsAnnounced
    <3> QED  BY <3>1, <3>2 DEF UrlOf, Names, Urls
  <2> QED  BY <2>1, <2>2, <2>3 DEF Options
<1>7. Where(listed, u) = {i \in DOMAIN listed : listed[i] = u}
  BY <1>2 DEF Where
<1>8. CASE GetUrls(m) = listed /\ (IsAnnounced(m, u) => Listings(tiers, u) # {})
  BY <1>1, <1>3, <1>7, <1>8
<1>9. ASSUME NEW v \in Urls, announce = <<v>>, IsAnnounced(m, u) <=> u = v,
             GetUrls(m) = listed \o <<v>>, \A i \in DOMAIN listed : listed[i] # v
      PROVE  Cardinality({i \in DOMAIN GetUrls(m) : GetUrls(m)[i] = u}) =
               IF Listings(tiers, u) = {} /\ IsAnnounced(m, u) THEN 1
               ELSE Cardinality(Listings(tiers, u))
  <2>1. PICK all : all = GetUrls(m)
    OBVIOUS
  <2>2. /\ DOMAIN all = 1..(n + 1) /\ all[n + 1] = v
        /\ \A i \in 1..n : all[i] = listed[i]
    <3>1. <<v>> \in Seq(Urls) /\ Len(<<v>>) = 1 /\ <<v>>[1] = v
      OBVIOUS
    <3>2. all \in Seq(Urls) /\ Len(all) = n + 1 /\ (\A i \in 1..n : all[i] = listed[i])
          /\ \A i \in 1..1 : all[n + i] = <<v>>[i]
      BY <1>2, <1>9, <2>1, <3>1, Concat
    <3> QED  BY <3>1, <3>2
  <2>3. \A i \in 1..(n + 1) : i \in 1..n \/ i = n + 1
    BY <1>2
  <2>4. 1..n \subseteq 1..(n + 1) /\ n + 1 \in 1..(n + 1) /\ n + 1 \notin 1..n
    BY <1>2
  <2>5. Where(listed, v) = {}
    BY <1>2, <1>9 DEF Where
  <2>6. CASE u = v
    <3>1. {i \in DOMAIN all : all[i] = u} = {n + 1}
      BY <1>2, <1>9, <2>2, <2>3, <2>4, <2>6
    <3>2. Cardinality({n + 1}) = 1
      BY FS_Singleton
    <3> QED  BY <1>3, <1>9, <2>1, <2>5, <2>6, <3>1, <3>2
  <2>7. CASE u # v
    <3>1. {i \in DOMAIN all : all[i] = u} = Where(listed, u)
      BY <1>2, <1>7, <2>2, <2>3, <2>4, <2>7
    <3> QED  BY <1>3, <1>9, <2>1, <2>7, <3>1
  <2> QED  BY <2>6, <2>7
<1>10. CASE announce = <<>> /\ ~IsAnnounced(m, u)
  <2>1. listed \o <<>> = listed
    BY <1>2
  <2> QED  BY <1>5, <1>8, <1>10, <2>1
<1>11. ASSUME NEW v \in Urls, announce = <<v>>, IsAnnounced(m, u) <=> u = v
       PROVE  Cardinality({i \in DOMAIN GetUrls(m) : GetUrls(m)[i] = u}) =
                IF Listings(tiers, u) = {} /\ IsAnnounced(m, u) THEN 1
                ELSE Cardinality(Listings(tiers, u))
  <2>1. announce # <<>> /\ announce[1] = v
    BY <1>11
  <2>2. CASE \E i \in DOMAIN listed : listed[i] = v
    <3>1. GetUrls(m) = listed
      BY <1>5, <2>1, <2>2
    <3>2. IsAnnounced(m, u) => Listings(tiers, u) # {}
      BY <1>3, <1>7, <1>11, <2>2
    <3> QED  BY <1>1, <1>8, <3>1, <3>2
  <2>3. CASE ~\E i \in DOMAIN listed : listed[i] = v
    <3>1. GetUrls(m) = listed \o <<v>>
      BY <1>5, <1>11, <2>1, <2>3
    <3> QED  BY <1>9, <1>11, <2>3, <3>1
  <2> QED  BY <2>2, <2>3
<1> QED  BY <1>1, <1>6, <1>10, <1>11
-----------------------------------------------------------------------------
(* The session: what was parsed has its types, the trackers and the peers   *)
(* are those of the torrent and of the answer, and the connection keeps to  *)
(* the invariant of WireProofs once the hashes are known.                   *)
SessionInv ==
  /\ phase \in {"reading", "asking", "found", "panicked", "refused"}
  /\ file \in Files
  /\ meta \in {<<>>} \cup MetaInfos
  /\ phase = "asking" => meta \in MetaInfos /\ urls = GetUrls(meta)
  /\ phase \in {"reading", "asking"} => reply = <<>>
  /\ PeersInEitherForm
  /\ us = "idle" => WireInit
  /\ us # "idle" => WireInv(hashes[1], hashes[2])

LEMMA SessionInitInv == Init => SessionInv
BY DEF Init, SessionInv, WireInit, PeersInEitherForm

LEMMA ConnectionStays ==
  ASSUME SessionInv, UNCHANGED <<us, wireVars, hashes>>
  PROVE  (us = "idle" => WireInit)' /\ (us # "idle" => WireInv(hashes[1], hashes[2]))'
<1>1. us' = us /\ UNCHANGED wireVars /\ hashes' = hashes
  OBVIOUS
<1>2. CASE us = "idle"
  <2>1. WireInit'
    BY <1>1, <1>2 DEF SessionInv, WireInit, wireVars
  <2> QED  BY <1>1, <1>2, <2>1
<1>3. CASE us # "idle"
  <2>1. PICK o, t : o = hashes[1] /\ t = hashes[2]
    OBVIOUS
  <2>2. WireInv(o, t)
    BY <1>3, <2>1 DEF SessionInv
  <2>3. WireInv(o, t)'
    BY <1>1, <2>2, StutterInv
  <2>4. o = hashes'[1] /\ t = hashes'[2]
    BY <1>1, <2>1
  <2>5. WireInv(hashes[1], hashes[2])'
    BY <2>3, <2>4 DEF WireInv, Greeting, Agreed
  <2> QED  BY <1>1, <1>3, <2>5
<1> QED  BY <1>2, <1>3

LEMMA ReadFileInv ==
  ASSUME SessionInv, ReadFile
  PROVE  SessionInv'
<1>1. (us = "idle" => WireInit)' /\ (us # "idle" => WireInv(hashes[1], hashes[2]))'
  <2>1. UNCHANGED <<us, wireVars, hashes>>
    BY DEF ReadFile, wireVars
  <2> QED  BY <2>1, ConnectionStays
<1>2. PICK s : s = Document(file)
  OBVIOUS
<1>3. s \in Seq(Tokens)
  BY <1>2, FilesAssumption DEF FilesAssumption, SessionInv
<1>4. Parse(s).status = "ok" => Parse(s).value \in MetaInfos
  BY <1>3, ParseType
<1>5. \/ /\ Parse(s).status = "ok" /\ phase' = "asking"
         /\ meta' = Parse(s).value /\ urls' = GetUrls(meta')
      \/ phase' = "panicked" /\ meta' = meta
  BY <1>2 DEF ReadFile
<1>6. file' = file /\ reply' = <<>>
  BY DEF ReadFile, SessionInv
<1>7. PeersInEitherForm'
  BY <1>6 DEF PeersInEitherForm
<1> QED  BY <1>1, <1>4, <1>5, <1>6, <1>7 DEF SessionInv

LEMMA AskInv ==
  ASSUME SessionInv, Ask
  PROVE  SessionInv'
<1>1. (us = "idle" => WireInit)' /\ (us # "idle" => WireInv(hashes[1], hashes[2]))'
  <2>1. UNCHANGED <<us, wireVars, hashes>>
    BY DEF Ask, wireVars
  <2> QED  BY <2>1, ConnectionStays
<1>2. phase' \in {"found", "panicked", "refused"}
  BY DEF Ask
<1>3. file' = file /\ meta' = meta
  BY DEF Ask
<1>4. PeersInEitherForm'
  <2>1. PICK r \in Replies :
          LET parsed == ParseResponse(Encode(Answer(r)))
          IN  /\ reply' = r
              /\ parsed.status = "ok" => phase' = "found" /\ peers' = parsed.value.peers
              /\ parsed.status = "panic" => phase' = "panicked"
              /\ parsed.status \notin {"ok", "panic"} => phase' = "refused"
    BY DEF Ask
  <2> DEFINE parsed == ParseResponse(Encode(Answer(r)))
  <2> HIDE DEF parsed
  <2>2. /\ parsed.status = "ok" <=> NamesPeers(r) /\ IsWhole(r.others)
        /\ parsed.status = "panic" <=> r.form = "ragged"
        /\ parsed.status = "ok" => parsed.value.peers = NamedPeers(r)
    BY AnswerIsParsed DEF parsed
  <2>3. (phase' = "found" <=> parsed.status = "ok") /\ (phase' = "panicked" <=> parsed.status = "panic")
    BY <2>1 DEF parsed
  <2>4. phase' = "found" => peers' = NamedPeers(r)
    BY <2>1, <2>2, <2>3 DEF parsed
  <2> QED  BY <2>1, <2>2, <2>3, <2>4 DEF PeersInEitherForm
<1> QED  BY <1>1, <1>2, <1>3, <1>4 DEF SessionInv

LEMMA ConnectToPeerInv ==
  ASSUME SessionInv, ConnectToPeer
  PROVE  SessionInv'
<1>1. Connect /\ us = "idle" /\ us' = "sending"
  BY DEF ConnectToPeer, Connect
<1>2. PICK o, t : o = hashes'[1] /\ t = hashes'[2]
  OBVIOUS
<1>3. WireInv(o, t)
  BY <1>1, InitInv DEF SessionInv
<1>4. WireInv(o, t)'
  BY <1>1, <1>3, ConnectInv
<1>5. WireInv(hashes[1], hashes[2])'
  BY <1>2, <1>4 DEF WireInv, Greeting, Agreed
<1>6. UNCHANGED sessionVars
  BY DEF ConnectToPeer
<1>7. PeersInEitherForm'
  BY <1>6 DEF SessionInv, PeersInEitherForm, sessionVars
<1> QED  BY <1>1, <1>5, <1>6, <1>7 DEF SessionInv, sessionVars

LEMMA ConnectionInv ==
  ASSUME SessionInv, Connection
  PROVE  SessionInv'
<1>1. UNCHANGED <<hashes, sessionVars>>
  BY DEF Connection
<1>2. us # "idle" /\ us' # "idle"
  <2>1. ~HasHandshake(<<>>)
    BY DEF HasHandshake
  <2>2. us = "idle" => them = "receiving" /\ toThem = <<>> /\ toUs = <<>> /\ lost = FALSE
    BY DEF SessionInv, WireInit
  <2>3. ASSUME Handshakes(hashes[1], hashes[2]) PROVE us # "idle" /\ us' # "idle"
    BY <2>1, <2>2, <2>3
       DEF Handshakes, WeSendHandshake, TheyReceiveHandshake, TheySendHandshake, WeReceiveHandshake
  <2>4. ASSUME NEW m \in WireMessages, Write(m) PROVE us # "idle" /\ us' # "idle"
    BY <2>4 DEF Write
  <2>5. ASSUME Read PROVE us # "idle" /\ us' # "idle"
    BY <2>2, <2>5 DEF Read
  <2>6. ASSUME ReadFails PROVE us # "idle" /\ us' # "idle"
    BY <2>2, <2>6 DEF ReadFails
  <2>7. ASSUME Lose PROVE us # "idle" /\ us' # "idle"
    BY <2>7 DEF Lose
  <2> QED  BY <2>3, <2>4, <2>5, <2>6, <2>7 DEF Connection, Messages, Loss
<1>3. PICK o, t : o = hashes[1] /\ t = hashes[2]
  OBVIOUS
<1>4. WireNext(o, t)
  BY <1>3 DEF Connection, Messages, Loss, WireNext
<1>5. WireInv(o, t)
  BY <1>2, <1>3 DEF SessionInv
<1>6. WireInv(o, t)'
  BY <1>4, <1>5, NextInv
<1>7. o = hashes'[1] /\ t = hashes'[2]
  BY <1>1, <1>3
<1>8. WireInv(hashes[1], hashes[2])'
  BY <1>6, <1>7 DEF WireInv, Greeting, Agreed
<1>9. PeersInEitherForm'
  BY <1>1 DEF SessionInv, PeersInEitherForm, sessionVars
<1> QED  BY <1>1, <1>2, <1>8, <1>9 DEF SessionInv, sessionVars

LEMMA SessionInvariant == Spec => []SessionInv
<1>1. SessionInv /\ [Next]_vars => SessionInv'
  <2> SUFFICES ASSUME SessionInv, [Next]_vars PROVE SessionInv'
    OBVIOUS
  <2>1. CASE UNCHANGED vars
    <3>1. UNCHANGED <<us, wireVars, hashes, sessionVars>>
      BY <2>1 DEF vars, wireVars
    <3>2. (us = "idle" => WireInit)' /\ (us # "idle" => WireInv(hashes[1], hashes[2]))'
      BY <3>1, ConnectionStays
    <3>3. PeersInEitherForm'
      BY <3>1 DEF SessionInv, PeersInEitherForm, sessionVars
    <3> QED  BY <3>1, <3>2, <3>3 DEF SessionInv, sessionVars
  <2> QED  BY <2>1, ReadFileInv, AskInv, ConnectToPeerInv, ConnectionInv DEF Next
<1> QED  BY <1>1, SessionInitInv, PTL DEF Spec

(* Whatever the torrent file holds that main reads, a record that is not    *)
(* complete never gets beyond it, and the connection keeps to its types.    *)
THEOREM SessionTypesCorrect == Spec => []TypeOK
<1>1. SessionInv => TypeOK
  <2> SUFFICES ASSUME SessionInv PROVE TypeOK
    OBVIOUS
  <2>1. meta \in MetaInfos => DOMAIN meta = {"info", "announce", "announceList", "comment",
                                            "createdBy", "encoding"}
    BY DEF MetaInfos
  <2>2. WireTypeOK
    <3>1. PICK o, t : o = hashes[1] /\ t = hashes[2]
      OBVIOUS
    <3>2. WireInv(o, t)
      BY <3>1, InitInv DEF SessionInv
    <3> QED  BY <3>2 DEF WireInv, Types
  <2> QED  BY <2>1, <2>2 DEF SessionInv, TypeOK
<1> QED  BY <1>1, SessionInvariant, PTL

(* What TorrentMetaInfo::parse makes of any file is read back from the      *)
(* value it is turned into and, unless the hashes happen to be a text, from *)
(* the bytes of it.                                                         *)
THEOREM ParsedIsReadBack == Spec => []WrittenIsReadBack
<1>1. SessionInv => WrittenIsReadBack
  BY ValueIsReadBack, BytesAreReadBack DEF SessionInv, WrittenIsReadBack
<1> QED  BY <1>1, SessionInvariant, PTL

(* The trackers of the session are those that its torrent names, each as    *)
(* often as the tiers have it, or once if only the announce url has it.     *)
THEOREM TrackersAreTaken == Spec => []EachUrlIsTaken
<1>1. SessionInv => EachUrlIsTaken
  BY UrlsAreTaken DEF SessionInv, EachUrlIsTaken
<1> QED  BY <1>1, SessionInvariant, PTL

(* The peers of the session are those that the tracker's answer names, in   *)
(* either form, and what goes wrong with the others ends as it is said.     *)
THEOREM PeersAreTaken == Spec => []PeersInEitherForm
<1>1. SessionInv => PeersInEitherForm
  BY DEF SessionInv
<1> QED  BY <1>1, SessionInvariant, PTL

(* Also between peers that met through a tracker, the remote side reads the *)
(* messages as they were written.                                           *)
THEOREM SessionFramesAreKept == Spec => []FramesAreReadAsWritten
<1>1. SessionInv => FramesAreReadAsWritten
  <2> SUFFICES ASSUME SessionInv PROVE FramesAreReadAsWritten
    OBVIOUS
  <2>1. PICK o, t : o = hashes[1] /\ t = hashes[2]
    OBVIOUS
  <2>2. WireInv(o, t)
    BY <2>1, InitInv DEF SessionInv
  <2> QED  BY <2>2 DEF WireInv
<1> QED  BY <1>1, SessionInvariant, PTL

(* A connection opens only if the info that we wrote anew has the bytes of  *)
(* the file's.                                                              *)
THEOREM SessionOpensForOneHash == Spec => [](us # "idle" => SameTorrent(hashes[1], hashes[2]))
<1>1. SessionInv => (us # "idle" => SameTorrent(hashes[1], hashes[2]))
  BY DEF SessionInv, WireInv, Agreed, SameTorrent
<1> QED  BY <1>1, SessionInvariant, PTL
=============================================================================
