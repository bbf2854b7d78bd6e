----------------------- MODULE CodeBlockDatabaseProofs -----------------------
(***************************************************************************)
(* Proofs about the file of the code block database, for any positions,    *)
(* any code and any number of blocks: Read gets back the blocks that Write *)
(* wrote, and never reads outside the buffer.  The two recursive functions *)
(* (the concatenation of the blocks, the starts of the blocks in a file)   *)
(* are reasoned about by induction, which is derived here from the least   *)
(* element of a set of naturals.                                           *)
(***************************************************************************)
EXTENDS CodeBlockDatabase, SequenceTheorems, WellFoundedInduction, TLAPS

(* Induction, for a set: it is closed under + 1 up to a bound. *)
LEMMA SetInduction ==
  ASSUME NEW S, NEW m \in Nat, 0 \in S, \A n \in 0 .. m - 1 : n \in S => n + 1 \in S
  PROVE  0..m \subseteq S
<1> DEFINE T == {n \in 0..m : n \notin S}
           R == OpToRel(<, Nat)
<1> SUFFICES ASSUME T # {}
             PROVE  FALSE
  OBVIOUS
<1>1. IsWellFoundedOn(R, Nat)
  BY NatLessThanWellFounded
<1>2. T \subseteq Nat
  OBVIOUS
<1>3. PICK x \in T : \A y \in T : ~(<<y, x>> \in R)
  <2> HIDE DEF T, R
  <2> QED
    BY <1>1, <1>2, WFMin
<1>4. /\ x \in 0..m /\ x \notin S /\ x # 0
      /\ x - 1 \in 0 .. m - 1 /\ x - 1 \in 0..m /\ (x - 1) + 1 = x
  OBVIOUS
<1>5. x - 1 \in T
  BY <1>4
<1>6. <<x - 1, x>> \in R
  BY <1>4 DEF OpToRel
<1> QED
  BY <1>3, <1>5, <1>6

(* Two sequences, one behind the other. *)
LEMMA Joined ==
  ASSUME NEW T, NEW a \in Seq(T), NEW b \in Seq(T), NEW c, c = a \o b
  PROVE  /\ c \in Seq(T) /\ Len(c) = Len(a) + Len(b)
         /\ Len(a) \in Nat /\ Len(b) \in Nat
         /\ \A j \in 1..Len(a) : c[j] = a[j]
         /\ \A j \in 1..Len(b) : c[Len(a) + j] = b[j]
<1>1. Len(a) \in Nat /\ Len(b) \in Nat
  BY LenProperties
<1>2. /\ c \in Seq(T) /\ Len(c) = Len(a) + Len(b)
      /\ \A j \in 1 .. Len(a) + Len(b) :
           c[j] = IF j <= Len(a) THEN a[j] ELSE b[j - Len(a)]
  BY ConcatProperties
<1>3. /\ \A j \in 1..Len(a) : j \in 1 .. Len(a) + Len(b) /\ j <= Len(a)
      /\ \A j \in 1..Len(b) : /\ Len(a) + j \in 1 .. Len(a) + Len(b)
                              /\ ~(Len(a) + j <= Len(a)) /\ (Len(a) + j) - Len(a) = j
  BY <1>1
<1> QED
  BY <1>1, <1>2, <1>3

-----------------------------------------------------------------------------
(* The concatenation of the first i of the sequences s. *)
IsFlat(g, s, n) == g = [i \in 1..n |-> IF i = 1 THEN s[i] ELSE g[i - 1] \o s[i]]

(* There is such a function. *)
LEMMA FlatExists ==
  ASSUME NEW s, NEW m \in Nat
  PROVE  \E g : IsFlat(g, s, m)
<1> DEFINE S == {n \in 0..m : \E g : IsFlat(g, s, n)}
<1>1. 0 \in S
  <2> DEFINE g == [i \in 1..0 |-> 0]
  <2>1. IsFlat(g, s, 0)
    BY DEF IsFlat
  <2> QED
    BY <2>1
<1>2. ASSUME NEW n \in 0 .. m - 1, n \in S
      PROVE  n + 1 \in S
  <2>1. PICK g : IsFlat(g, s, n)
    BY <1>2
  <2> DEFINE x == IF n + 1 = 1 THEN s[n + 1] ELSE g[n] \o s[n + 1]
             h == [i \in 1 .. n + 1 |-> IF i = n + 1 THEN x ELSE g[i]]
  <2>3. ASSUME NEW i \in 1 .. n + 1
        PROVE  h[i] = IF i = 1 THEN s[i] ELSE h[i - 1] \o s[i]
    <3>1. CASE i = n + 1
      <4>1. h[i] = x
        BY <3>1
      <4>2. i # 1 => h[i - 1] = g[n]
        BY <3>1
      <4> QED
        BY <3>1, <4>1, <4>2
    <3>2. CASE i # n + 1
      <4>1. i \in 1..n
        BY <3>2
      <4>2. h[i] = g[i] /\ (i # 1 => h[i - 1] = g[i - 1])
        BY <3>2, <4>1
      <4>3. g[i] = IF i = 1 THEN s[i] ELSE g[i - 1] \o s[i]
        BY <2>1, <4>1 DEF IsFlat
      <4> QED
        BY <4>2, <4>3
    <3> QED
      BY <3>1, <3>2
  <2>4. h = [i \in 1 .. n + 1 |-> h[i]]
    OBVIOUS
  <2> HIDE DEF h
  <2>5. h = [i \in 1 .. n + 1 |-> IF i = 1 THEN s[i] ELSE h[i - 1] \o s[i]]
    BY <2>3, <2>4
  <2>6. IsFlat(h, s, n + 1)
    BY <2>5 DEF IsFlat
  <2> QED
    BY <2>6
<1>3. 0..m \subseteq S
  <2> HIDE DEF S
  <2> QED
    BY <1>1, <1>2, SetInduction
<1> QED
  BY <1>3

(* Sequences that grow at their end. *)
Nested(g, m, T) ==
  /\ \A i \in 1..m : g[i] \in Seq(T)
  /\ \A i \in 1..m, k \in 1..m :
       i <= k => /\ Len(g[i]) <= Len(g[k])
                 /\ \A j \in 1..Len(g[i]) : g[k][j] = g[i][j]

(* Each concatenation starts with the ones before it. *)
LEMMA FlatParts ==
  ASSUME NEW T, NEW m \in Nat, NEW s \in [1..m -> Seq(T)], NEW g, IsFlat(g, s, m)
  PROVE  Nested(g, m, T)
<1>0. /\ \A i \in 1..m : g[i] = IF i = 1 THEN s[i] ELSE g[i - 1] \o s[i]
      /\ \A i \in 1..m : s[i] \in Seq(T)
  BY DEF IsFlat
<1> DEFINE S == {n \in 0..m :
                   \A k \in 1..n :
                     /\ g[k] \in Seq(T)
                     /\ \A i \in 1..k : /\ Len(g[i]) <= Len(g[k])
                                        /\ \A j \in 1..Len(g[i]) : g[k][j] = g[i][j]}
<1>1. 0 \in S
  OBVIOUS
<1>2. ASSUME NEW n \in 0 .. m - 1, n \in S
      PROVE  n + 1 \in S
  <2>1. n + 1 \in 1..m /\ n + 1 \in 0..m /\ \A k \in 1 .. n + 1 : k = n + 1 \/ k \in 1..n
    OBVIOUS
  <2>2. \A k \in 1..n :
          /\ g[k] \in Seq(T)
          /\ \A i \in 1..k : /\ Len(g[i]) <= Len(g[k])
                             /\ \A j \in 1..Len(g[i]) : g[k][j] = g[i][j]
    BY <1>2
  <2>3. /\ g[n + 1] \in Seq(T)
        /\ \A i \in 1 .. n + 1 : /\ Len(g[i]) <= Len(g[n + 1])
                                 /\ \A j \in 1..Len(g[i]) : g[n + 1][j] = g[i][j]
    <3>1. CASE n = 0
      <4>1. g[n + 1] = s[n + 1] /\ g[n + 1] \in Seq(T)
        BY <1>0, <2>1, <3>1
      <4>2. Len(g[n + 1]) \in Nat
        BY <4>1, LenProperties
      <4> QED
        BY <2>1, <3>1, <4>1, <4>2
    <3>2. CASE n # 0
      <4>1. n \in 1..n /\ (n + 1) - 1 = n /\ n + 1 # 1
        BY <3>2
      <4>2. g[n + 1] = g[n] \o s[n + 1] /\ g[n] \in Seq(T) /\ s[n + 1] \in Seq(T)
        BY <1>0, <2>1, <2>2, <4>1
      <4> DEFINE u == g[n]
                 w == g[n + 1]
      <4>3. /\ w \in Seq(T) /\ Len(w) \in Nat /\ Len(u) \in Nat /\ Len(u) <= Len(w)
            /\ \A j \in 1..Len(u) : w[j] = u[j]
        <5> DEFINE v == s[n + 1]
        <5>1. w = u \o v /\ u \in Seq(T) /\ v \in Seq(T)
          BY <4>2
        <5> HIDE DEF u, v, w
        <5>2. /\ w \in Seq(T) /\ Len(w) = Len(u) + Len(v) /\ Len(u) \in Nat
              /\ Len(v) \in Nat /\ \A j \in 1..Len(u) : w[j] = u[j]
          BY <5>1, Joined
        <5> QED
          BY <5>2
      <4>4. ASSUME NEW i \in 1..n
            PROVE  /\ Len(g[i]) <= Len(w)
                   /\ \A j \in 1..Len(g[i]) : w[j] = g[i][j]
        <5> DEFINE z == g[i]
        <5>1. /\ Len(z) <= Len(u) /\ z \in Seq(T)
              /\ \A j \in 1..Len(z) : u[j] = z[j]
          BY <2>2, <4>1
        <5> HIDE DEF z, u, w
        <5>2. Len(z) \in Nat
          BY <5>1, LenProperties
        <5>3. Len(z) <= Len(w) /\ \A j \in 1..Len(z) : w[j] = z[j]
          BY <4>3, <5>1, <5>2
        <5> QED
          BY <5>3 DEF z
      <4> QED
        BY <2>1, <4>3, <4>4
    <3> QED
      BY <3>1, <3>2
  <2>4. \A k \in 1 .. n + 1 :
          /\ g[k] \in Seq(T)
          /\ \A i \in 1..k : /\ Len(g[i]) <= Len(g[k])
                             /\ \A j \in 1..Len(g[i]) : g[k][j] = g[i][j]
    BY <2>1, <2>2, <2>3
  <2> QED
    BY <2>1, <2>4
<1>3. 0..m \subseteq S
  <2> HIDE DEF S
  <2> QED
    BY <1>1, <1>2, SetInduction
<1>4. m \in S
  <2>1. m \in 0..m
    OBVIOUS
  <2> HIDE DEF S
  <2> QED
    BY <1>3, <2>1
<1> QED
  BY <1>4 DEF Nested

-----------------------------------------------------------------------------
(* The layout of a file. *)

(* Block b of a file f lies between at and the start of the next block. *)
Placed(f, b, at, end) ==
  /\ at >= 2 /\ end = at + 2 + Len(b.code) /\ end <= Len(f) + 1
  /\ f[at] = b.start_position /\ f[at + 1] = Len(b.code)
  /\ SubSeq(f, at + 2, at + 1 + Len(b.code)) = b.code

(* The file f is made of the blocks bl, which start at off. *)
Laid(f, bl, off) ==
  /\ f \in Seq(Int) /\ Len(f) \in Nat \ {0} /\ f[1] = Len(bl)
  /\ off \in [1 .. Len(bl) + 1 -> Nat]
  /\ off[1] = 2 /\ off[Len(bl) + 1] = Len(f) + 1
  /\ \A i \in 1..Len(bl) : Placed(f, bl[i], off[i], off[i + 1])

(* A block. *)
LEMMA BlockParts ==
  ASSUME NEW b \in Block
  PROVE  /\ b.start_position \in Position /\ b.start_position \in Int
         /\ b.code \in Code /\ b.code \in Seq(Int) /\ Len(b.code) \in Nat
<1>1. b.start_position \in Position /\ b.code \in Code
  BY DEF Block
<1>2. b.start_position \in Int
  <2> DEFINE p == b.start_position
  <2>1. p \in Position
    BY <1>1
  <2> HIDE DEF p
  <2>2. p \in Nat
    BY <2>1, PositionAssumption
  <2>3. p \in Int
    BY <2>2
  <2> QED
    BY <2>3 DEF p
<1>3. b.code \in Seq(Int)
  BY <1>1, CodeAssumption
<1> QED
  BY <1>1, <1>2, <1>3, LenProperties

(* The cells of a block. *)
LEMMA Cells ==
  ASSUME NEW b \in Block, NEW x, x = BlockBytes(b)
  PROVE  /\ x \in Seq(Int) /\ Len(x) = 2 + Len(b.code)
         /\ x[1] = b.start_position /\ x[2] = Len(b.code)
         /\ \A k \in 1..Len(b.code) : x[2 + k] = b.code[k]
<1> DEFINE h == <<b.start_position, Len(b.code)>>
           c == b.code
<1>0. h \in Seq(Int) /\ c \in Seq(Int) /\ x = h \o c
  BY BlockParts DEF BlockBytes
<1>1. Len(h) = 2 /\ h[1] = b.start_position /\ h[2] = Len(b.code)
  OBVIOUS
<1> HIDE DEF h, c
<1>2. /\ x \in Seq(Int) /\ Len(x) = Len(h) + Len(c)
      /\ \A j \in 1..Len(h) : x[j] = h[j]
      /\ \A j \in 1..Len(c) : x[Len(h) + j] = c[j]
  BY <1>0, Joined
<1>3. x[1] = h[1] /\ x[2] = h[2]
  BY <1>1, <1>2
<1> QED
  BY <1>1, <1>2, <1>3 DEF c

(* Cells of a block in a file. *)
LEMMA CellsPlaced ==
  ASSUME NEW f \in Seq(Int), NEW b \in Block, NEW at \in Nat, at >= 2,
         at + 2 + Len(b.code) <= Len(f) + 1,
         NEW x, x = BlockBytes(b), \A j \in 1..Len(x) : f[(at - 1) + j] = x[j]
  PROVE  Placed(f, b, at, at + 2 + Len(b.code))
<1> DEFINE c == b.code
           n == Len(c)
<1>1. n \in Nat /\ c \in Seq(Int) /\ Len(f) \in Nat
  BY BlockParts, LenProperties
<1>2. /\ Len(x) = 2 + n /\ x[1] = b.start_position /\ x[2] = n
      /\ \A k \in 1..n : x[2 + k] = c[k]
  BY Cells
<1>3. n = Len(c) /\ at + 2 + n <= Len(f) + 1
  OBVIOUS
<1> HIDE DEF n, c
<1>4. /\ 1 \in 1..Len(x) /\ 2 \in 1..Len(x) /\ (at - 1) + 1 = at /\ (at - 1) + 2 = at + 1
      /\ \A k \in 1..n : 2 + k \in 1..Len(x) /\ (at - 1) + (2 + k) = (at + 1) + k
  BY <1>1, <1>2
<1>5. f[at] = b.start_position /\ f[at + 1] = n
  BY <1>2, <1>4
<1>6. \A k \in 1..n : f[(at + 1) + k] = c[k]
  BY <1>2, <1>4
<1> DEFINE l == at + 2
           r == at + 1 + n
           q == SubSeq(f, l, r)
<1>7. /\ l \in 1 .. Len(f) + 1 /\ r \in l - 1 .. Len(f) /\ (r - l) + 1 = n
      /\ \A k \in 1..n : (l + k) - 1 = (at + 1) + k
  BY <1>1, <1>3
<1>8. /\ q \in Seq(Int) /\ Len(q) = n /\ \A k \in 1..n : q[k] = f[(at + 1) + k]
  <2> HIDE DEF l, r
  <2>1. /\ q \in Seq(Int) /\ Len(q) = (r - l) + 1
        /\ \A k \in 1 .. (r - l) + 1 : q[k] = f[(l + k) - 1]
    BY <1>1, <1>7, SubSeqProperties
  <2> QED
    BY <1>7, <2>1
<1>9. q = c
  <2> HIDE DEF q
  <2> QED
    BY <1>1, <1>3, <1>6, <1>8, SeqEqual
<1> QED
  BY <1>3, <1>5, <1>9 DEF Placed, c, n

(* Write lays the blocks out one behind the other. *)
LEMMA WriteLays ==
  ASSUME NEW bl \in Seq(Block), NEW f, f = FileBytes(bl)
  PROVE  \E off : Laid(f, bl, off)
<1> DEFINE n == Len(bl)
           s == [i \in 1..n |-> BlockBytes(bl[i])]
           fl == FlattenSeq(s)
           hd == <<n>>
<1>1. n \in Nat /\ \A i \in 1..n : bl[i] \in Block
  BY LenProperties, ElementOfSeq
<1>2. \A i \in 1..n : BlockBytes(bl[i]) \in Seq(Int)
  BY <1>1, Cells
<1>3. s \in [1..n -> Seq(Int)] /\ Len(s) = n /\ \A i \in 1..n : s[i] = BlockBytes(bl[i])
  BY <1>1, <1>2
<1>4. f = hd \o fl
  BY DEF FileBytes
<1>5. Len(hd) = 1 /\ hd[1] = n
  OBVIOUS
<1>8. hd \in Seq(Int)
  BY <1>1
<1> HIDE DEF hd
<1>6. CASE n = 0
  <2>1. fl = <<>>
    <3>1. fl = s
      BY <1>3, <1>6 DEF FlattenSeq
    <3> QED
      BY <1>6, <3>1
  <2>2. f \in Seq(Int) /\ Len(f) = 1 /\ f[1] = n
    <3>1. fl \in Seq(Int) /\ Len(fl) = 0
      BY <2>1, EmptySeq
    <3>2. fl \in Seq(Int)
      BY <3>1
    <3> HIDE DEF fl
    <3>3. f \in Seq(Int) /\ Len(f) = Len(hd) + Len(fl) /\ \A j \in 1..Len(hd) : f[j] = hd[j]
      BY <1>4, <1>8, <3>2, Joined
    <3> QED
      BY <1>5, <3>1, <3>3
  <2> DEFINE off == [i \in 1 .. n + 1 |-> 2]
  <2>3. off \in [1 .. n + 1 -> Nat] /\ off[1] = 2 /\ off[n + 1] = Len(f) + 1
    BY <1>6, <2>2
  <2>4. Laid(f, bl, off)
    BY <1>6, <2>2, <2>3 DEF Laid
  <2> QED
    BY <2>4
<1>7. CASE n # 0
  <2> DEFINE g == CHOOSE h : IsFlat(h, s, n)
  <2>1. IsFlat(g, s, n)
    <3>1. \E h : IsFlat(h, s, n)
      <4> HIDE DEF s, n
      <4> QED
        BY <1>1, FlatExists
    <3> QED
      BY <3>1
  <2>2. fl = g[n]
    <3>1. Len(s) # 0
      BY <1>3, <1>7
    <3>2. g = CHOOSE h : h = [i \in 1..n |-> IF i = 1 THEN s[i] ELSE h[i - 1] \o s[i]]
      BY DEF IsFlat
    <3>3. fl = (CHOOSE h : h = [i \in 1..Len(s) |-> IF i = 1 THEN s[i] ELSE h[i - 1] \o s[i]])[Len(s)]
      <4> HIDE DEF s
      <4> QED
        BY <3>1 DEF FlattenSeq
    <3> QED
      BY <1>3, <3>2, <3>3
  <2> HIDE DEF fl, g, s
  <2>3. /\ \A i \in 1..n : g[i] \in Seq(Int)
        /\ \A i \in 1..n, k \in 1..n :
             i <= k => /\ Len(g[i]) <= Len(g[k])
                       /\ \A j \in 1..Len(g[i]) : g[k][j] = g[i][j]
    <3>1. n \in Nat /\ s \in [1..n -> Seq(Int)]
      BY <1>1, <1>3
    <3> HIDE DEF n
    <3>2. Nested(g, n, Int)
      BY <2>1, <3>1, FlatParts
    <3> QED
      BY <3>2 DEF Nested
  <2>10. n \in 1..n
    BY <1>1, <1>7
  <2>4. fl \in Seq(Int)
    BY <2>2, <2>3, <2>10
  <2>5. /\ f \in Seq(Int) /\ Len(f) = 1 + Len(fl) /\ Len(fl) \in Nat /\ f[1] = n
        /\ \A j \in 1..Len(fl) : f[1 + j] = fl[j]
    <3>1. /\ f \in Seq(Int) /\ Len(f) = Len(hd) + Len(fl) /\ Len(fl) \in Nat
          /\ \A j \in 1..Len(hd) : f[j] = hd[j]
          /\ \A j \in 1..Len(fl) : f[Len(hd) + j] = fl[j]
      BY <1>4, <1>8, <2>4, Joined
    <3> QED
      BY <1>5, <3>1
  <2> DEFINE off == [i \in 1 .. n + 1 |-> IF i = 1 THEN 2 ELSE Len(g[i - 1]) + 2]
  <2>6. \A i \in 1..n : Len(g[i]) \in Nat
    BY <2>3, LenProperties
  <2>7. /\ off \in [1 .. n + 1 -> Nat] /\ off[1] = 2 /\ off[n + 1] = Len(f) + 1
        /\ \A i \in 1..n : off[i + 1] = Len(g[i]) + 2
    <3>1. \A i \in 1 .. n + 1 : i = 1 \/ i - 1 \in 1..n
      BY <1>1
    <3>2. \A i \in 1..n : i + 1 \in 1 .. n + 1 /\ i + 1 # 1 /\ (i + 1) - 1 = i
      BY <1>1
    <3>3. off \in [1 .. n + 1 -> Nat]
      BY <2>6, <3>1
    <3>4. \A i \in 1..n : off[i + 1] = Len(g[i]) + 2
      BY <3>2
    <3>5. off[1] = 2
      BY <1>1
    <3> QED
      BY <2>2, <2>5, <2>10, <3>3, <3>4, <3>5
  <2> HIDE DEF off
  <2>8. ASSUME NEW i \in 1..n
        PROVE  Placed(f, bl[i], off[i], off[i + 1])
    <3> DEFINE b == bl[i]
               x == s[i]
               w == g[i]
               at == off[i]
    <3>1. b \in Block /\ x = BlockBytes(b) /\ x \in Seq(Int) /\ w \in Seq(Int)
      BY <1>1, <1>2, <1>3, <2>3
    <3>8. Len(w) \in Nat /\ at \in Nat /\ off[i + 1] = Len(w) + 2
      <4>1. i \in 1 .. n + 1
        BY <1>1
      <4> QED
        BY <2>6, <2>7, <4>1
    <3>2. Len(w) <= Len(fl) /\ \A j \in 1..Len(w) : fl[j] = w[j]
      BY <1>1, <2>2, <2>3, <2>10
    <3>3. /\ at >= 2 /\ Len(w) = (at - 2) + Len(x) /\ Len(x) \in Nat
          /\ \A j \in 1..Len(x) : w[(at - 2) + j] = x[j]
      <4>1. CASE i = 1
        <5>1. w = x /\ at = 2
          BY <2>1, <2>7, <4>1 DEF IsFlat
        <5> HIDE DEF w, x, at
        <5>2. Len(x) \in Nat
          BY <3>1, LenProperties
        <5> QED
          BY <5>1, <5>2
      <4>2. CASE i # 1
        <5> DEFINE u == g[i - 1]
        <5>1. i - 1 \in 1..n /\ (i - 1) + 1 = i
          BY <1>1, <4>2
        <5>2. w = u \o x /\ u \in Seq(Int) /\ at = Len(u) + 2
          <6>1. w = u \o x
            BY <2>1, <4>2 DEF IsFlat
          <6> QED
            BY <2>3, <2>7, <5>1, <6>1
        <5> HIDE DEF u, w, x, at
        <5>3. /\ Len(w) = Len(u) + Len(x) /\ Len(u) \in Nat /\ Len(x) \in Nat
              /\ \A j \in 1..Len(x) : w[Len(u) + j] = x[j]
          BY <3>1, <5>2, Joined
        <5>4. at - 2 = Len(u) /\ at >= 2
          BY <5>2, <5>3
        <5> QED
          BY <5>3, <5>4
      <4> QED
        BY <4>1, <4>2
    <3>4. Len(x) = 2 + Len(b.code) /\ Len(b.code) \in Nat
      BY <3>1, Cells, BlockParts
    <3> HIDE DEF b, x, w, at
    <3>5. at + 2 + Len(b.code) = Len(w) + 2 /\ at + 2 + Len(b.code) <= Len(f) + 1
      <4>1. /\ Len(f) = 1 + Len(fl) /\ Len(fl) \in Nat /\ at \in Nat /\ Len(w) \in Nat
            /\ Len(w) <= Len(fl)
        BY <2>5, <3>2, <3>8
      <4>2. /\ Len(w) = (at - 2) + Len(x) /\ Len(x) = 2 + Len(b.code)
            /\ Len(b.code) \in Nat
        BY <3>3, <3>4
      <4> DEFINE lw == Len(w)
                 lb == Len(b.code)
                 lx == Len(x)
                 lf == Len(fl)
      <4>3. /\ lw = (at - 2) + lx /\ lx = 2 + lb /\ lb \in Nat /\ lw \in Nat
            /\ lf \in Nat /\ at \in Nat /\ lw <= lf
        BY <4>1, <4>2
      <4> HIDE DEF lw, lb, lx, lf
      <4>4. at + 2 + lb = lw + 2 /\ at + 2 + lb <= 1 + lf + 1
        BY <4>3
      <4> QED
        BY <4>1, <4>4 DEF lw, lb, lf
    <3>6. \A j \in 1..Len(x) : f[(at - 1) + j] = x[j]
      <4> SUFFICES ASSUME NEW j \in 1..Len(x)
                   PROVE  f[(at - 1) + j] = x[j]
        OBVIOUS
      <4> DEFINE k == (at - 2) + j
      <4>1. k \in 1..Len(w) /\ k \in 1..Len(fl) /\ (at - 1) + j = 1 + k
        BY <2>5, <3>2, <3>3, <3>8
      <4>2. w[k] = x[j]
        BY <3>3
      <4> HIDE DEF k
      <4> QED
        BY <2>5, <3>2, <4>1, <4>2
    <3>7. Placed(f, b, at, at + 2 + Len(b.code))
      <4>1. f \in Seq(Int) /\ at >= 2 /\ at + 2 + Len(b.code) <= Len(f) + 1
        BY <2>5, <3>3, <3>5
      <4> QED
        BY <3>1, <3>6, <3>8, <4>1, CellsPlaced
    <3> QED
      BY <3>5, <3>7, <3>8 DEF b, at
  <2>9. Laid(f, bl, off)
    BY <2>5, <2>7, <2>8 DEF Laid
  <2> QED
    BY <2>9
<1> QED
  BY <1>6, <1>7

-----------------------------------------------------------------------------
(* What a file and a list of blocks stand for. *)

IsStarts(a, f, n) ==
  a = [i \in 1..n |-> IF i = 1 THEN 2 ELSE a[i - 1] + 2 + f[a[i - 1] + 1]]

(* There is such a function. *)
LEMMA StartsExist ==
  ASSUME NEW f, NEW m \in Nat
  PROVE  \E a : IsStarts(a, f, m)
<1> DEFINE S == {n \in 0..m : \E a : IsStarts(a, f, n)}
<1>1. 0 \in S
  <2> DEFINE a == [i \in 1..0 |-> 0]
  <2>1. IsStarts(a, f, 0)
    BY DEF IsStarts
  <2> QED
    BY <2>1
<1>2. ASSUME NEW n \in 0 .. m - 1, n \in S
      PROVE  n + 1 \in S
  <2>1. PICK a : IsStarts(a, f, n)
    BY <1>2
  <2> DEFINE x == IF n + 1 = 1 THEN 2 ELSE a[n] + 2 + f[a[n] + 1]
             h == [i \in 1 .. n + 1 |-> IF i = n + 1 THEN x ELSE a[i]]
  <2>3. ASSUME NEW i \in 1 .. n + 1
        PROVE  h[i] = IF i = 1 THEN 2 ELSE h[i - 1] + 2 + f[h[i - 1] + 1]
    <3>1. CASE i = n + 1
      <4>1. h[i] = x
        BY <3>1
      <4>2. i # 1 => h[i - 1] = a[n]
        BY <3>1
      <4> QED
        BY <3>1, <4>1, <4>2
    <3>2. CASE i # n + 1
      <4>1. i \in 1..n
        BY <3>2
      <4>2. h[i] = a[i] /\ (i # 1 => h[i - 1] = a[i - 1])
        BY <3>2, <4>1
      <4>3. a[i] = IF i = 1 THEN 2 ELSE a[i - 1] + 2 + f[a[i - 1] + 1]
        BY <2>1, <4>1 DEF IsStarts
      <4> QED
        BY <4>2, <4>3
    <3> QED
      BY <3>1, <3>2
  <2>4. h = [i \in 1 .. n + 1 |-> h[i]]
    OBVIOUS
  <2> HIDE DEF h
  <2>5. h = [i \in 1 .. n + 1 |-> IF i = 1 THEN 2 ELSE h[i - 1] + 2 + f[h[i - 1] + 1]]
    BY <2>3, <2>4
  <2>6. IsStarts(h, f, n + 1)
    BY <2>5 DEF IsStarts
  <2> QED
    BY <2>6
<1>3. 0..m \subseteq S
  <2> HIDE DEF S
  <2> QED
    BY <1>1, <1>2, SetInduction
<1>4. m \in S
  <2>1. m \in 0..m
    OBVIOUS
  <2> HIDE DEF S
  <2> QED
    BY <1>3, <2>1
<1> QED
  BY <1>4

(* Read finds the blocks where Write put them. *)
LEMMA StartsAre ==
  ASSUME NEW f, NEW bl, NEW off, Laid(f, bl, off), Len(bl) \in Nat
  PROVE  \A i \in 1..Len(bl) : Starts(f)[i] = off[i]
<1> DEFINE n == Len(bl)
           a == Starts(f)
<1>1. n \in Nat /\ f[1] = n /\ off[1] = 2 /\ \A i \in 1..n : off[i] \in Nat
  BY DEF Laid
<1>2. IsStarts(a, f, n)
  <2>1. a = CHOOSE b : b = [i \in 1..f[1] |-> IF i = 1 THEN 2 ELSE b[i - 1] + 2 + f[b[i - 1] + 1]]
    BY DEF Starts
  <2>2. a = CHOOSE b : IsStarts(b, f, n)
    BY <1>1, <2>1 DEF IsStarts
  <2> HIDE DEF a, n
  <2>3. \E b : IsStarts(b, f, n)
    BY <1>1, StartsExist
  <2> QED
    BY <2>2, <2>3
<1>3. \A i \in 1..n : off[i + 1] = off[i] + 2 + f[off[i] + 1]
  BY DEF Laid, Placed
<1> HIDE DEF a, n
<1> DEFINE S == {k \in 0..n : \A i \in 1..k : a[i] = off[i]}
<1>4. 0 \in S
  BY <1>1
<1>5. ASSUME NEW k \in 0 .. n - 1, k \in S
      PROVE  k + 1 \in S
  <2>1. k + 1 \in 1..n /\ k + 1 \in 0..n /\ \A i \in 1 .. k + 1 : i = k + 1 \/ i \in 1..k
    BY <1>1
  <2>2. \A i \in 1..k : a[i] = off[i]
    BY <1>5
  <2>3. a[k + 1] = IF k + 1 = 1 THEN 2 ELSE a[(k + 1) - 1] + 2 + f[a[(k + 1) - 1] + 1]
    BY <1>2, <2>1 DEF IsStarts
  <2>4. a[k + 1] = off[k + 1]
    <3>1. CASE k = 0
      BY <1>1, <2>3, <3>1
    <3>2. CASE k # 0
      <4>1. k \in 1..k /\ k \in 1..n /\ (k + 1) - 1 = k /\ k + 1 # 1
        BY <1>1, <3>2
      <4>2. a[k + 1] = off[k] + 2 + f[off[k] + 1]
        BY <2>2, <2>3, <4>1
      <4> QED
        BY <1>3, <4>1, <4>2
    <3> QED
      BY <3>1, <3>2
  <2> QED
    BY <2>1, <2>2, <2>4
<1>6. 0..n \subseteq S
  <2> HIDE DEF S
  <2> QED
    BY <1>1, <1>4, <1>5, SetInduction
<1>7. n \in S
  <2>1. n \in 0..n
    BY <1>1
  <2> HIDE DEF S
  <2> QED
    BY <1>6, <2>1
<1> QED
  BY <1>7 DEF a, n

(* No two blocks for one position. *)
Distinct(bl) ==
  \A i, k \in 1..Len(bl) : bl[i].start_position = bl[k].start_position => i = k

(* m is the map the blocks stand for. *)
IsMap(m, bl) ==
  /\ m = [p \in Position |-> m[p]]
  /\ \A i \in 1..Len(bl) : m[bl[i].start_position] = bl[i].code
  /\ \A p \in Position :
       (\A i \in 1..Len(bl) : bl[i].start_position # p) => m[p] = NoCode

(* There is one such map. *)
LEMMA OneMap ==
  ASSUME NEW bl, NEW m, NEW k, IsMap(m, bl), IsMap(k, bl)
  PROVE  m = k
<1>1. \A p \in Position : m[p] = k[p]
  <2> SUFFICES ASSUME NEW p \in Position
               PROVE  m[p] = k[p]
    OBVIOUS
  <2>1. CASE \E i \in 1..Len(bl) : bl[i].start_position = p
    BY <2>1 DEF IsMap
  <2>2. CASE \A i \in 1..Len(bl) : bl[i].start_position # p
    BY <2>2 DEF IsMap
  <2> QED
    BY <2>1, <2>2
<1>2. m = [p \in Position |-> m[p]] /\ k = [p \in Position |-> k[p]]
  BY DEF IsMap
<1> QED
  BY <1>1, <1>2

(* The file stands for the map of the blocks that were written. *)
LEMMA StoredMap ==
  ASSUME NEW f, NEW bl \in Seq(Block), NEW off, Laid(f, bl, off), Distinct(bl)
  PROVE  IsMap(StoredIn(f), bl)
<1> DEFINE n == Len(bl)
           at == Starts(f)
           First(i, p) == f[at[i]] = p /\ \A k \in 1 .. i - 1 : f[at[k]] # p
           CodeAt(a) == SubSeq(f, a + 2, a + 1 + f[a + 1])
           m == [p \in Position |->
                   IF \E i \in 1..f[1] : f[at[i]] = p
                   THEN CodeAt(at[CHOOSE i \in 1..f[1] : First(i, p)]) ELSE NoCode]
<1>1. StoredIn(f) = m
  BY DEF StoredIn
<1>2. n \in Nat /\ f[1] = n /\ \A i \in 1..n : bl[i] \in Block
  BY LenProperties, ElementOfSeq DEF Laid
<1>3. \A i \in 1..n : at[i] = off[i]
  <2>1. Len(bl) \in Nat
    BY <1>2
  <2> QED
    BY <2>1, StartsAre
<1>4. \A i \in 1..n : f[at[i]] = bl[i].start_position /\ CodeAt(at[i]) = bl[i].code
  <2> SUFFICES ASSUME NEW i \in 1..n
               PROVE  f[at[i]] = bl[i].start_position /\ CodeAt(at[i]) = bl[i].code
    OBVIOUS
  <2>1. Placed(f, bl[i], off[i], off[i + 1])
    BY DEF Laid
  <2>2. /\ f[off[i]] = bl[i].start_position /\ f[off[i] + 1] = Len(bl[i].code)
        /\ SubSeq(f, off[i] + 2, off[i] + 1 + Len(bl[i].code)) = bl[i].code
    BY <2>1 DEF Placed
  <2> QED
    BY <1>3, <2>2
<1> HIDE DEF at, n, CodeAt
<1>5. ASSUME NEW i \in 1..n
      PROVE  m[bl[i].start_position] = bl[i].code
  <2> DEFINE p == bl[i].start_position
  <2>1. p \in Position
    BY <1>2, BlockParts
  <2>2. \A k \in 1..n : f[at[k]] = p => k = i
    BY <1>4 DEF Distinct, n
  <2>3. f[at[i]] = p /\ \A k \in 1 .. i - 1 : k \in 1..n /\ k # i
    BY <1>2, <1>4
  <2>4. First(i, p) /\ \A k \in 1..n : First(k, p) => k = i
    BY <2>2, <2>3
  <2> HIDE DEF First
  <2>5. (CHOOSE k \in 1..n : First(k, p)) = i
    BY <2>4
  <2>6. m[p] = CodeAt(at[i])
    BY <1>2, <2>1, <2>3, <2>5
  <2> QED
    BY <1>4, <2>6
<1>6. ASSUME NEW p \in Position, \A i \in 1..n : bl[i].start_position # p
      PROVE  m[p] = NoCode
  BY <1>2, <1>4, <1>6
<1>7. m = [p \in Position |-> m[p]]
  OBVIOUS
<1> HIDE DEF m
<1> QED
  BY <1>1, <1>5, <1>6, <1>7 DEF IsMap, n

(* The list stands for its map: GetCode finds the only block. *)
LEMMA ContentsMap ==
  code_blocks \in Seq(Block) /\ Distinct(code_blocks) => IsMap(Contents, code_blocks)
<1> SUFFICES ASSUME code_blocks \in Seq(Block), Distinct(code_blocks)
             PROVE  IsMap(Contents, code_blocks)
  OBVIOUS
<1> DEFINE n == Len(code_blocks)
<1>1. n \in Nat /\ \A i \in 1..n : code_blocks[i] \in Block
  BY LenProperties, ElementOfSeq
<1>2. ASSUME NEW i \in 1..n
      PROVE  Contents[code_blocks[i].start_position] = code_blocks[i].code
  <2> DEFINE p == code_blocks[i].start_position
  <2>1. p \in Position /\ HasCode(p)
    BY <1>1, BlockParts DEF HasCode
  <2>2. \A k \in 1..n : code_blocks[k].start_position = p => k = i
    BY DEF Distinct
  <2>3. \A k \in 1 .. i - 1 : k \in 1..n /\ k # i
    BY <1>1
  <2>4. IsFirst(i, p) /\ \A k \in 1..n : IsFirst(k, p) => k = i
    BY <2>2, <2>3 DEF IsFirst
  <2>5. (CHOOSE k \in 1..n : IsFirst(k, p)) = i
    BY <2>4
  <2>6. GetCode(p) = code_blocks[i].code
    BY <2>1, <2>5 DEF GetCode
  <2> QED
    BY <2>1, <2>6 DEF Contents
<1>3. ASSUME NEW p \in Position, \A i \in 1..n : code_blocks[i].start_position # p
      PROVE  Contents[p] = NoCode
  BY <1>3 DEF Contents, GetCode, HasCode
<1>4. Contents = [p \in Position |-> Contents[p]]
  BY DEF Contents
<1> QED
  BY <1>2, <1>3, <1>4 DEF IsMap

(* A list of blocks that stands for a map. *)
Represents(bl, m) == bl \in Seq(Block) /\ Distinct(bl) /\ IsMap(m, bl)

(* SetCode of a position that is there. *)
LEMMA ReplaceMap ==
  ASSUME NEW bl, NEW m, Represents(bl, m), NEW i \in 1..Len(bl), NEW c \in Code,
         NEW p, p = bl[i].start_position, NEW nb, nb = [bl EXCEPT ![i].code = c]
  PROVE  Represents(nb, [m EXCEPT ![p] = c])
<1> DEFINE n == Len(bl)
           b == [bl[i] EXCEPT !.code = c]
<1>1. bl \in Seq(Block) /\ n \in Nat /\ i \in 1..n /\ \A k \in 1..n : bl[k] \in Block
  BY LenProperties, ElementOfSeq DEF Represents
<1>2. b \in Block /\ b.start_position = p /\ b.code = c /\ p \in Position
  BY <1>1 DEF Block
<1>3. nb = [bl EXCEPT ![i] = b]
  OBVIOUS
<1> HIDE DEF b
<1>4. nb \in Seq(Block) /\ Len(nb) = n /\ \A k \in 1..n : nb[k] = IF k = i THEN b ELSE bl[k]
  BY <1>1, <1>2, <1>3, ExceptSeq
<1>5. \A k \in 1..n : nb[k].start_position = bl[k].start_position
  BY <1>2, <1>4
<1>6. Distinct(bl) /\ IsMap(m, bl)
  BY DEF Represents
<1>7. Distinct(nb)
  BY <1>4, <1>5, <1>6 DEF Distinct
<1> DEFINE mm == [m EXCEPT ![p] = c]
<1>8. DOMAIN m = Position
  BY <1>6 DEF IsMap
<1>9. /\ mm = [q \in Position |-> mm[q]]
      /\ \A q \in Position : mm[q] = IF q = p THEN c ELSE m[q]
  BY <1>2, <1>8
<1> HIDE DEF mm
<1>10. ASSUME NEW k \in 1..n
       PROVE  mm[nb[k].start_position] = nb[k].code
  <2>1. CASE k = i
    BY <1>2, <1>4, <1>9, <2>1
  <2>2. CASE k # i
    <3>1. bl[k].start_position # p /\ bl[k].start_position \in Position
      BY <1>1, <1>6, <2>2, BlockParts DEF Distinct
    <3>2. m[bl[k].start_position] = bl[k].code
      BY <1>6 DEF IsMap
    <3> QED
      BY <1>4, <1>9, <2>2, <3>1, <3>2
  <2> QED
    BY <2>1, <2>2
<1>11. ASSUME NEW q \in Position, \A k \in 1..n : nb[k].start_position # q
       PROVE  mm[q] = NoCode
  <2>1. q # p /\ \A k \in 1..n : bl[k].start_position # q
    BY <1>1, <1>5, <1>11
  <2> QED
    BY <1>6, <1>9, <2>1 DEF IsMap
<1>12. IsMap(mm, nb)
  BY <1>4, <1>9, <1>10, <1>11 DEF IsMap
<1> QED
  BY <1>4, <1>7, <1>12 DEF Represents, mm

(* SetCode of a new position. *)
LEMMA AddMap ==
  ASSUME NEW bl, NEW m, Represents(bl, m), NEW p \in Position, NEW c \in Code,
         \A k \in 1..Len(bl) : bl[k].start_position # p,
         NEW nb, nb = Append(bl, [start_position |-> p, code |-> c])
  PROVE  Represents(nb, [m EXCEPT ![p] = c])
<1> DEFINE n == Len(bl)
           b == [start_position |-> p, code |-> c]
<1>1. bl \in Seq(Block) /\ n \in Nat /\ \A k \in 1..n : bl[k] \in Block
  BY LenProperties, ElementOfSeq DEF Represents
<1>2. b \in Block /\ b.start_position = p /\ b.code = c
  BY DEF Block
<1>3. nb = Append(bl, b)
  OBVIOUS
<1> HIDE DEF b
<1>4. nb \in Seq(Block) /\ Len(nb) = n + 1 /\ (\A k \in 1..n : nb[k] = bl[k]) /\ nb[n + 1] = b
  BY <1>1, <1>2, <1>3, AppendProperties
<1>5. \A k \in 1 .. n + 1 : k \in 1..n \/ k = n + 1
  BY <1>1
<1>20. n + 1 \in 1 .. n + 1 /\ \A k \in 1..n : k \in 1 .. n + 1 /\ k # n + 1
  BY <1>1
<1>6. Distinct(bl) /\ IsMap(m, bl)
  BY DEF Represents
<1>7. Distinct(nb)
  BY <1>2, <1>4, <1>5, <1>6 DEF Distinct
<1> DEFINE mm == [m EXCEPT ![p] = c]
<1>8. DOMAIN m = Position
  BY <1>6 DEF IsMap
<1>9. /\ mm = [q \in Position |-> mm[q]]
      /\ \A q \in Position : mm[q] = IF q = p THEN c ELSE m[q]
  BY <1>8
<1> HIDE DEF mm
<1>10. ASSUME NEW k \in 1 .. n + 1
       PROVE  mm[nb[k].start_position] = nb[k].code
  <2>1. CASE k = n + 1
    BY <1>2, <1>4, <1>9, <2>1
  <2>2. CASE k \in 1..n
    <3>1. bl[k].start_position # p /\ bl[k].start_position \in Position
      BY <1>1, <2>2, BlockParts
    <3>2. m[bl[k].start_position] = bl[k].code
      BY <1>6, <2>2 DEF IsMap
    <3> QED
      BY <1>4, <1>9, <2>2, <3>1, <3>2
  <2> QED
    BY <1>5, <2>1, <2>2
<1>11. ASSUME NEW q \in Position, \A k \in 1 .. n + 1 : nb[k].start_position # q
       PROVE  mm[q] = NoCode
  <2>1. q # p
    BY <1>2, <1>4, <1>11, <1>20
  <2>2. \A k \in 1..n : bl[k].start_position # q
    BY <1>4, <1>11, <1>20
  <2> QED
    BY <1>6, <1>9, <2>1, <2>2 DEF IsMap
<1>12. IsMap(mm, nb)
  BY <1>4, <1>9, <1>10, <1>11 DEF IsMap
<1> QED
  BY <1>4, <1>7, <1>12 DEF Represents, mm

(* r is s without its element i. *)
Without(r, s, i, T) ==
  /\ r \in Seq(T) /\ Len(r) = Len(s) - 1
  /\ \A k \in 1 .. i - 1 : r[k] = s[k]
  /\ \A k \in i .. Len(s) - 1 : r[k] = s[k + 1]

(* What RemoveAt leaves: what was in front of the element and behind it. *)
LEMMA Removed ==
  ASSUME NEW T, NEW s \in Seq(T), NEW i \in 1..Len(s)
  PROVE  Without(RemoveAt(s, i), s, i, T)
<1> DEFINE n == Len(s)
           r == RemoveAt(s, i)
           a == SubSeq(s, 1, i - 1)
           b == SubSeq(s, i + 1, n)
<1>1. n \in Nat /\ i \in 1..n /\ n = Len(s) /\ \A k \in 1..n : s[k] \in T
  BY LenProperties, ElementOfSeq
<1>2. r = a \o b
  BY DEF RemoveAt
<1>3. a \in Seq(T) /\ Len(a) = i - 1 /\ \A k \in 1 .. i - 1 : a[k] = s[k]
  <2>1. /\ 1 \in 1 .. n + 1 /\ i - 1 \in 0..n /\ \A k \in 1 .. i - 1 : k \in 1..n
        /\ (1 <= i - 1 => ((i - 1) - 1) + 1 = i - 1) /\ (~(1 <= i - 1) => i - 1 = 0)
        /\ ((i - 1) - 1) + 1 = i - 1 /\ \A k \in 1 .. i - 1 : (1 + k) - 1 = k
    BY <1>1
  <2>2. \A k \in 1 .. i - 1 : s[k] \in T
    BY <1>1, <2>1
  <2> DEFINE l == i - 1
  <2>3. l \in Int /\ 1 \in Int /\ \A k \in 1..l : s[k] \in T
    BY <1>1, <2>2
  <2> HIDE DEF l
  <2>4. /\ SubSeq(s, 1, l) \in Seq(T)
        /\ Len(SubSeq(s, 1, l)) = IF 1 <= l THEN l - 1 + 1 ELSE 0
        /\ \A k \in 1 .. l - 1 + 1 : SubSeq(s, 1, l)[k] = s[1 + k - 1]
    BY <2>3, SubSeqProperties
  <2> QED
    BY <2>1, <2>4 DEF l
<1>4. b \in Seq(T) /\ Len(b) = n - i /\ \A k \in 1 .. n - i : b[k] = s[i + k]
  <2> DEFINE l == i + 1
  <2>1. l \in Int /\ n \in Int /\ \A k \in l..n : s[k] \in T
    BY <1>1
  <2>2. /\ (n - l) + 1 = n - i /\ \A k \in 1 .. n - i : (l + k) - 1 = i + k
        /\ (~(l <= n) => n - i = 0)
    BY <1>1
  <2> HIDE DEF l, n
  <2>3. /\ SubSeq(s, l, n) \in Seq(T)
        /\ Len(SubSeq(s, l, n)) = IF l <= n THEN (n - l) + 1 ELSE 0
        /\ \A k \in 1 .. (n - l) + 1 : SubSeq(s, l, n)[k] = s[(l + k) - 1]
    BY <2>1, SubSeqProperties
  <2> QED
    BY <2>2, <2>3 DEF l
<1> HIDE DEF a, b, n, r
<1>5. /\ r \in Seq(T) /\ Len(r) = Len(a) + Len(b)
      /\ \A j \in 1..Len(a) : r[j] = a[j]
      /\ \A j \in 1..Len(b) : r[Len(a) + j] = b[j]
  <2>1. a \in Seq(T) /\ b \in Seq(T)
    BY <1>3, <1>4
  <2> QED
    BY <1>2, <2>1, Joined
<1>6. \A k \in i .. n - 1 : (k - i) + 1 \in 1 .. n - i /\ (i - 1) + ((k - i) + 1) = k
                            /\ i + ((k - i) + 1) = k + 1
  BY <1>1
<1>7. \A k \in i .. n - 1 : r[k] = s[k + 1]
  <2> SUFFICES ASSUME NEW k \in i .. n - 1
               PROVE  r[k] = s[k + 1]
    OBVIOUS
  <2> DEFINE j == (k - i) + 1
  <2>1. j \in 1 .. n - i /\ (i - 1) + j = k /\ i + j = k + 1
    BY <1>6
  <2> HIDE DEF j
  <2>2. b[j] = s[k + 1]
    BY <1>4, <2>1
  <2>3. j \in 1..Len(b) /\ Len(a) + j = k
    BY <1>3, <1>4, <2>1
  <2>4. r[Len(a) + j] = b[j]
    BY <1>5, <2>3
  <2> QED
    BY <2>2, <2>3, <2>4
<1>8. Len(r) = n - 1
  BY <1>1, <1>3, <1>4, <1>5
<1> QED
  BY <1>1, <1>3, <1>5, <1>7, <1>8 DEF Without, r

(* RemoveCode. *)
LEMMA RemoveMap ==
  ASSUME NEW bl, NEW m, Represents(bl, m), NEW i \in 1..Len(bl),
         NEW p, p = bl[i].start_position, NEW nb, nb = RemoveAt(bl, i)
  PROVE  Represents(nb, [m EXCEPT ![p] = NoCode])
<1> DEFINE n == Len(bl)
           Was(k) == IF k < i THEN k ELSE k + 1
<1>1. bl \in Seq(Block) /\ n \in Nat /\ i \in 1..n /\ \A k \in 1..n : bl[k] \in Block
  BY LenProperties, ElementOfSeq DEF Represents
<1>2. p \in Position
  BY <1>1, BlockParts
<1>3. /\ nb \in Seq(Block) /\ Len(nb) = n - 1
      /\ \A k \in 1 .. i - 1 : nb[k] = bl[k]
      /\ \A k \in i .. n - 1 : nb[k] = bl[k + 1]
  <2>1. bl \in Seq(Block)
    BY <1>1
  <2>2. Without(nb, bl, i, Block)
    BY <2>1, Removed
  <2> QED
    BY <2>2 DEF Without
<1> HIDE DEF n
<1>4. /\ \A k \in 1 .. n - 1 : Was(k) \in 1..n /\ Was(k) # i
      /\ \A k, j \in 1 .. n - 1 : Was(k) = Was(j) => k = j
      /\ \A j \in 1..n : j # i => \E k \in 1 .. n - 1 : Was(k) = j
  <2>1. \A k \in 1 .. n - 1 : Was(k) \in 1..n /\ Was(k) # i
    BY <1>1
  <2>2. \A k, j \in 1 .. n - 1 : Was(k) = Was(j) => k = j
    BY <1>1
  <2>3. ASSUME NEW j \in 1..n, j # i
        PROVE  \E k \in 1 .. n - 1 : Was(k) = j
    <3>1. CASE j < i
      <4>1. j \in 1 .. n - 1 /\ Was(j) = j
        BY <1>1, <3>1
      <4> QED
        BY <4>1
    <3>2. CASE j > i
      <4>1. j - 1 \in 1 .. n - 1 /\ Was(j - 1) = j
        BY <1>1, <3>2
      <4> QED
        BY <4>1
    <3> QED
      BY <1>1, <2>3, <3>1, <3>2
  <2> QED
    BY <2>1, <2>2, <2>3
<1>5. \A k \in 1 .. n - 1 : nb[k] = bl[Was(k)]
  <2> SUFFICES ASSUME NEW k \in 1 .. n - 1
               PROVE  nb[k] = bl[Was(k)]
    OBVIOUS
  <2>1. CASE k < i
    <3>1. k \in 1 .. i - 1
      BY <1>1, <2>1
    <3> QED
      BY <1>3, <2>1, <3>1
  <2>2. CASE ~(k < i)
    <3>1. k \in i .. n - 1
      BY <1>1, <2>2
    <3> QED
      BY <1>3, <2>2, <3>1
  <2> QED
    BY <2>1, <2>2
<1> HIDE DEF Was
<1>6. Distinct(bl) /\ IsMap(m, bl)
  BY DEF Represents
<1>13. \A k, j \in 1..n : bl[k].start_position = bl[j].start_position => k = j
  BY <1>6 DEF Distinct, n
<1>7. Distinct(nb)
  <2>1. \A k, j \in 1 .. n - 1 : nb[k].start_position = nb[j].start_position => k = j
    BY <1>4, <1>5, <1>13
  <2> QED
    BY <1>3, <2>1 DEF Distinct
<1> DEFINE mm == [m EXCEPT ![p] = NoCode]
<1>8. DOMAIN m = Position
  BY <1>6 DEF IsMap
<1>9. /\ mm = [q \in Position |-> mm[q]]
      /\ \A q \in Position : mm[q] = IF q = p THEN NoCode ELSE m[q]
  BY <1>8
<1> HIDE DEF mm
<1>14. /\ \A k \in 1..n : m[bl[k].start_position] = bl[k].code
       /\ \A q \in Position : (\A k \in 1..n : bl[k].start_position # q) => m[q] = NoCode
  BY <1>6 DEF IsMap, n
<1>10. ASSUME NEW k \in 1 .. n - 1
       PROVE  mm[nb[k].start_position] = nb[k].code
  <2> DEFINE j == Was(k)
  <2>1. j \in 1..n /\ j # i /\ nb[k] = bl[j]
    BY <1>4, <1>5
  <2> HIDE DEF j
  <2>2. bl[j].start_position # p /\ bl[j].start_position \in Position
    BY <1>1, <1>13, <2>1, BlockParts
  <2> QED
    BY <1>9, <1>14, <2>1, <2>2
<1>11. ASSUME NEW q \in Position, \A k \in 1 .. n - 1 : nb[k].start_position # q
       PROVE  mm[q] = NoCode
  <2>1. CASE q = p
    BY <1>9, <2>1
  <2>2. CASE q # p
    <3>1. ASSUME NEW j \in 1..n
          PROVE  bl[j].start_position # q
      <4>1. CASE j = i
        BY <2>2, <4>1
      <4>2. CASE j # i
        <5>1. PICK k \in 1 .. n - 1 : Was(k) = j
          BY <1>4, <4>2
        <5> QED
          BY <1>5, <1>11, <5>1
      <4> QED
        BY <4>1, <4>2
    <3> QED
      BY <1>9, <1>14, <2>2, <3>1
  <2> QED
    BY <2>1, <2>2
<1>12. IsMap(mm, nb)
  BY <1>3, <1>9, <1>10, <1>11 DEF IsMap
<1> QED
  BY <1>3, <1>7, <1>12 DEF Represents, mm

-----------------------------------------------------------------------------
(* The invariant: the list has one block per position; once there is a file  *)
(* it is laid out as the blocks bl of the process that wrote it, and a       *)
(* process that reads it has the first of these blocks, stands at the start  *)
(* of the next one and still has to read the others.                         *)

Reached(bl, off) ==
  /\ Len(code_blocks) <= Len(bl)
  /\ to_read = Len(bl) - Len(code_blocks)
  /\ read_pointer = off[Len(code_blocks) + 1]
  /\ \A i \in 1..Len(code_blocks) : code_blocks[i] = bl[i]

Written(bl, off) ==
  /\ bl \in Seq(Block) /\ Distinct(bl)
  /\ Laid(file, bl, off)
  /\ mode = "written" => code_blocks = <<>>
  /\ mode \in {"reading", "load"} => Reached(bl, off)
  /\ mode = "load" => to_read = 0

DbInv ==
  /\ mode \in {"save", "written", "reading", "load"}
  /\ code_blocks \in Seq(Block) /\ Distinct(code_blocks)
  /\ mode = "save" => file = <<>>
  /\ mode # "save" => \E bl, off : Written(bl, off)

(* What a step does to the map. *)
MapStep == [Map!Next]_(Map!mapVars)

(* The empty list and no file. *)
LEMMA DbInit == Init => DbInv /\ Map!Init
<1> SUFFICES ASSUME Init
             PROVE  DbInv /\ Map!Init
  OBVIOUS
<1>1. mode = "save" /\ code_blocks = <<>> /\ file = <<>> /\ request = <<>>
  BY DEF Init
<1>2. code_blocks \in Seq(Block) /\ Len(code_blocks) = 0
  BY <1>1, EmptySeq
<1>3. Distinct(code_blocks)
  BY <1>2 DEF Distinct
<1>4. DbInv
  BY <1>1, <1>2, <1>3 DEF DbInv
<1>5. Contents = [p \in Position |-> NoCode]
  BY <1>2 DEF Contents, GetCode, HasCode
<1>6. Map!Init
  BY <1>1, <1>5 DEF Map!Init, Map!Empty, Stored
<1> QED
  BY <1>4, <1>6

(* An update of the list that updates the map it stands for. *)
LEMMA UpdateStep ==
  ASSUME DbInv, mode = "save", UNCHANGED <<mode, file, read_pointer, to_read>>,
         NEW p \in Position, NEW c \in Code \cup {NoCode}, request' = <<p, c>>,
         Represents(code_blocks', [Contents EXCEPT ![p] = c])
  PROVE  DbInv' /\ MapStep /\ Contents' = [Contents EXCEPT ![p] = c]
<1>1. code_blocks' \in Seq(Block) /\ Distinct(code_blocks')
  BY DEF Represents
<1>2. DbInv'
  BY <1>1 DEF DbInv, Distinct
<1>3. IsMap(Contents, code_blocks)'
  <2>1. (code_blocks \in Seq(Block) /\ Distinct(code_blocks))'
    BY <1>1 DEF Distinct
  <2> QED
    BY <2>1, ContentsMap, PTL
<1>4. Contents' = [Contents EXCEPT ![p] = c]
  <2> DEFINE nb == code_blocks'
             m == Contents'
             k == [Contents EXCEPT ![p] = c]
  <2>1. IsMap(m, nb)
    BY <1>3 DEF IsMap
  <2>2. IsMap(k, nb)
    BY DEF Represents
  <2> HIDE DEF nb, m, k
  <2>3. m = k
    BY <2>1, <2>2, OneMap
  <2> QED
    BY <2>3 DEF m, k
<1>5. Stored' = Stored
  BY DEF Stored
<1>6. Map!Set(p, c)
  BY <1>4, <1>5 DEF Map!Set
<1> QED
  BY <1>2, <1>4, <1>6 DEF MapStep, Map!Next

(* SetCode. *)
LEMMA SetStep ==
  ASSUME DbInv, NEW p \in Position, NEW c \in Code, SetCode(p, c)
  PROVE  DbInv' /\ MapStep /\ Contents' = [Contents EXCEPT ![p] = c]
<1>1. /\ mode = "save" /\ UNCHANGED <<mode, file, read_pointer, to_read>>
      /\ request' = <<p, c>> /\ c \in Code \cup {NoCode}
  BY DEF SetCode
<1>2. Represents(code_blocks, Contents)
  BY ContentsMap DEF DbInv, Represents
<1>3. Represents(code_blocks', [Contents EXCEPT ![p] = c])
  <2> DEFINE bl == code_blocks
             nb == code_blocks'
             m == Contents
  <2>0. Represents(bl, m)
    BY <1>2
  <2>1. CASE \E i \in 1..Len(bl) : IsFirst(i, p) /\ nb = [bl EXCEPT ![i].code = c]
    <3>1. PICK i \in 1..Len(bl) : IsFirst(i, p) /\ nb = [bl EXCEPT ![i].code = c]
      BY <2>1
    <3>2. p = bl[i].start_position /\ nb = [bl EXCEPT ![i].code = c]
      BY <3>1 DEF IsFirst
    <3> HIDE DEF bl, nb, m
    <3>3. Represents(nb, [m EXCEPT ![p] = c])
      BY <2>0, <3>2, ReplaceMap
    <3> QED
      BY <3>3 DEF nb, m
  <2>2. CASE ~HasCode(p) /\ nb = Append(bl, [start_position |-> p, code |-> c])
    <3>1. \A k \in 1..Len(bl) : bl[k].start_position # p
      BY <2>2 DEF HasCode
    <3>2. nb = Append(bl, [start_position |-> p, code |-> c])
      BY <2>2
    <3> HIDE DEF bl, nb, m
    <3>3. Represents(nb, [m EXCEPT ![p] = c])
      BY <2>0, <3>1, <3>2, AddMap
    <3> QED
      BY <3>3 DEF nb, m
  <2> QED
    BY <2>1, <2>2 DEF SetCode
<1> QED
  BY <1>1, <1>3, UpdateStep

(* RemoveCode. *)
LEMMA RemoveStep ==
  ASSUME DbInv, NEW p \in Position, RemoveCode(p)
  PROVE  DbInv' /\ MapStep /\ Contents' = [Contents EXCEPT ![p] = NoCode]
<1>1. /\ mode = "save" /\ UNCHANGED <<mode, file, read_pointer, to_read>>
      /\ request' = <<p, NoCode>> /\ NoCode \in Code \cup {NoCode}
  BY DEF RemoveCode
<1>2. Represents(code_blocks, Contents)
  BY ContentsMap DEF DbInv, Represents
<1>3. Represents(code_blocks', [Contents EXCEPT ![p] = NoCode])
  <2> DEFINE bl == code_blocks
             nb == code_blocks'
             m == Contents
  <2>0. Represents(bl, m)
    BY <1>2
  <2>1. PICK i \in 1..Len(bl) : IsFirst(i, p) /\ nb = RemoveAt(bl, i)
    BY DEF RemoveCode
  <2>2. p = bl[i].start_position /\ nb = RemoveAt(bl, i)
    BY <2>1 DEF IsFirst
  <2> HIDE DEF bl, nb, m
  <2>3. Represents(nb, [m EXCEPT ![p] = NoCode])
    BY <2>0, <2>2, RemoveMap
  <2> QED
    BY <2>3 DEF nb, m
<1> QED
  BY <1>1, <1>3, UpdateStep

(* Write: the file stands for the map. *)
LEMMA WriteStep ==
  ASSUME DbInv, Write
  PROVE  DbInv' /\ MapStep /\ Stored' = Contents
<1>1. /\ mode = "save" /\ mode' = "written" /\ file' = FileBytes(code_blocks)
      /\ code_blocks' = <<>> /\ request' = <<>>
  BY DEF Write
<1>0. PICK bl : bl = code_blocks
  OBVIOUS
<1> DEFINE f == file'
           m == Contents
<1>2. bl \in Seq(Block) /\ Distinct(bl) /\ IsMap(m, bl) /\ f = FileBytes(bl)
  BY <1>0, <1>1, ContentsMap DEF DbInv
<1>3. PICK off : Laid(f, bl, off)
  <2> HIDE DEF f, m
  <2> QED
    BY <1>2, WriteLays
<1>4. code_blocks' \in Seq(Block) /\ Distinct(code_blocks')
  <2>1. code_blocks' \in Seq(Block) /\ Len(code_blocks') = 0
    BY <1>1, EmptySeq
  <2> QED
    BY <2>1 DEF Distinct
<1>5. Written(bl, off)'
  BY <1>1, <1>2, <1>3 DEF Written
<1>6. DbInv'
  BY <1>1, <1>4, <1>5 DEF DbInv, Distinct
<1>7. StoredIn(f) = m
  <2> HIDE DEF f, m
  <2>1. IsMap(StoredIn(f), bl)
    BY <1>2, <1>3, StoredMap
  <2> QED
    BY <1>2, <2>1, OneMap
<1>8. f # <<>>
  BY <1>3, EmptySeq DEF Laid
<1>9. Stored' = Contents
  BY <1>7, <1>8 DEF Stored
<1>10. Map!Store
  BY <1>1, <1>9 DEF Map!Store, Map!Empty
<1> QED
  BY <1>6, <1>9, <1>10 DEF MapStep, Map!Next

(* Read up to its loop: the first block starts behind the count. *)
LEMMA ReadBeginStep ==
  ASSUME DbInv, ReadBegin
  PROVE  DbInv' /\ MapStep
<1>1. /\ mode = "written" /\ mode' = "reading" /\ to_read' = file[1] /\ read_pointer' = 2
      /\ UNCHANGED <<code_blocks, request, file>>
  BY DEF ReadBegin
<1>2. PICK bl, off : Written(bl, off)
  BY <1>1 DEF DbInv
<1>3. /\ bl \in Seq(Block) /\ Distinct(bl) /\ Laid(file, bl, off) /\ code_blocks = <<>>
      /\ file[1] = Len(bl) /\ off[1] = 2 /\ Len(bl) \in Nat
  BY <1>1, <1>2, LenProperties DEF Written, Laid
<1>4. Reached(bl, off)'
  <2>1. code_blocks' = <<>> /\ Len(code_blocks') = 0
    BY <1>1, <1>3
  <2> QED
    BY <1>1, <1>3, <2>1 DEF Reached
<1>5. Written(bl, off)'
  BY <1>1, <1>3, <1>4 DEF Written
<1>6. DbInv'
  BY <1>1, <1>5 DEF DbInv, Distinct
<1>7. UNCHANGED Map!mapVars
  BY <1>1 DEF Map!mapVars, Stored
<1> QED
  BY <1>6, <1>7 DEF MapStep

(* An iteration of Read's loop: it appends the next block that was written. *)
LEMMA ReadBlockStep ==
  ASSUME DbInv, ReadBlock
  PROVE  DbInv' /\ MapStep
<1> DEFINE size == file[read_pointer + 1]
           start == read_pointer + 2
           b == [start_position |-> file[read_pointer],
                 code |-> SubSeq(file, start, start + size - 1)]
           n == Len(code_blocks)
<1>1. /\ mode = "reading" /\ mode' = "reading" /\ to_read > 0 /\ to_read' = to_read - 1
      /\ code_blocks' = Append(code_blocks, b) /\ read_pointer' = start + size
      /\ UNCHANGED <<request, file>>
  BY DEF ReadBlock
<1>2. PICK bl, off : Written(bl, off)
  BY <1>1 DEF DbInv
<1>3. /\ bl \in Seq(Block) /\ Distinct(bl) /\ Laid(file, bl, off) /\ Len(bl) \in Nat
      /\ n <= Len(bl) /\ to_read = Len(bl) - n /\ read_pointer = off[n + 1]
      /\ \A i \in 1..n : code_blocks[i] = bl[i]
  BY <1>1, <1>2, LenProperties DEF Written, Reached
<1>4. n \in Nat /\ code_blocks \in Seq(Block)
  BY LenProperties DEF DbInv
<1>5. n + 1 \in 1..Len(bl) /\ n + 1 <= Len(bl) /\ to_read - 1 = Len(bl) - (n + 1)
  BY <1>1, <1>3, <1>4
<1> DEFINE w == bl[n + 1]
           at == off[n + 1]
           lc == Len(w.code)
<1>6. w \in Block /\ lc \in Nat
  BY <1>3, <1>5, ElementOfSeq, BlockParts
<1>7. Placed(file, w, at, off[(n + 1) + 1]) /\ at \in Nat
  BY <1>3, <1>4, <1>5 DEF Laid
<1>8. /\ file[at] = w.start_position /\ file[at + 1] = lc
      /\ SubSeq(file, at + 2, at + 1 + lc) = w.code /\ off[(n + 1) + 1] = at + 2 + lc
  BY <1>7 DEF Placed
<1>9. b = w /\ start + size = off[(n + 1) + 1]
  <2>1. read_pointer = at /\ size = lc /\ start = at + 2
    BY <1>3, <1>8
  <2>5. at \in Nat /\ lc \in Nat
    BY <1>6, <1>7
  <2>6. (at + 2) + lc - 1 = at + 1 + lc
    <3> HIDE DEF at, lc
    <3> QED
      BY <2>5
  <2>2. start + size - 1 = at + 1 + lc
    BY <2>1, <2>6
  <2>3. b = [start_position |-> w.start_position, code |-> w.code]
    BY <1>8, <2>1, <2>2
  <2>4. w = [start_position |-> w.start_position, code |-> w.code]
    BY <1>6 DEF Block
  <2> QED
    BY <1>8, <2>1, <2>3, <2>4
<1> HIDE DEF b, size, start
<1>10. /\ code_blocks' \in Seq(Block) /\ Len(code_blocks') = n + 1
       /\ \A i \in 1..n : code_blocks'[i] = code_blocks[i]
       /\ code_blocks'[n + 1] = w
  <2>1. b \in Block /\ code_blocks' = Append(code_blocks, b)
    BY <1>1, <1>6, <1>9
  <2>2. /\ Append(code_blocks, b) \in Seq(Block) /\ Len(Append(code_blocks, b)) = n + 1
        /\ \A i \in 1..n : Append(code_blocks, b)[i] = code_blocks[i]
        /\ Append(code_blocks, b)[n + 1] = b
    BY <1>4, <2>1, AppendProperties
  <2> QED
    BY <1>9, <2>1, <2>2
<1>11. \A i \in 1 .. n + 1 : i \in 1..n \/ i = n + 1
  BY <1>4
<1>12. \A i \in 1 .. n + 1 : code_blocks'[i] = bl[i] /\ i \in 1..Len(bl)
  BY <1>3, <1>5, <1>10, <1>11
<1>13. Reached(bl, off)'
  BY <1>1, <1>3, <1>5, <1>9, <1>10, <1>12 DEF Reached
<1>14. Written(bl, off)'
  BY <1>1, <1>3, <1>13 DEF Written
<1>15. Distinct(code_blocks)'
  BY <1>3, <1>10, <1>12 DEF Distinct
<1>16. DbInv'
  BY <1>1, <1>10, <1>14, <1>15 DEF DbInv
<1>17. UNCHANGED Map!mapVars
  BY <1>1 DEF Map!mapVars, Stored
<1> QED
  BY <1>16, <1>17 DEF MapStep

(* The end of Read: the list is the one that was written. *)
LEMMA ReadEndStep ==
  ASSUME DbInv, ReadEnd
  PROVE  DbInv' /\ MapStep /\ Contents' = Stored /\ Stored' = Stored
<1>1. /\ mode = "reading" /\ mode' = "load" /\ to_read = 0
      /\ UNCHANGED <<code_blocks, request, file, read_pointer, to_read>>
  BY DEF ReadEnd
<1>2. PICK bl, off : Written(bl, off)
  BY <1>1 DEF DbInv
<1>3. /\ bl \in Seq(Block) /\ Distinct(bl) /\ Laid(file, bl, off) /\ Len(bl) \in Nat
      /\ to_read = Len(bl) - Len(code_blocks) /\ Reached(bl, off)
      /\ \A i \in 1..Len(code_blocks) : code_blocks[i] = bl[i]
  BY <1>1, <1>2, LenProperties DEF Written, Reached
<1>4. code_blocks \in Seq(Block) /\ Len(code_blocks) \in Nat /\ Distinct(code_blocks)
  BY LenProperties DEF DbInv
<1>5. Reached(bl, off)'
  BY <1>1, <1>3 DEF Reached
<1>6. Written(bl, off)'
  BY <1>1, <1>3, <1>5 DEF Written
<1>7. DbInv'
  BY <1>1, <1>4, <1>6 DEF DbInv, Distinct
<1>8. code_blocks = bl
  <2>1. Len(code_blocks) = Len(bl)
    BY <1>1, <1>3, <1>4
  <2> QED
    BY <1>3, <1>4, <2>1, SeqEqual
<1>9. Contents' = Contents
  BY <1>1 DEF Contents, GetCode, HasCode, IsFirst
<1>10. Contents = Stored
  <2> DEFINE m == Contents
             f == file
  <2>1. IsMap(m, bl)
    BY <1>4, <1>8, ContentsMap
  <2>2. Laid(f, bl, off)
    BY <1>3
  <2>3. f # <<>>
    BY <2>2, EmptySeq DEF Laid
  <2>4. m = StoredIn(f)
    <3> HIDE DEF m, f
    <3>1. IsMap(StoredIn(f), bl)
      BY <1>3, <2>2, StoredMap
    <3> QED
      BY <2>1, <3>1, OneMap
  <2> QED
    BY <2>3, <2>4 DEF Stored
<1>11. Stored' = Stored
  BY <1>1 DEF Stored
<1>12. Map!Fetch
  BY <1>1, <1>9, <1>10, <1>11 DEF Map!Fetch
<1> QED
  BY <1>7, <1>9, <1>10, <1>11, <1>12 DEF MapStep, Map!Next

(* Nothing happens. *)
LEMMA DbStutter ==
  ASSUME DbInv, UNCHANGED vars
  PROVE  DbInv' /\ MapStep
<1>1. UNCHANGED <<mode, code_blocks, request, file, read_pointer, to_read>>
  BY DEF vars
<1>2. ASSUME NEW bl, NEW off, Written(bl, off)
      PROVE  Written(bl, off)'
  BY <1>1, <1>2 DEF Written, Reached
<1>3. DbInv'
  BY <1>1, <1>2 DEF DbInv, Distinct
<1>4. Contents' = Contents /\ Stored' = Stored
  BY <1>1 DEF Contents, GetCode, HasCode, IsFirst, Stored
<1>5. UNCHANGED Map!mapVars
  BY <1>1, <1>4 DEF Map!mapVars
<1> QED
  BY <1>3, <1>5 DEF MapStep

(* Every step keeps the invariant and is a step of the map. *)
LEMMA DbStep == DbInv /\ [Next]_vars => DbInv' /\ MapStep
<1> SUFFICES ASSUME DbInv, [Next]_vars
             PROVE  DbInv' /\ MapStep
  OBVIOUS
<1>1. CASE \E p \in Position : RemoveCode(p)
  BY <1>1, RemoveStep
<1>2. CASE \E p \in Position, c \in Code : SetCode(p, c)
  BY <1>2, SetStep
<1>3. CASE Write
  BY <1>3, WriteStep
<1>4. CASE ReadBegin
  BY <1>4, ReadBeginStep
<1>5. CASE ReadBlock
  BY <1>5, ReadBlockStep
<1>6. CASE ReadEnd
  BY <1>6, ReadEndStep
<1>7. CASE UNCHANGED vars
  BY <1>7, DbStutter
<1> QED
  BY <1>1, <1>2, <1>3, <1>4, <1>5, <1>6, <1>7 DEF Next

(* The blocks that are left lie inside the file. *)
LEMMA InBounds == DbInv => ReadInBounds
<1> SUFFICES ASSUME DbInv, mode \in {"reading", "load"}
             PROVE  IF to_read > 0
                    THEN /\ read_pointer + 1 <= Len(file)
                         /\ read_pointer + 1 + file[read_pointer + 1] <= Len(file)
                    ELSE read_pointer = Len(file) + 1
  BY DEF ReadInBounds
<1> DEFINE n == Len(code_blocks)
<1>1. PICK bl, off : Written(bl, off)
  BY DEF DbInv
<1>2. /\ bl \in Seq(Block) /\ Laid(file, bl, off) /\ Len(bl) \in Nat
      /\ n <= Len(bl) /\ to_read = Len(bl) - n /\ read_pointer = off[n + 1]
  BY <1>1, LenProperties DEF Written, Reached
<1>3. n \in Nat
  BY LenProperties DEF DbInv
<1>4. CASE to_read > 0
  <2>1. n + 1 \in 1..Len(bl)
    BY <1>2, <1>3, <1>4
  <2> DEFINE w == bl[n + 1]
             at == off[n + 1]
             lc == Len(w.code)
             lf == Len(file)
  <2>2. lc \in Nat /\ at \in Nat /\ lf \in Nat
    <3>1. w \in Block
      BY <1>2, <2>1, ElementOfSeq
    <3>2. n + 1 \in 1 .. Len(bl) + 1
      BY <1>2, <2>1
    <3> QED
      BY <1>2, <3>1, <3>2, BlockParts DEF Laid
  <2>3. /\ at + 2 + lc <= lf + 1 /\ file[at + 1] = lc
    BY <1>2, <2>1 DEF Laid, Placed
  <2> HIDE DEF at, lc, lf
  <2>4. at + 1 <= lf /\ at + 1 + file[at + 1] <= lf
    BY <2>2, <2>3
  <2> QED
    BY <1>2, <1>4, <2>4 DEF at, lf
<1>5. CASE ~(to_read > 0)
  <2>1. n = Len(bl)
    BY <1>2, <1>3, <1>5
  <2> QED
    BY <1>2, <1>5, <2>1 DEF Laid
<1> QED
  BY <1>4, <1>5

(* Read never leaves the buffer, whatever was written, and ends at its end   *)
(* (the DCHECKs of CodeBlockDatabase::Read).                                 *)
THEOREM ReadsInBounds == Spec => []ReadInBounds
<1>1. Init => DbInv
  BY DbInit
<1>2. DbInv /\ [Next]_vars => DbInv'
  BY DbStep
<1>3. DbInv => ReadInBounds
  BY InBounds
<1> QED
  BY <1>1, <1>2, <1>3, PTL DEF Spec

(* The list and the file are the map from positions to code: what the        *)
(* process that loads finds for a position is what the process that saved    *)
(* set last and did not remove.                                              *)
THEOREM MapRefinement == Spec => ImplementsMap
<1>1. Init => DbInv /\ Map!Init
  BY DbInit
<1>2. DbInv /\ [Next]_vars => DbInv' /\ [Map!Next]_(Map!mapVars)
  BY DbStep DEF MapStep
<1> QED
  BY <1>1, <1>2, PTL DEF Spec, ImplementsMap, Map!Spec
=============================================================================
