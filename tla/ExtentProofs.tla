---------------------------- MODULE ExtentProofs ----------------------------
(***************************************************************************)
(* The extents of a file, for any block size, any length of the file and    *)
(* writes of any length: both lists of a file say where its bytes are, a    *)
(* read finds them, the reader of indexes takes the list back, and realsize *)
(* counts its bytes.                                                       *)
(*                                                                         *)
(* What the operators compute by recursion over a list is proved by         *)
(* induction over its length: UpTo and Folds.                              *)
(***************************************************************************)
EXTENDS ExtentList, SequenceTheorems, FiniteSetTheorems, FunctionTheorems, TLAPS

-----------------------------------------------------------------------------
(* Induction and recursion.                                                *)

\* A set of numbers up to n with 0 in it, and with each number the next, has n in it:
\* else the step to the next number would put it one to one into itself without 0.
LEMMA UpTo ==
  ASSUME NEW n \in Nat, NEW T \in SUBSET (0 .. n), 0 \in T, \A i \in 0 .. n : i \in T /\ i < n => i + 1 \in T
  PROVE  n \in T
  <1>1. SUFFICES ASSUME n \notin T PROVE FALSE
    OBVIOUS
  <1>2. IsFiniteSet(T) /\ Cardinality(T) \in Nat
    <2>1. IsFiniteSet(0 .. n)
      BY FS_Interval
    <2>2. IsFiniteSet(T)
      BY <2>1, FS_Subset
    <2> QED
      BY <2>2, FS_CardinalityType
  <1>3. IsFiniteSet(T \ {0}) /\ Cardinality(T \ {0}) = Cardinality(T) - 1
    BY <1>2, FS_RemoveElement
  <1>4. PICK f : f = [i \in T |-> i + 1]
    OBVIOUS
  <1>5. \A i \in T : i \in 0 .. n /\ i < n
    BY <1>1
  <1>6. f \in [T -> T \ {0}] /\ \A i, j \in T : f[i] = f[j] => i = j
    BY <1>4, <1>5
  <1>7. f \in Injection(T, T \ {0})
    BY <1>6, Fun_IsInj
  <1>8. Cardinality(T) <= Cardinality(T \ {0})
    BY <1>3, <1>7, FS_Injection
  <1> QED
    BY <1>2, <1>3, <1>8

\* A value after the other, the value i in I.
Fold(f, G, I, b, n) ==
  /\ f = [i \in 0 .. n |-> f[i]] /\ f[0] = b
  /\ \A i \in 1 .. n : f[i] = G[<<i - 1, f[i - 1]>>]
  /\ \A i \in 0 .. n : <<i, f[i]>> \in I
\* A recursive function is there if each step leads from I to I.
LEMMA Folds ==
  ASSUME NEW n \in Nat, NEW I, NEW G, NEW b, <<0, b>> \in I,
         \A i \in 1 .. n : \A s : <<i - 1, s>> \in I => <<i, G[<<i - 1, s>>]>> \in I
  PROVE  \E f : Fold(f, G, I, b, n)
  <1>1. PICK S : S = {k \in 0 .. n : \E f : Fold(f, G, I, b, k)}
    OBVIOUS
  <1>2. 0 \in S
    <2>1. PICK f : f = [i \in 0 .. 0 |-> b]
      OBVIOUS
    <2>2. f = [i \in 0 .. 0 |-> f[i]] /\ f[0] = b
      BY <2>1
    <2>3. Fold(f, G, I, b, 0)
      BY <2>2 DEF Fold
    <2> QED
      BY <1>1, <2>3
  <1>3. ASSUME NEW k \in 0 .. n, k \in S, k < n
        PROVE  k + 1 \in S
    <2>1. PICK f : Fold(f, G, I, b, k)
      BY <1>1, <1>3
    <2>2. k + 1 \in 1 .. n /\ k + 1 - 1 = k
      BY <1>3
    <2>3. <<k, f[k]>> \in I
      BY <2>1 DEF Fold
    <2>4. PICK v : v = G[<<k, f[k]>>]
      OBVIOUS
    <2>5. <<k + 1, v>> \in I
      BY <2>2, <2>3, <2>4
    <2>6. PICK g : g = [i \in 0 .. k + 1 |-> IF i = k + 1 THEN v ELSE f[i]]
      OBVIOUS
    <2>7. g[k + 1] = v /\ \A i \in 0 .. k : g[i] = f[i]
      BY <2>6
    <2>8. g = [i \in 0 .. k + 1 |-> g[i]] /\ g[0] = b
      BY <2>1, <2>6 DEF Fold
    <2>9. ASSUME NEW i \in 1 .. k + 1 PROVE g[i] = G[<<i - 1, g[i - 1]>>]
      <3>1. CASE i = k + 1
        <4>1. i - 1 = k /\ k \in 0 .. k
          BY <3>1
        <4> QED
          BY <2>4, <2>7, <3>1, <4>1
      <3>2. CASE i # k + 1
        <4>1. i \in 1 .. k /\ i \in 0 .. k /\ i - 1 \in 0 .. k
          BY <3>2
        <4> QED
          BY <2>1, <2>7, <4>1 DEF Fold
      <3> QED
        BY <3>1, <3>2
    <2>10. ASSUME NEW i \in 0 .. k + 1 PROVE <<i, g[i]>> \in I
      <3>1. i = k + 1 \/ i \in 0 .. k
        OBVIOUS
      <3> QED
        BY <2>1, <2>5, <2>7, <3>1 DEF Fold
    <2>11. Fold(g, G, I, b, k + 1)
      BY <2>8, <2>9, <2>10 DEF Fold
    <2> QED
      BY <1>1, <1>3, <2>11
  <1>4. S \in SUBSET (0 .. n)
    BY <1>1
  <1>5. n \in S
    BY <1>2, <1>3, <1>4, UpTo
  <1> QED
    BY <1>1, <1>5

-----------------------------------------------------------------------------
(* Blocks and bytes.                                                       *)

LEMMA DivIs ==
  ASSUME NEW B \in Nat \ {0}, NEW n \in Nat
  PROVE  /\ n \div B \in Nat /\ n % B \in 0 .. B - 1
         /\ n = B * (n \div B) + (n % B)
  OBVIOUS

LEMMA DivUnique ==
  ASSUME NEW B \in Nat \ {0}, NEW q \in Nat, NEW p \in Nat, NEW r \in 0 .. B - 1, NEW s \in 0 .. B - 1,
         B * q + r = B * p + s
  PROVE  q = p /\ r = s
  <1>1. CASE q < p
    <2>1. B * (p - q) >= B
      BY <1>1
    <2> QED
      BY <2>1
  <1>2. CASE p < q
    <2>1. B * (q - p) >= B
      BY <1>2
    <2> QED
      BY <2>1
  <1> QED
    BY <1>1, <1>2

\* A number of whole blocks more.
LEMMA DivMore ==
  ASSUME NEW B \in Nat \ {0}, NEW n \in Nat, NEW q \in Nat
  PROVE  (B * q + n) \div B = q + n \div B /\ (B * q + n) % B = n % B
  <1>1. PICK m : m = B * q + n
    OBVIOUS
  <1>2. m \in Nat
    BY <1>1
  <1>3. m \div B \in Nat /\ m % B \in 0 .. B - 1 /\ m = B * (m \div B) + (m % B)
    BY <1>2, DivIs
  <1>4. n \div B \in Nat /\ n % B \in 0 .. B - 1 /\ n = B * (n \div B) + (n % B)
    BY DivIs
  <1>5. PICK a, b, c, d : a = m \div B /\ b = m % B /\ c = q + n \div B /\ d = n % B
    OBVIOUS
  <1>6. a \in Nat /\ b \in 0 .. B - 1 /\ c \in Nat /\ d \in 0 .. B - 1
    BY <1>3, <1>4, <1>5
  <1>7. B * a + b = B * c + d
    BY <1>1, <1>3, <1>4, <1>5
  <1>8. a = c /\ b = d
    BY <1>6, <1>7, DivUnique
  <1> QED
    BY <1>1, <1>5, <1>8

LEMMA DivRises ==
  ASSUME NEW B \in Nat \ {0}, NEW n \in Nat, NEW m \in Nat, n <= m
  PROVE  n \div B <= m \div B
  <1>1. PICK q, r, p, s : q = n \div B /\ r = n % B /\ p = m \div B /\ s = m % B
    OBVIOUS
  <1>2. q \in Nat /\ p \in Nat /\ r \in 0 .. B - 1 /\ s \in 0 .. B - 1 /\ n = B * q + r /\ m = B * p + s
    BY <1>1, DivIs
  <1>3. ASSUME p < q PROVE FALSE
    <2>1. B * (q - p) >= B
      BY <1>2, <1>3
    <2>2. PICK u, w : u = B * q /\ w = B * p
      OBVIOUS
    <2>3. u \in Nat /\ w \in Nat /\ u - w >= B
      BY <1>2, <2>1, <2>2
    <2>4. n = u + r /\ m = w + s
      BY <1>2, <2>2
    <2> QED
      BY <1>2, <2>3, <2>4
  <1>4. p >= q
    BY <1>2, <1>3
  <1> QED
    BY <1>1, <1>4

-----------------------------------------------------------------------------
(* One extent.                                                             *)

Xt == [partition : Partitions, block : Nat, byteoffset : 0..(BytesPerBlock - 1), fileoffset : Nat, bytecount : Nat \ {0}]
In(x, o) == x.fileoffset <= o /\ o < EndOf(x)
LastBlock(x) == Address(x, EndOf(x) - 1)[2]

LEMMA XtIs ==
  ASSUME NEW x \in Xt
  PROVE  /\ x.fileoffset \in Nat /\ x.bytecount \in Nat \ {0} /\ EndOf(x) \in Nat /\ x.fileoffset < EndOf(x)
         /\ x.block \in Nat /\ x.byteoffset \in Nat /\ x.byteoffset < BytesPerBlock /\ x.partition \in Partitions
  BY ListAssumption DEF Xt, EndOf

LEMMA AddressIs ==
  ASSUME NEW x \in Xt, NEW o \in Nat, x.fileoffset <= o
  PROVE  LET b == o - x.fileoffset + x.byteoffset
         IN  /\ b \in Nat
             /\ Address(x, o) = <<x.partition, x.block + b \div BytesPerBlock, b % BytesPerBlock>>
             /\ b \div BytesPerBlock \in Nat
  <1>1. o - x.fileoffset + x.byteoffset \in Nat
    BY XtIs
  <1>2. (o - x.fileoffset + x.byteoffset) \div BytesPerBlock \in Nat
    BY <1>1, DivIs, ListAssumption
  <1> QED
    BY <1>1, <1>2 DEF Address

\* The same bytes under the same addresses.
CutFrontOf(x, o, y) ==
  /\ y \in Xt /\ y.fileoffset = o /\ EndOf(y) = EndOf(x)
  /\ \A p \in Nat : p >= o => Address(y, p) = Address(x, p)
LEMMA CutFrontIs ==
  ASSUME NEW x \in Xt, NEW o \in Nat, x.fileoffset <= o, o < EndOf(x)
  PROVE  CutFrontOf(x, o, CutFront(x, o))
  <1>1. PICK mod : mod = o - x.fileoffset + x.byteoffset
    OBVIOUS
  <1>2. mod \in Nat
    BY <1>1, XtIs
  <1>3. PICK q, r : q = mod \div BytesPerBlock /\ r = mod % BytesPerBlock
    OBVIOUS
  <1>4. q \in Nat /\ r \in 0 .. BytesPerBlock - 1 /\ mod = BytesPerBlock * q + r
    BY <1>2, <1>3, DivIs, ListAssumption
  <1>5. PICK y : y = CutFront(x, o)
    OBVIOUS
  <1>6. y = [x EXCEPT !.block = @ + q, !.byteoffset = r, !.fileoffset = o, !.bytecount = EndOf(x) - o]
    BY <1>1, <1>3, <1>5 DEF CutFront
  <1>7. EndOf(x) - o \in Nat \ {0} /\ x.block + q \in Nat
    BY <1>4, XtIs
  <1>8. y \in Xt /\ y.partition = x.partition /\ y.block = x.block + q /\ y.byteoffset = r /\ y.fileoffset = o /\ y.bytecount = EndOf(x) - o
    BY <1>4, <1>6, <1>7 DEF Xt
  <1>9. EndOf(y) = EndOf(x)
    BY <1>8, XtIs DEF EndOf
  <1>10. ASSUME NEW p \in Nat, p >= o PROVE Address(y, p) = Address(x, p)
    <2>1. PICK n : n = p - o + r
      OBVIOUS
    <2>a. PICK m : m = BytesPerBlock * q
      OBVIOUS
    <2>b. m \in Nat
      BY <1>4, <2>a, ListAssumption
    <2>c. n \in Nat /\ p - x.fileoffset + x.byteoffset = m + n
      <3>1. mod = m + r
        BY <1>4, <2>a
      <3> QED
        BY <1>1, <1>4, <1>10, <2>1, <2>b, <3>1, XtIs
    <2>2. n \in Nat /\ p - x.fileoffset + x.byteoffset = BytesPerBlock * q + n
      BY <2>a, <2>c
    <2>3. (BytesPerBlock * q + n) \div BytesPerBlock = q + n \div BytesPerBlock /\ (BytesPerBlock * q + n) % BytesPerBlock = n % BytesPerBlock
      BY <1>4, <2>2, DivMore, ListAssumption
    <2>4. n \div BytesPerBlock \in Nat
      BY <2>2, DivIs, ListAssumption
    <2>5. Address(y, p) = <<x.partition, x.block + q + n \div BytesPerBlock, n % BytesPerBlock>>
      BY <1>8, <2>1 DEF Address
    <2>6. Address(x, p) = <<x.partition, x.block + (q + n \div BytesPerBlock), n % BytesPerBlock>>
      BY <2>2, <2>3 DEF Address
    <2>7. x.block + q + n \div BytesPerBlock = x.block + (q + n \div BytesPerBlock)
      BY <1>4, <2>4, XtIs
    <2> QED
      BY <2>5, <2>6, <2>7
  <1> QED
    BY <1>5, <1>8, <1>9, <1>10 DEF CutFrontOf

CutEndOf(x, o, y) ==
  /\ y \in Xt /\ y.fileoffset = x.fileoffset /\ EndOf(y) = o /\ y.bytecount = o - x.fileoffset
  /\ \A p : Address(y, p) = Address(x, p)
LEMMA CutEndIs ==
  ASSUME NEW x \in Xt, NEW o \in Nat, x.fileoffset < o
  PROVE  CutEndOf(x, o, CutEnd(x, o))
  <1>1. PICK y : y = CutEnd(x, o)
    OBVIOUS
  <1>2. o - x.fileoffset \in Nat \ {0}
    BY XtIs
  <1>3. y \in Xt /\ y.partition = x.partition /\ y.block = x.block /\ y.byteoffset = x.byteoffset /\ y.fileoffset = x.fileoffset
        /\ y.bytecount = o - x.fileoffset
    BY <1>1, <1>2 DEF CutEnd, Xt
  <1>4. EndOf(y) = o
    BY <1>3, XtIs DEF EndOf
  <1> QED
    BY <1>1, <1>3, <1>4 DEF CutEndOf, Address

JoinedOf(x, y, z) ==
  /\ z \in Xt /\ z.fileoffset = x.fileoffset /\ EndOf(z) = EndOf(y) /\ z.bytecount = x.bytecount + y.bytecount
  /\ y.fileoffset = EndOf(x)
  /\ \A p : Address(z, p) = Address(x, p)
  /\ \A p \in Nat : p >= y.fileoffset => Address(z, p) = Address(y, p)
LEMMA JoinedIs ==
  ASSUME NEW x \in Xt, NEW y \in Xt, Follows(x, y)
  PROVE  JoinedOf(x, y, Joined(x, y)) /\ y.partition = x.partition /\ y.block = LastBlock(x) + 1
  <1>1. PICK last : last = x.byteoffset + x.bytecount
    OBVIOUS
  <1>2. last \in Nat \ {0}
    BY <1>1, XtIs
  <1>3. PICK q : q = last \div BytesPerBlock
    OBVIOUS
  <1>4. y.fileoffset = EndOf(x) /\ y.partition = x.partition /\ y.byteoffset = 0 /\ last % BytesPerBlock = 0 /\ y.block = x.block + q
    BY <1>1, <1>3 DEF Follows
  <1>5. q \in Nat /\ last = BytesPerBlock * q + 0
    BY <1>2, <1>3, <1>4, DivIs, ListAssumption
  <1>6. PICK z : z = Joined(x, y)
    OBVIOUS
  <1>7. z \in Xt /\ z.partition = x.partition /\ z.block = x.block /\ z.byteoffset = x.byteoffset /\ z.fileoffset = x.fileoffset
        /\ z.bytecount = x.bytecount + y.bytecount
    BY <1>6, XtIs DEF Joined, Xt
  <1>8. EndOf(z) = EndOf(y)
    BY <1>4, <1>7, XtIs DEF EndOf
  <1>9. ASSUME NEW p \in Nat, p >= y.fileoffset PROVE Address(z, p) = Address(y, p)
    <2>1. PICK n : n = p - y.fileoffset
      OBVIOUS
    <2>a. PICK m : m = BytesPerBlock * q
      OBVIOUS
    <2>b. m \in Nat
      BY <1>5, <2>a, ListAssumption
    <2>c. n \in Nat /\ p - x.fileoffset + x.byteoffset = m + n
      <3>1. last = m
        BY <1>5, <2>a, <2>b
      <3> QED
        BY <1>1, <1>4, <1>9, <2>1, <2>b, <3>1, XtIs DEF EndOf
    <2>2. n \in Nat /\ p - x.fileoffset + x.byteoffset = BytesPerBlock * q + n
      BY <2>a, <2>c
    <2>3. (BytesPerBlock * q + n) \div BytesPerBlock = q + n \div BytesPerBlock /\ (BytesPerBlock * q + n) % BytesPerBlock = n % BytesPerBlock
      BY <1>5, <2>2, DivMore, ListAssumption
    <2>4. n \div BytesPerBlock \in Nat /\ p - y.fileoffset + 0 = n
      BY <2>1, <2>2, DivIs, ListAssumption
    <2>5. Address(y, p) = <<x.partition, x.block + q + n \div BytesPerBlock, n % BytesPerBlock>>
      BY <1>4, <2>4 DEF Address
    <2>6. Address(z, p) = <<x.partition, x.block + (q + n \div BytesPerBlock), n % BytesPerBlock>>
      BY <1>7, <2>2, <2>3 DEF Address
    <2>7. x.block + q + n \div BytesPerBlock = x.block + (q + n \div BytesPerBlock)
      BY <1>5, <2>4, XtIs
    <2> QED
      BY <2>5, <2>6, <2>7
  <1>10. y.block = LastBlock(x) + 1
    <2>1. PICK k : k = q - 1
      OBVIOUS
    <2>2. k \in Nat /\ last - 1 = BytesPerBlock * k + (BytesPerBlock - 1)
      BY <1>2, <1>5, <2>1, ListAssumption
    <2>3. last - 1 \in Nat /\ BytesPerBlock - 1 \in 0 .. BytesPerBlock - 1
      BY <1>2, ListAssumption
    <2>4. PICK c, d : c = (last - 1) \div BytesPerBlock /\ d = (last - 1) % BytesPerBlock
      OBVIOUS
    <2>5. c \in Nat /\ d \in 0 .. BytesPerBlock - 1 /\ last - 1 = BytesPerBlock * c + d
      BY <2>3, <2>4, DivIs, ListAssumption
    <2>6. BytesPerBlock * c + d = BytesPerBlock * k + (BytesPerBlock - 1)
      BY <2>2, <2>5
    <2>7. c = k
      BY <2>2, <2>3, <2>5, <2>6, DivUnique, ListAssumption
    <2>8. EndOf(x) - 1 - x.fileoffset + x.byteoffset = last - 1
      BY <1>1, XtIs DEF EndOf
    <2>9. LastBlock(x) = x.block + c
      BY <2>4, <2>8 DEF LastBlock, Address
    <2> QED
      BY <1>4, <1>5, <2>1, <2>7, <2>9, XtIs
  <1>11. JoinedOf(x, y, z)
    BY <1>4, <1>7, <1>8, <1>9 DEF JoinedOf, Address
  <1> QED
    BY <1>4, <1>6, <1>10, <1>11

LEMMA LastIs ==
  ASSUME NEW x \in Xt
  PROVE  LastBlock(x) \in Nat /\ EndOf(x) - 1 \in Nat /\ In(x, EndOf(x) - 1)
  <1>1. EndOf(x) - 1 \in Nat /\ x.fileoffset <= EndOf(x) - 1 /\ EndOf(x) - 1 < EndOf(x)
    BY XtIs
  <1>2. PICK q : q = (EndOf(x) - 1 - x.fileoffset + x.byteoffset) \div BytesPerBlock
    OBVIOUS
  <1>3. q \in Nat
    BY <1>1, <1>2, AddressIs
  <1>4. LastBlock(x) = x.block + q
    BY <1>2 DEF LastBlock, Address
  <1> QED
    BY <1>1, <1>3, <1>4, XtIs DEF In

\* What is left of an extent ends in no later block.
LEMMA LastLess ==
  ASSUME NEW x \in Xt, NEW y \in Xt, x.fileoffset = y.fileoffset, EndOf(y) <= EndOf(x), \A p : Address(y, p) = Address(x, p)
  PROVE  LastBlock(y) <= LastBlock(x)
  <1>1. EndOf(y) - 1 \in Nat /\ EndOf(x) - 1 \in Nat /\ x.fileoffset <= EndOf(y) - 1 /\ x.fileoffset <= EndOf(x) - 1
    BY XtIs
  <1>2. PICK n, m : n = EndOf(y) - 1 - x.fileoffset + x.byteoffset /\ m = EndOf(x) - 1 - x.fileoffset + x.byteoffset
    OBVIOUS
  <1>3. n \in Nat /\ m \in Nat /\ n <= m
    BY <1>1, <1>2, XtIs
  <1>4. n \div BytesPerBlock <= m \div BytesPerBlock
    BY <1>3, DivRises, ListAssumption
  <1>5. n \div BytesPerBlock \in Nat /\ m \div BytesPerBlock \in Nat
    BY <1>3, DivIs, ListAssumption
  <1>6. LastBlock(y) = Address(x, EndOf(y) - 1)[2]
    BY DEF LastBlock
  <1>7. LastBlock(y) = x.block + n \div BytesPerBlock
    BY <1>2, <1>6 DEF Address
  <1>8. LastBlock(x) = x.block + m \div BytesPerBlock
    BY <1>2 DEF LastBlock, Address
  <1> QED
    BY <1>4, <1>5, <1>7, <1>8, XtIs

-----------------------------------------------------------------------------
(* Lists of extents.                                                       *)

\* What each step keeps.
LEMMA Steps ==
  ASSUME NEW n \in Nat, NEW I, NEW h, <<0, h[0]>> \in I,
         \A i \in 1 .. n : <<i - 1, h[i - 1]>> \in I => <<i, h[i]>> \in I
  PROVE  \A i \in 0 .. n : <<i, h[i]>> \in I
  <1> SUFFICES ASSUME NEW k \in 0 .. n PROVE <<k, h[k]>> \in I
    OBVIOUS
  <1>1. PICK T : T = {i \in 0 .. k : <<i, h[i]>> \in I}
    OBVIOUS
  <1>2. T \in SUBSET (0 .. k) /\ 0 \in T
    BY <1>1
  <1>3. ASSUME NEW i \in 0 .. k, i \in T, i < k PROVE i + 1 \in T
    <2>1. i + 1 \in 1 .. n /\ i + 1 \in 0 .. k /\ i + 1 - 1 = i
      BY <1>3
    <2>2. <<i + 1 - 1, h[i + 1 - 1]>> \in I
      BY <1>1, <1>3, <2>1
    <2> QED
      BY <1>1, <2>1, <2>2
  <1>4. k \in T
    BY <1>2, <1>3, UpTo
  <1> QED
    BY <1>1, <1>4

Sums(f, list) ==
  /\ f \in [0 .. Len(list) -> Nat] /\ f[0] = 0
  /\ \A i \in 1 .. Len(list) : f[i] = f[i - 1] + list[i].bytecount
LEMMA BytesIs ==
  ASSUME NEW l \in Seq(Xt)
  PROVE  \E f : Sums(f, l) /\ Bytes(l) = f[Len(l)]
  <1>1. PICK n : n = Len(l)
    OBVIOUS
  <1>2. n \in Nat /\ \A i \in 1 .. n : l[i].bytecount \in Nat
    BY <1>1, XtIs
  <1>3. PICK I : I = (0 .. n) \X Nat
    OBVIOUS
  <1>4. PICK G : G = [p \in I |-> p[2] + l[p[1] + 1].bytecount]
    OBVIOUS
  <1>5. ASSUME NEW i \in 1 .. n, NEW s, <<i - 1, s>> \in I
        PROVE  G[<<i - 1, s>>] = s + l[i].bytecount /\ <<i, s + l[i].bytecount>> \in I
    <2>1. s \in Nat /\ i - 1 + 1 = i
      BY <1>3, <1>5
    <2>2. G[<<i - 1, s>>] = s + l[i - 1 + 1].bytecount
      BY <1>4, <1>5
    <2>3. s + l[i].bytecount \in Nat
      BY <1>2, <2>1
    <2> QED
      BY <1>2, <1>3, <2>1, <2>2, <2>3
  <1>6. <<0, 0>> \in I
    BY <1>2, <1>3
  <1>7. PICK f : Fold(f, G, I, 0, n)
    BY <1>2, <1>5, <1>6, Folds
  <1>8. f = [i \in 0 .. n |-> IF i = 0 THEN 0 ELSE f[i - 1] + l[i].bytecount]
    <2>1. ASSUME NEW i \in 0 .. n PROVE f[i] = IF i = 0 THEN 0 ELSE f[i - 1] + l[i].bytecount
      <3>1. CASE i = 0
        BY <1>7, <3>1 DEF Fold
      <3>2. CASE i # 0
        <4>1. i \in 1 .. n /\ i - 1 \in 0 .. n
          BY <1>2, <3>2
        <4>2. <<i - 1, f[i - 1]>> \in I /\ f[i] = G[<<i - 1, f[i - 1]>>]
          BY <1>7, <4>1 DEF Fold
        <4> QED
          BY <1>5, <3>2, <4>1, <4>2
      <3> QED
        BY <3>1, <3>2
    <2>2. f = [i \in 0 .. n |-> f[i]]
      BY <1>7 DEF Fold
    <2> QED
      BY <2>1, <2>2
  <1>9. PICK h : h = CHOOSE sum : sum = [i \in 0 .. Len(l) |-> IF i = 0 THEN 0 ELSE sum[i - 1] + l[i].bytecount]
    OBVIOUS
  <1>10. h = [i \in 0 .. n |-> IF i = 0 THEN 0 ELSE h[i - 1] + l[i].bytecount]
    BY <1>1, <1>8, <1>9
  <1>11. Bytes(l) = h[Len(l)]
    BY <1>9 DEF Bytes
  <1>12. h[0] = 0 /\ \A i \in 1 .. n : h[i] = h[i - 1] + l[i].bytecount
    <2>1. 0 \in 0 .. n /\ \A i \in 1 .. n : i \in 0 .. n /\ i # 0
      BY <1>2
    <2> QED
      BY <1>10, <2>1
  <1>13. \A i \in 0 .. n : <<i, h[i]>> \in I
    <2>1. <<0, h[0]>> \in I
      BY <1>6, <1>12
    <2>2. ASSUME NEW i \in 1 .. n, <<i - 1, h[i - 1]>> \in I PROVE <<i, h[i]>> \in I
      BY <1>5, <1>12, <2>2
    <2> QED
      BY <1>2, <2>1, <2>2, Steps
  <1>14. h \in [0 .. n -> Nat]
    <2>1. \A i \in 0 .. n : h[i] \in Nat
      BY <1>3, <1>13
    <2> QED
      BY <1>10, <2>1
  <1> QED
    BY <1>1, <1>11, <1>12, <1>14 DEF Sums

\* A set of positions with every one in front of a member is the first ones.
LEMMA Count ==
  ASSUME NEW n \in Nat, NEW T \in SUBSET (1 .. n), \A i, j \in 1 .. n : j \in T /\ i < j => i \in T
  PROVE  Cardinality(T) \in 0 .. n /\ \A i \in 1 .. n : i \in T <=> i <= Cardinality(T)
  <1>1. PICK S : S = {k \in 0 .. n : \A i \in 1 .. k : i \in T}
    OBVIOUS
  <1>2. S \in SUBSET (0 .. n) /\ 0 \in S
    BY <1>1
  <1>3. \E k \in 0 .. n : T = 1 .. k
    <2>1. CASE n \in S
      BY <1>1, <2>1
    <2>2. CASE n \notin S
      <3>1. PICK k \in 0 .. n : k \in S /\ k < n /\ k + 1 \notin S
        BY <1>2, <2>2, UpTo
      <3>2. k + 1 \notin T
        <4>1. SUFFICES ASSUME k + 1 \in T PROVE k + 1 \in S
          BY <3>1
        <4>2. k + 1 \in 0 .. n
          BY <3>1
        <4>3. ASSUME NEW i \in 1 .. (k + 1) PROVE i \in T
          <5>1. i = k + 1 \/ i \in 1 .. k
            OBVIOUS
          <5> QED
            BY <1>1, <3>1, <4>1, <5>1
        <4> QED
          BY <1>1, <4>2, <4>3
      <3>3. ASSUME NEW j \in T PROVE j <= k
        <4>1. k + 1 \in 1 .. n /\ j \in 1 .. n
          BY <3>1
        <4>2. ~(k + 1 < j)
          BY <3>2, <4>1
        <4> QED
          BY <3>2, <4>1, <4>2
      <3>4. T = 1 .. k
        <4>1. \A i \in 1 .. k : i \in T
          BY <1>1, <3>1
        <4>2. \A j \in T : j \in 1 .. k
          BY <3>3
        <4> QED
          BY <4>1, <4>2
      <3> QED
        BY <3>4
    <2> QED
      BY <2>1, <2>2
  <1>4. PICK k \in 0 .. n : T = 1 .. k
    BY <1>3
  <1>5. Cardinality(1 .. k) = k
    BY FS_Interval
  <1> QED
    BY <1>4, <1>5

LEMMA SeqIs ==
  ASSUME NEW S, NEW l \in Seq(S)
  PROVE  Len(l) \in Nat /\ DOMAIN l = 1 .. Len(l) /\ l \in [1 .. Len(l) -> S] /\ \A i \in 1 .. Len(l) : l[i] \in S
  BY LenProperties

LEMMA FunSeq ==
  ASSUME NEW S, NEW n \in Nat, NEW f \in [1 .. n -> S]
  PROVE  f \in Seq(S) /\ Len(f) = n
  <1>1. f \in Seq(S)
    BY SeqDef
  <1>2. DOMAIN f = 1 .. Len(f) /\ Len(f) \in Nat /\ DOMAIN f = 1 .. n
    BY <1>1, LenProperties
  <1>3. Len(f) = n
    <2>1. \A i \in Nat : i \in 1 .. n <=> i \in 1 .. Len(f)
      BY <1>2
    <2>2. CASE n = 0
      BY <1>2, <2>1, <2>2
    <2>3. CASE Len(f) = 0
      BY <1>2, <2>1, <2>3
    <2>4. CASE n # 0 /\ Len(f) # 0
      BY <1>2, <2>1, <2>4
    <2> QED
      BY <2>2, <2>3, <2>4
  <1> QED
    BY <1>1, <1>3

\* The entries are in order; none starts before the one in front of it ends.
Rising(l) == \A i, j \in 1 .. Len(l) : i < j => l[i].fileoffset <= l[j].fileoffset
Apart(l) == \A i, j \in 1 .. Len(l) : i < j => EndOf(l[i]) <= l[j].fileoffset
LEMMA ApartRises ==
  ASSUME NEW l \in Seq(Xt), Apart(l)
  PROVE  Rising(l)
  <1> SUFFICES ASSUME NEW i \in 1 .. Len(l), NEW j \in 1 .. Len(l), i < j
               PROVE  l[i].fileoffset <= l[j].fileoffset
    BY DEF Rising
  <1>1. l[i] \in Xt /\ l[j] \in Xt
    BY SeqIs
  <1>2. EndOf(l[i]) <= l[j].fileoffset
    BY DEF Apart
  <1> QED
    BY <1>1, <1>2, XtIs

LEMMA StartingIs ==
  ASSUME NEW l \in Seq(Xt), Rising(l), NEW o \in Nat
  PROVE  /\ Starting(l, o) \in 0 .. Len(l)
         /\ \A i \in 1 .. Len(l) : l[i].fileoffset < o <=> i <= Starting(l, o)
  <1>1. PICK n, T : n = Len(l) /\ T = {i \in DOMAIN l : l[i].fileoffset < o}
    OBVIOUS
  <1>2. n \in Nat /\ DOMAIN l = 1 .. n /\ \A i \in 1 .. n : l[i].fileoffset \in Nat
    BY <1>1, SeqIs, XtIs
  <1>3. T \in SUBSET (1 .. n) /\ \A i \in 1 .. n : i \in T <=> l[i].fileoffset < o
    BY <1>1, <1>2
  <1>4. ASSUME NEW i \in 1 .. n, NEW j \in 1 .. n, j \in T, i < j PROVE i \in T
    <2>1. l[i].fileoffset <= l[j].fileoffset
      BY <1>1, <1>4 DEF Rising
    <2> QED
      BY <1>2, <1>3, <1>4, <2>1
  <1>5. Cardinality(T) \in 0 .. n /\ \A i \in 1 .. n : i \in T <=> i <= Cardinality(T)
    BY <1>2, <1>3, <1>4, Count
  <1>6. Starting(l, o) = Cardinality(T)
    BY <1>1 DEF Starting
  <1> QED
    BY <1>1, <1>3, <1>5, <1>6

LEMMA EndingIs ==
  ASSUME NEW l \in Seq(Xt), Apart(l), NEW o \in Nat
  PROVE  /\ Ending(l, o) \in 0 .. Len(l)
         /\ \A i \in 1 .. Len(l) : EndOf(l[i]) <= o <=> i <= Ending(l, o)
  <1>1. PICK n, T : n = Len(l) /\ T = {i \in DOMAIN l : EndOf(l[i]) <= o}
    OBVIOUS
  <1>2. n \in Nat /\ DOMAIN l = 1 .. n
    BY <1>1, SeqIs
  <1>3. \A i \in 1 .. n : EndOf(l[i]) \in Nat /\ l[i].fileoffset \in Nat /\ l[i].fileoffset < EndOf(l[i])
    BY <1>1, SeqIs, XtIs
  <1>4. T \in SUBSET (1 .. n) /\ \A i \in 1 .. n : i \in T <=> EndOf(l[i]) <= o
    BY <1>1, <1>2
  <1>5. ASSUME NEW i \in 1 .. n, NEW j \in 1 .. n, j \in T, i < j PROVE i \in T
    <2>1. EndOf(l[i]) <= l[j].fileoffset
      BY <1>1, <1>5 DEF Apart
    <2> QED
      BY <1>3, <1>4, <1>5, <2>1
  <1>6. Cardinality(T) \in 0 .. n /\ \A i \in 1 .. n : i \in T <=> i <= Cardinality(T)
    BY <1>2, <1>4, <1>5, Count
  <1>7. Ending(l, o) = Cardinality(T)
    BY <1>1 DEF Ending
  <1> QED
    BY <1>1, <1>4, <1>6, <1>7

\* y is what x has before o.
PartOf(x, o, y) ==
  /\ y \in Xt /\ y.fileoffset = x.fileoffset /\ EndOf(y) = Least(EndOf(x), o)
  /\ \A p : Address(y, p) = Address(x, p)
CutListOf(l, o, b) ==
  /\ b \in Seq(Xt) /\ Len(b) = Starting(l, o)
  /\ \A i \in 1 .. Len(b) : PartOf(l[i], o, b[i])
LEMMA CutListIs ==
  ASSUME NEW l \in Seq(Xt), Rising(l), NEW o \in Nat
  PROVE  CutListOf(l, o, CutList(l, o))
  <1>1. PICK n : n = Starting(l, o)
    OBVIOUS
  <1>2. n \in 0 .. Len(l) /\ \A i \in 1 .. Len(l) : l[i].fileoffset < o <=> i <= n
    BY <1>1, StartingIs
  <1>3. Len(l) \in Nat
    BY SeqIs
  <1>4. PICK b : b = CutList(l, o)
    OBVIOUS
  <1>5. b = [i \in 1 .. n |-> CutEnd(l[i], Least(EndOf(l[i]), o))]
    BY <1>1, <1>4 DEF CutList
  <1>6. ASSUME NEW i \in 1 .. n PROVE PartOf(l[i], o, b[i])
    <2>1. i \in 1 .. Len(l) /\ i <= n
      BY <1>2, <1>3
    <2>2. l[i] \in Xt /\ l[i].fileoffset < o
      BY <1>2, <2>1, SeqIs
    <2>3. Least(EndOf(l[i]), o) \in Nat /\ l[i].fileoffset < Least(EndOf(l[i]), o)
      BY <2>2, XtIs DEF Least
    <2>4. CutEndOf(l[i], Least(EndOf(l[i]), o), b[i])
      BY <1>5, <2>2, <2>3, CutEndIs
    <2> QED
      BY <2>4 DEF CutEndOf, PartOf
  <1>7. b \in [1 .. n -> Xt]
    <2>1. \A i \in 1 .. n : b[i] \in Xt
      BY <1>6 DEF PartOf
    <2> QED
      BY <1>5, <2>1
  <1>8. b \in Seq(Xt) /\ Len(b) = n
    BY <1>2, <1>7, FunSeq
  <1> QED
    BY <1>1, <1>4, <1>6, <1>8 DEF CutListOf

-----------------------------------------------------------------------------
(* A list that tells where the bytes of a part of the file are.            *)

\* The byte at o is where v says, or there is none.
Tells(l, o, v) ==
  \/ v = Hole /\ \A i \in 1 .. Len(l) : ~In(l[i], o)
  \/ \E i \in 1 .. Len(l) : In(l[i], o) /\ v = Address(l[i], o)
Piece(l, lo, hi, W) ==
  /\ l \in Seq(Xt) /\ Apart(l)
  /\ \A i \in 1 .. Len(l) : lo <= l[i].fileoffset /\ EndOf(l[i]) <= hi
  /\ \A o \in Nat : lo <= o /\ o < hi => Tells(l, o, W[o])

\* V is W as far as n, and then nothing.
Holed(V, W, lo, n, p) == \A o \in Nat : lo <= o /\ o < p => V[o] = IF o < n THEN W[o] ELSE Hole
LEMMA PieceHoled ==
  ASSUME NEW l, NEW lo \in Nat, NEW n \in Nat, NEW p \in Nat, NEW W, NEW V,
         Piece(l, lo, n, W), n <= p, Holed(V, W, lo, n, p)
  PROVE  Piece(l, lo, p, V)
  <1>1. l \in Seq(Xt) /\ Apart(l) /\ \A i \in 1 .. Len(l) : lo <= l[i].fileoffset /\ EndOf(l[i]) <= n
    BY DEF Piece
  <1>2. \A i \in 1 .. Len(l) : EndOf(l[i]) \in Nat
    BY <1>1, SeqIs, XtIs
  <1>3. ASSUME NEW o \in Nat, lo <= o, o < p PROVE Tells(l, o, V[o])
    <2>1. CASE o < n
      <3>1. Tells(l, o, W[o]) /\ V[o] = W[o]
        BY <1>3, <2>1 DEF Piece, Holed
      <3> QED
        BY <3>1
    <2>2. CASE ~(o < n)
      <3>1. V[o] = Hole
        BY <1>3, <2>2 DEF Holed
      <3>2. ASSUME NEW i \in 1 .. Len(l) PROVE ~In(l[i], o)
        BY <1>1, <1>2, <2>2 DEF In
      <3> QED
        BY <3>1, <3>2 DEF Tells
    <2> QED
      BY <2>1, <2>2
  <1>4. \A i \in 1 .. Len(l) : EndOf(l[i]) <= p
    BY <1>1, <1>2
  <1> QED
    BY <1>1, <1>3, <1>4 DEF Piece

LEMMA PieceCut ==
  ASSUME NEW l, NEW lo \in Nat, NEW hi \in Nat, NEW p \in Nat, NEW W, Piece(l, lo, hi, W), lo <= p, p <= hi
  PROVE  Piece(CutList(l, p), lo, p, W)
  <1>1. l \in Seq(Xt) /\ Apart(l) /\ \A i \in 1 .. Len(l) : lo <= l[i].fileoffset /\ EndOf(l[i]) <= hi
    BY DEF Piece
  <1>2. PICK b : b = CutList(l, p)
    OBVIOUS
  <1>3. CutListOf(l, p, b)
    BY <1>1, <1>2, ApartRises, CutListIs
  <1>4. /\ Starting(l, p) \in 0 .. Len(l)
        /\ \A i \in 1 .. Len(l) : l[i].fileoffset < p <=> i <= Starting(l, p)
    BY <1>1, ApartRises, StartingIs
  <1>5. b \in Seq(Xt) /\ Len(b) \in Nat /\ Len(l) \in Nat /\ Len(b) <= Len(l) /\ \A i \in 1 .. Len(b) : i \in 1 .. Len(l) /\ PartOf(l[i], p, b[i])
    BY <1>1, <1>3, <1>4, SeqIs DEF CutListOf
  <1>6. ASSUME NEW i \in 1 .. Len(b)
        PROVE  /\ b[i].fileoffset = l[i].fileoffset /\ EndOf(b[i]) \in Nat /\ EndOf(b[i]) <= EndOf(l[i]) /\ EndOf(b[i]) <= p
               /\ l[i].fileoffset \in Nat /\ EndOf(l[i]) \in Nat
               /\ \A o \in Nat : In(b[i], o) <=> In(l[i], o) /\ o < p
    <2>1. PartOf(l[i], p, b[i]) /\ l[i] \in Xt /\ b[i] \in Xt
      BY <1>1, <1>5, SeqIs
    <2>2. b[i].fileoffset = l[i].fileoffset /\ EndOf(b[i]) = Least(EndOf(l[i]), p)
      BY <2>1 DEF PartOf
    <2>3. EndOf(l[i]) \in Nat /\ l[i].fileoffset \in Nat
      BY <2>1, XtIs
    <2> QED
      BY <2>2, <2>3 DEF Least, In
  <1>7. Apart(b)
    <2> SUFFICES ASSUME NEW i \in 1 .. Len(b), NEW j \in 1 .. Len(b), i < j PROVE EndOf(b[i]) <= b[j].fileoffset
      BY DEF Apart
    <2>1. EndOf(l[i]) <= l[j].fileoffset
      BY <1>1, <1>5 DEF Apart
    <2>2. EndOf(b[i]) \in Nat /\ EndOf(b[i]) <= EndOf(l[i]) /\ EndOf(l[i]) \in Nat
      BY <1>6
    <2>3. b[j].fileoffset = l[j].fileoffset /\ l[j].fileoffset \in Nat
      BY <1>6
    <2> QED
      BY <2>1, <2>2, <2>3
  <1>8. ASSUME NEW i \in 1 .. Len(b) PROVE lo <= b[i].fileoffset /\ EndOf(b[i]) <= p
    BY <1>1, <1>5, <1>6
  <1>9. ASSUME NEW o \in Nat, lo <= o, o < p PROVE Tells(b, o, W[o])
    <2>1. Tells(l, o, W[o])
      BY <1>9 DEF Piece
    <2>2. CASE W[o] = Hole /\ \A i \in 1 .. Len(l) : ~In(l[i], o)
      <3>1. ASSUME NEW i \in 1 .. Len(b) PROVE ~In(b[i], o)
        BY <1>5, <1>6, <2>2
      <3> QED
        BY <2>2, <3>1 DEF Tells
    <2>3. CASE \E i \in 1 .. Len(l) : In(l[i], o) /\ W[o] = Address(l[i], o)
      <3>1. PICK i \in 1 .. Len(l) : In(l[i], o) /\ W[o] = Address(l[i], o)
        BY <2>3
      <3>2. l[i].fileoffset \in Nat
        BY <1>1, SeqIs, XtIs
      <3>3. l[i].fileoffset < p
        BY <1>9, <3>1, <3>2 DEF In
      <3>4. i <= Starting(l, p)
        BY <1>4, <3>3
      <3>5. i \in 1 .. Len(b)
        BY <1>3, <3>4, <1>5 DEF CutListOf
      <3>6. In(b[i], o) /\ Address(b[i], o) = Address(l[i], o)
        BY <1>5, <1>6, <1>9, <3>1, <3>5 DEF PartOf
      <3> QED
        BY <3>1, <3>5, <3>6 DEF Tells
    <2> QED
      BY <2>1, <2>2, <2>3 DEF Tells
  <1> QED
    BY <1>2, <1>5, <1>7, <1>8, <1>9 DEF Piece

\* y is what x has from o on.
RestOf(x, o, y) ==
  /\ y \in Xt /\ EndOf(y) = EndOf(x) /\ y.fileoffset = (IF x.fileoffset < o THEN o ELSE x.fileoffset)
  /\ \A p \in Nat : p >= y.fileoffset => Address(y, p) = Address(x, p)
LEMMA RestIs ==
  ASSUME NEW x \in Xt, NEW o \in Nat, o < EndOf(x)
  PROVE  RestOf(x, o, IF x.fileoffset < o THEN CutFront(x, o) ELSE x)
  <1>1. CASE x.fileoffset < o
    <2>1. x.fileoffset <= o
      BY <1>1, XtIs
    <2>2. CutFrontOf(x, o, CutFront(x, o))
      BY <2>1, CutFrontIs
    <2> QED
      BY <1>1, <2>2 DEF CutFrontOf, RestOf
  <1>2. CASE ~(x.fileoffset < o)
    BY <1>2 DEF RestOf
  <1> QED
    BY <1>1, <1>2

AfterOf(l, n, p, a) ==
  /\ n \in 0 .. Len(l) /\ a \in Seq(Xt) /\ Len(a) = Len(l) - n
  /\ \A i \in 1 .. Len(l) : EndOf(l[i]) <= p <=> i <= n
  /\ \A i \in 1 .. Len(a) : n + i \in 1 .. Len(l) /\ RestOf(l[n + i], p, a[i])
LEMMA AfterIs ==
  ASSUME NEW l \in Seq(Xt), Apart(l), NEW x \in Xt
  PROVE  AfterOf(l, Ending(l, EndOf(x)), EndOf(x), After(l, x))
  <1>1. PICK p, n, a : p = EndOf(x) /\ n = Ending(l, p) /\ a = After(l, x)
    OBVIOUS
  <1>2. p \in Nat
    BY <1>1, XtIs
  <1>3. n \in 0 .. Len(l) /\ \A i \in 1 .. Len(l) : EndOf(l[i]) <= p <=> i <= n
    BY <1>1, <1>2, EndingIs
  <1>4. Len(l) \in Nat
    BY SeqIs
  <1>5. PICK k : k = Len(l) - n
    OBVIOUS
  <1>6. k \in Nat
    BY <1>3, <1>4, <1>5
  <1>7. a = [i \in 1 .. k |-> IF l[n + i].fileoffset < p THEN CutFront(l[n + i], p) ELSE l[n + i]]
    BY <1>1, <1>5 DEF After
  <1>8. ASSUME NEW i \in 1 .. k PROVE n + i \in 1 .. Len(l) /\ RestOf(l[n + i], p, a[i])
    <2>1. n + i \in 1 .. Len(l) /\ ~(n + i <= n)
      BY <1>3, <1>4, <1>5
    <2>2. l[n + i] \in Xt
      BY <2>1, SeqIs
    <2>3. ~(EndOf(l[n + i]) <= p)
      BY <1>3, <2>1
    <2>4. p < EndOf(l[n + i])
      BY <1>2, <2>2, <2>3, XtIs
    <2>5. RestOf(l[n + i], p, IF l[n + i].fileoffset < p THEN CutFront(l[n + i], p) ELSE l[n + i])
      BY <1>2, <2>2, <2>4, RestIs
    <2> QED
      BY <1>7, <2>1, <2>5
  <1>9. a \in [1 .. k -> Xt]
    <2>1. \A i \in 1 .. k : a[i] \in Xt
      BY <1>8 DEF RestOf
    <2> QED
      BY <1>7, <2>1
  <1>10. a \in Seq(Xt) /\ Len(a) = k
    BY <1>6, <1>9, FunSeq
  <1> QED
    BY <1>1, <1>3, <1>5, <1>8, <1>10 DEF AfterOf

LEMMA PieceAfter ==
  ASSUME NEW l, NEW lo \in Nat, NEW hi \in Nat, NEW W, NEW x \in Xt, Piece(l, lo, hi, W), lo <= EndOf(x)
  PROVE  Piece(After(l, x), EndOf(x), hi, W)
  <1>1. l \in Seq(Xt) /\ Apart(l) /\ \A i \in 1 .. Len(l) : lo <= l[i].fileoffset /\ EndOf(l[i]) <= hi
    BY DEF Piece
  <1>2. PICK p, n, a : p = EndOf(x) /\ n = Ending(l, p) /\ a = After(l, x)
    OBVIOUS
  <1>3. p \in Nat /\ AfterOf(l, n, p, a)
    BY <1>1, <1>2, AfterIs, XtIs
  <1>4. n \in Nat /\ a \in Seq(Xt) /\ Len(a) \in Nat /\ Len(l) \in Nat /\ Len(a) = Len(l) - n
    BY <1>1, <1>3, SeqIs DEF AfterOf
  <1>5. ASSUME NEW i \in 1 .. Len(a)
        PROVE  /\ n + i \in 1 .. Len(l) /\ l[n + i] \in Xt
               /\ EndOf(a[i]) = EndOf(l[n + i]) /\ EndOf(a[i]) \in Nat
               /\ p <= a[i].fileoffset /\ l[n + i].fileoffset <= a[i].fileoffset /\ a[i].fileoffset \in Nat
               /\ \A o \in Nat : In(a[i], o) <=> In(l[n + i], o) /\ p <= o
               /\ \A o \in Nat : In(a[i], o) => Address(a[i], o) = Address(l[n + i], o)
    <2>1. n + i \in 1 .. Len(l) /\ RestOf(l[n + i], p, a[i])
      BY <1>3 DEF AfterOf
    <2>2. l[n + i] \in Xt /\ a[i] \in Xt
      BY <1>1, <1>4, <2>1, SeqIs
    <2>3. EndOf(a[i]) = EndOf(l[n + i]) /\ a[i].fileoffset = (IF l[n + i].fileoffset < p THEN p ELSE l[n + i].fileoffset)
      BY <2>1 DEF RestOf
    <2>4. EndOf(l[n + i]) \in Nat /\ l[n + i].fileoffset \in Nat
      BY <2>2, XtIs
    <2>5. \A o \in Nat : o >= a[i].fileoffset => Address(a[i], o) = Address(l[n + i], o)
      BY <2>1 DEF RestOf
    <2>6. \A o \in Nat : In(a[i], o) => Address(a[i], o) = Address(l[n + i], o)
      <3> SUFFICES ASSUME NEW o \in Nat, In(a[i], o) PROVE Address(a[i], o) = Address(l[n + i], o)
        OBVIOUS
      <3>1. o >= a[i].fileoffset
        BY <1>3, <2>3, <2>4 DEF In
      <3> QED
        BY <2>5, <3>1
    <2>7. \A o \in Nat : In(a[i], o) <=> In(l[n + i], o) /\ p <= o
      BY <1>3, <2>3, <2>4 DEF In
    <2> QED
      BY <1>3, <2>1, <2>2, <2>3, <2>4, <2>6, <2>7
  <1>6. Apart(a)
    <2> SUFFICES ASSUME NEW i \in 1 .. Len(a), NEW j \in 1 .. Len(a), i < j PROVE EndOf(a[i]) <= a[j].fileoffset
      BY DEF Apart
    <2>1. n + i \in 1 .. Len(l) /\ n + j \in 1 .. Len(l) /\ n + i < n + j
      BY <1>4, <1>5
    <2>2. EndOf(l[n + i]) <= l[n + j].fileoffset
      BY <1>1, <2>1 DEF Apart
    <2>3. l[n + j] \in Xt
      BY <1>5
    <2>4. l[n + j].fileoffset \in Nat
      BY <2>3, XtIs
    <2>5. EndOf(a[i]) = EndOf(l[n + i]) /\ EndOf(a[i]) \in Nat
      BY <1>5
    <2>6. l[n + j].fileoffset <= a[j].fileoffset /\ a[j].fileoffset \in Nat
      BY <1>5
    <2> QED
      BY <2>2, <2>4, <2>5, <2>6
  <1>7. ASSUME NEW i \in 1 .. Len(a) PROVE p <= a[i].fileoffset /\ EndOf(a[i]) <= hi
    BY <1>1, <1>5
  <1>8. ASSUME NEW o \in Nat, p <= o, o < hi PROVE Tells(a, o, W[o])
    <2>1. Tells(l, o, W[o])
      BY <1>2, <1>3, <1>8 DEF Piece
    <2>2. CASE W[o] = Hole /\ \A i \in 1 .. Len(l) : ~In(l[i], o)
      <3>1. ASSUME NEW i \in 1 .. Len(a) PROVE ~In(a[i], o)
        BY <1>5, <2>2
      <3> QED
        BY <2>2, <3>1 DEF Tells
    <2>3. CASE \E i \in 1 .. Len(l) : In(l[i], o) /\ W[o] = Address(l[i], o)
      <3>1. PICK i \in 1 .. Len(l) : In(l[i], o) /\ W[o] = Address(l[i], o)
        BY <2>3
      <3>2. EndOf(l[i]) \in Nat
        BY <1>1, SeqIs, XtIs
      <3>3. ~(EndOf(l[i]) <= p)
        BY <1>3, <1>8, <3>1, <3>2 DEF In
      <3>4. ~(i <= n)
        BY <1>3, <3>3 DEF AfterOf
      <3>5. PICK k : k = i - n
        OBVIOUS
      <3>6. k \in 1 .. Len(a) /\ n + k = i
        BY <1>4, <3>4, <3>5
      <3>7. In(a[k], o) /\ Address(a[k], o) = Address(l[i], o)
        BY <1>5, <1>8, <3>1, <3>6
      <3> QED
        BY <3>1, <3>6, <3>7 DEF Tells
    <2> QED
      BY <2>1, <2>2, <2>3 DEF Tells
  <1> QED
    BY <1>2, <1>4, <1>6, <1>7, <1>8 DEF Piece

Joins(a, b, z, n, m) ==
  /\ n \in Nat /\ m \in Nat /\ Len(a) = n /\ Len(b) = m /\ Len(z) = n + m
  /\ \A i \in 1 .. n : i \in 1 .. n + m /\ z[i] = a[i]
  /\ \A i \in 1 .. m : n + i \in 1 .. n + m /\ z[n + i] = b[i]
  /\ \A k \in 1 .. n + m : k \in 1 .. n \/ \E i \in 1 .. m : k = n + i
LEMMA JoinsIs ==
  ASSUME NEW S, NEW a \in Seq(S), NEW b \in Seq(S)
  PROVE  a \o b \in Seq(S) /\ Joins(a, b, a \o b, Len(a), Len(b))
  <1>1. PICK n, m, z : n = Len(a) /\ m = Len(b) /\ z = a \o b
    OBVIOUS
  <1>2. n \in Nat /\ m \in Nat
    BY <1>1, SeqIs
  <1>3. z \in Seq(S) /\ Len(z) = n + m /\ \A i \in 1 .. n + m : z[i] = IF i <= n THEN a[i] ELSE b[i - n]
    BY <1>1, ConcatProperties
  <1>4. \A i \in 1 .. n : i \in 1 .. n + m /\ z[i] = a[i]
    BY <1>2, <1>3
  <1>5. ASSUME NEW i \in 1 .. m PROVE n + i \in 1 .. n + m /\ z[n + i] = b[i]
    <2>1. PICK k : k = n + i
      OBVIOUS
    <2>2. k \in 1 .. n + m /\ ~(k <= n) /\ k - n = i
      BY <1>2, <2>1
    <2> QED
      BY <1>3, <2>1, <2>2
  <1>6. ASSUME NEW k \in 1 .. n + m, k \notin 1 .. n PROVE \E i \in 1 .. m : k = n + i
    <2>1. k - n \in 1 .. m /\ k = n + (k - n)
      BY <1>2, <1>6
    <2> QED
      BY <2>1
  <1> QED
    BY <1>1, <1>2, <1>3, <1>4, <1>5, <1>6 DEF Joins

LEMMA OneIs ==
  ASSUME NEW S, NEW e \in S
  PROVE  <<e>> \in Seq(S) /\ Len(<<e>>) = 1 /\ <<e>>[1] = e
  OBVIOUS

LEMMA PieceJoin ==
  ASSUME NEW a, NEW b, NEW lo \in Nat, NEW mid \in Nat, NEW hi \in Nat, NEW W,
         Piece(a, lo, mid, W), Piece(b, mid, hi, W), lo <= mid, mid <= hi
  PROVE  Piece(a \o b, lo, hi, W)
  <1>1. a \in Seq(Xt) /\ Apart(a) /\ \A i \in 1 .. Len(a) : lo <= a[i].fileoffset /\ EndOf(a[i]) <= mid
    BY DEF Piece
  <1>2. b \in Seq(Xt) /\ Apart(b) /\ \A i \in 1 .. Len(b) : mid <= b[i].fileoffset /\ EndOf(b[i]) <= hi
    BY DEF Piece
  <1>3. PICK z, n, m : z = a \o b /\ n = Len(a) /\ m = Len(b)
    OBVIOUS
  <1>4. z \in Seq(Xt) /\ Joins(a, b, z, n, m)
    BY <1>1, <1>2, <1>3, JoinsIs
  <1>5. n \in Nat /\ m \in Nat /\ Len(z) = n + m /\ \A k \in 1 .. n + m : k \in 1 .. n \/ \E i \in 1 .. m : k = n + i
    BY <1>4 DEF Joins
  <1>6. \A i \in 1 .. n : i \in 1 .. n + m /\ z[i] = a[i]
    BY <1>4 DEF Joins
  <1>7. \A i \in 1 .. m : n + i \in 1 .. n + m /\ z[n + i] = b[i]
    BY <1>4 DEF Joins
  <1>8. \A i \in 1 .. n : a[i].fileoffset \in Nat /\ EndOf(a[i]) \in Nat
    BY <1>1, <1>3, SeqIs, XtIs
  <1>9. \A i \in 1 .. m : b[i].fileoffset \in Nat /\ EndOf(b[i]) \in Nat
    BY <1>2, <1>3, SeqIs, XtIs
  <1>10. ASSUME NEW k \in 1 .. Len(z) PROVE lo <= z[k].fileoffset /\ EndOf(z[k]) <= hi
    <2>1. CASE k \in 1 .. n
      <3>1. z[k] = a[k] /\ lo <= a[k].fileoffset /\ EndOf(a[k]) <= mid
        BY <1>1, <1>3, <1>6, <2>1
      <3>2. EndOf(a[k]) \in Nat
        BY <1>8, <2>1
      <3> QED
        BY <3>1, <3>2
    <2>2. CASE \E i \in 1 .. m : k = n + i
      <3>1. PICK i \in 1 .. m : k = n + i
        BY <2>2
      <3>2. z[k] = b[i] /\ mid <= b[i].fileoffset /\ EndOf(b[i]) <= hi
        BY <1>2, <1>3, <1>7, <3>1
      <3>3. b[i].fileoffset \in Nat
        BY <1>9
      <3> QED
        BY <3>2, <3>3
    <2> QED
      BY <1>5, <2>1, <2>2
  <1>11. ASSUME NEW k \in 1 .. Len(z), NEW j \in 1 .. Len(z), k < j PROVE EndOf(z[k]) <= z[j].fileoffset
    <2>1. CASE k \in 1 .. n /\ j \in 1 .. n
      <3>1. EndOf(a[k]) <= a[j].fileoffset
        BY <1>1, <1>3, <1>11, <2>1 DEF Apart
      <3> QED
        BY <1>6, <2>1, <3>1
    <2>2. CASE k \in 1 .. n /\ \E i \in 1 .. m : j = n + i
      <3>1. PICK i \in 1 .. m : j = n + i
        BY <2>2
      <3>2. z[j] = b[i] /\ mid <= b[i].fileoffset
        BY <1>2, <1>3, <1>7, <3>1
      <3>3. z[k] = a[k] /\ EndOf(a[k]) <= mid
        BY <1>1, <1>3, <1>6, <2>2
      <3>4. b[i].fileoffset \in Nat /\ EndOf(a[k]) \in Nat
        BY <1>8, <1>9, <2>2
      <3> QED
        BY <3>2, <3>3, <3>4
    <2>3. CASE (\E i \in 1 .. m : k = n + i) /\ j \in 1 .. n
      BY <1>5, <1>11, <2>3
    <2>4. CASE (\E i \in 1 .. m : k = n + i) /\ \E i \in 1 .. m : j = n + i
      <3>1. PICK h \in 1 .. m, i \in 1 .. m : k = n + h /\ j = n + i
        BY <2>4
      <3>2. h < i
        BY <1>5, <1>11, <3>1
      <3>3. EndOf(b[h]) <= b[i].fileoffset
        BY <1>2, <1>3, <3>2 DEF Apart
      <3> QED
        BY <1>7, <3>1, <3>3
    <2> QED
      BY <1>5, <2>1, <2>2, <2>3, <2>4
  <1>12. ASSUME NEW o \in Nat, lo <= o, o < hi PROVE Tells(z, o, W[o])
    <2>1. ASSUME \E i \in 1 .. n : In(a[i], o) /\ W[o] = Address(a[i], o) PROVE Tells(z, o, W[o])
      BY <1>5, <1>6, <2>1 DEF Tells
    <2>2. ASSUME \E i \in 1 .. m : In(b[i], o) /\ W[o] = Address(b[i], o) PROVE Tells(z, o, W[o])
      <3>1. PICK i \in 1 .. m : In(b[i], o) /\ W[o] = Address(b[i], o)
        BY <2>2
      <3>2. n + i \in 1 .. Len(z) /\ z[n + i] = b[i]
        BY <1>5, <1>7
      <3> QED
        BY <3>1, <3>2 DEF Tells
    <2>3. ASSUME W[o] = Hole, \A i \in 1 .. n : ~In(a[i], o), \A i \in 1 .. m : ~In(b[i], o) PROVE Tells(z, o, W[o])
      <3>1. ASSUME NEW k \in 1 .. Len(z) PROVE ~In(z[k], o)
        BY <1>5, <1>6, <1>7, <2>3
      <3> QED
        BY <2>3, <3>1 DEF Tells
    <2>4. CASE o < mid
      <3>1. Tells(a, o, W[o])
        BY <1>12, <2>4 DEF Piece
      <3>2. \A i \in 1 .. m : ~In(b[i], o)
        <4> SUFFICES ASSUME NEW i \in 1 .. m PROVE ~In(b[i], o)
          OBVIOUS
        <4>1. mid <= b[i].fileoffset /\ b[i].fileoffset \in Nat
          BY <1>2, <1>3, <1>9
        <4> QED
          BY <2>4, <4>1 DEF In
      <3> QED
        BY <1>3, <2>1, <2>3, <3>1, <3>2 DEF Tells
    <2>5. CASE ~(o < mid)
      <3>1. Tells(b, o, W[o])
        BY <1>12, <2>5 DEF Piece
      <3>2. \A i \in 1 .. n : ~In(a[i], o)
        <4> SUFFICES ASSUME NEW i \in 1 .. n PROVE ~In(a[i], o)
          OBVIOUS
        <4>1. EndOf(a[i]) <= mid /\ EndOf(a[i]) \in Nat
          BY <1>1, <1>3, <1>8
        <4> QED
          BY <2>5, <4>1 DEF In
      <3> QED
        BY <1>3, <2>2, <2>3, <3>1, <3>2 DEF Tells
    <2> QED
      BY <2>4, <2>5
  <1> QED
    BY <1>3, <1>4, <1>10, <1>11, <1>12 DEF Piece, Apart

LEMMA PieceOne ==
  ASSUME NEW x \in Xt, NEW V, \A o \in Nat : In(x, o) => V[o] = Address(x, o)
  PROVE  Piece(<<x>>, x.fileoffset, EndOf(x), V)
  <1>1. PICK l : l = <<x>>
    OBVIOUS
  <1>2. l \in Seq(Xt) /\ Len(l) = 1 /\ l[1] = x
    BY <1>1, OneIs
  <1>3. x.fileoffset \in Nat /\ EndOf(x) \in Nat
    BY XtIs
  <1>4. Apart(l)
    BY <1>2 DEF Apart
  <1>5. \A i \in 1 .. Len(l) : i = 1
    BY <1>2
  <1>6. \A i \in 1 .. Len(l) : x.fileoffset <= l[i].fileoffset /\ EndOf(l[i]) <= EndOf(x)
    BY <1>2, <1>3, <1>5
  <1>7. ASSUME NEW o \in Nat, x.fileoffset <= o, o < EndOf(x) PROVE Tells(l, o, V[o])
    <2>1. In(l[1], o) /\ V[o] = Address(l[1], o) /\ 1 \in 1 .. Len(l)
      BY <1>2, <1>7 DEF In
    <2> QED
      BY <2>1 DEF Tells
  <1> QED
    BY <1>1, <1>2, <1>4, <1>6, <1>7 DEF Piece

\* A list without its last entry.
Fronted(l, n, W, lst, f) ==
  /\ lst \in Xt /\ f \in Seq(Xt) /\ EndOf(lst) <= n
  /\ l = f \o <<lst>> /\ Piece(f, 0, lst.fileoffset, W)
  /\ \A o \in Nat : In(lst, o) => W[o] = Address(lst, o)
  /\ \A o \in Nat : EndOf(lst) <= o /\ o < n => W[o] = Hole
LEMMA PieceFront ==
  ASSUME NEW l, NEW n \in Nat, NEW W, Piece(l, 0, n, W), l # <<>>
  PROVE  Fronted(l, n, W, Last(l), Front(l))
  <1>1. l \in Seq(Xt) /\ Apart(l) /\ \A i \in 1 .. Len(l) : 0 <= l[i].fileoffset /\ EndOf(l[i]) <= n
    BY DEF Piece
  <1>2. PICK f, x, k : f = Front(l) /\ x = Last(l) /\ k = Len(l) - 1
    OBVIOUS
  <1>3. k \in Nat /\ Len(l) = k + 1
    <2>1. Len(l) \in Nat /\ Len(l) # 0
      BY <1>1
    <2> QED
      BY <1>2, <2>1
  <1>4. x = l[k + 1] /\ k + 1 \in 1 .. Len(l)
    BY <1>2, <1>3 DEF Last
  <1>5. x \in Xt /\ EndOf(x) <= n
    BY <1>1, <1>4, SeqIs
  <1>6. f \in Seq(Xt) /\ Len(f) = k /\ \A i \in 1 .. k : f[i] = l[i] /\ i \in 1 .. Len(l)
    <2>1. f = SubSeq(l, 1, k)
      BY <1>2 DEF Front
    <2>2. \A i \in 1 .. k : i \in 1 .. Len(l) /\ l[i] \in Xt
      BY <1>1, <1>3, SeqIs
    <2>3. k \in Int /\ 1 \in Int /\ k - 1 + 1 = k /\ \A i \in 1 .. k : 1 + i - 1 = i
      BY <1>3
    <2>4. f \in Seq(Xt) /\ Len(f) = (IF 1 <= k THEN k - 1 + 1 ELSE 0) /\ \A i \in 1 .. k - 1 + 1 : f[i] = l[1 + i - 1]
      BY <2>1, <2>2, <2>3, SubSeqProperties
    <2> QED
      BY <1>3, <2>2, <2>3, <2>4
  <1>7. l = f \o <<x>>
    <2>1. PICK z : z = f \o <<x>>
      OBVIOUS
    <2>2. <<x>> \in Seq(Xt) /\ Len(<<x>>) = 1 /\ <<x>>[1] = x
      BY <1>5, OneIs
    <2>3. z \in Seq(Xt) /\ Joins(f, <<x>>, z, k, 1)
      BY <1>6, <2>1, <2>2, JoinsIs
    <2>4. Len(z) = Len(l) /\ z[k + 1] = x /\ \A i \in 1 .. k : z[i] = f[i]
      BY <1>3, <2>2, <2>3 DEF Joins
    <2>5. ASSUME NEW i \in 1 .. Len(l) PROVE l[i] = z[i]
      <3>1. i \in 1 .. k \/ i = k + 1
        BY <1>3
      <3> QED
        BY <1>4, <1>6, <2>4, <3>1
    <2>6. l = z
      BY <1>1, <2>3, <2>4, <2>5, SeqEqual
    <2> QED
      BY <2>1, <2>6
  <1>8. \A i \in 1 .. k : EndOf(l[i]) <= x.fileoffset
    <2> SUFFICES ASSUME NEW i \in 1 .. k PROVE EndOf(l[i]) <= x.fileoffset
      OBVIOUS
    <2>1. i \in 1 .. Len(l) /\ k + 1 \in 1 .. Len(l) /\ i < k + 1
      BY <1>3
    <2> QED
      BY <1>1, <1>4, <2>1 DEF Apart
  <1>9. \A i \in 1 .. k : EndOf(l[i]) \in Nat /\ l[i].fileoffset \in Nat
    BY <1>1, <1>6, SeqIs, XtIs
  <1>10. x.fileoffset \in Nat /\ EndOf(x) \in Nat /\ x.fileoffset < EndOf(x)
    BY <1>5, XtIs
  <1>11. ASSUME NEW o \in Nat, o < n, x.fileoffset <= o
         PROVE  W[o] = IF o < EndOf(x) THEN Address(x, o) ELSE Hole
    <2>1. Tells(l, o, W[o])
      BY <1>11 DEF Piece
    <2>2. \A i \in 1 .. k : ~In(l[i], o)
      BY <1>8, <1>9, <1>10, <1>11 DEF In
    <2>3. \A i \in 1 .. Len(l) : In(l[i], o) => l[i] = x
      <3> SUFFICES ASSUME NEW i \in 1 .. Len(l), In(l[i], o) PROVE l[i] = x
        OBVIOUS
      <3>1. i \in 1 .. k \/ i = k + 1
        BY <1>3
      <3> QED
        BY <1>4, <2>2, <3>1
    <2>4. In(x, o) <=> o < EndOf(x)
      BY <1>11 DEF In
    <2> QED
      BY <1>4, <2>1, <2>3, <2>4 DEF Tells
  <1>12. \A o \in Nat : In(x, o) => W[o] = Address(x, o)
    <2> SUFFICES ASSUME NEW o \in Nat, In(x, o) PROVE W[o] = Address(x, o)
      OBVIOUS
    <2>1. x.fileoffset <= o /\ o < EndOf(x)
      BY DEF In
    <2>2. o < n
      BY <1>5, <1>10, <2>1
    <2> QED
      BY <1>11, <2>1, <2>2
  <1>13. \A o \in Nat : EndOf(x) <= o /\ o < n => W[o] = Hole
    <2> SUFFICES ASSUME NEW o \in Nat, EndOf(x) <= o, o < n PROVE W[o] = Hole
      OBVIOUS
    <2>1. x.fileoffset <= o /\ ~(o < EndOf(x))
      BY <1>10
    <2> QED
      BY <1>11, <2>1
  <1>14. Piece(f, 0, x.fileoffset, W)
    <2>1. Apart(f)
      BY <1>1, <1>6 DEF Apart
    <2>2. \A i \in 1 .. Len(f) : 0 <= f[i].fileoffset /\ EndOf(f[i]) <= x.fileoffset
      BY <1>1, <1>6, <1>8
    <2>3. ASSUME NEW o \in Nat, 0 <= o, o < x.fileoffset PROVE Tells(f, o, W[o])
      <3>1. Tells(l, o, W[o])
        BY <1>5, <1>10, <2>3 DEF Piece
      <3>2. ~In(x, o)
        BY <1>10, <2>3 DEF In
      <3>3. CASE W[o] = Hole /\ \A i \in 1 .. Len(l) : ~In(l[i], o)
        <4>1. \A i \in 1 .. Len(f) : ~In(f[i], o)
          BY <1>6, <3>3
        <4> QED
          BY <3>3, <4>1 DEF Tells
      <3>4. CASE \E i \in 1 .. Len(l) : In(l[i], o) /\ W[o] = Address(l[i], o)
        <4>1. PICK i \in 1 .. Len(l) : In(l[i], o) /\ W[o] = Address(l[i], o)
          BY <3>4
        <4>2. i # k + 1
          BY <1>4, <3>2, <4>1
        <4>3. i \in 1 .. k
          BY <1>3, <4>2
        <4> QED
          BY <1>6, <4>1, <4>3 DEF Tells
      <3> QED
        BY <3>1, <3>3, <3>4 DEF Tells
    <2> QED
      BY <1>6, <2>1, <2>2, <2>3 DEF Piece
  <1> QED
    BY <1>2, <1>5, <1>6, <1>7, <1>12, <1>13, <1>14 DEF Fronted

-----------------------------------------------------------------------------
(* Adding an extent.                                                       *)

\* x at the end of a list.
Placing(b, x) ==
  IF b # <<>> /\ Follows(Last(b), x) THEN Front(b) \o <<Joined(Last(b), x)>> ELSE Append(b, x)
LEMMA PiecePlaced ==
  ASSUME NEW b, NEW x \in Xt, NEW V, Piece(b, 0, x.fileoffset, V),
         \A o \in Nat : In(x, o) => V[o] = Address(x, o)
  PROVE  Piece(Placing(b, x), 0, EndOf(x), V)
  <1>1. PICK p, e : p = x.fileoffset /\ e = EndOf(x)
    OBVIOUS
  <1>2. p \in Nat /\ e \in Nat /\ p < e
    BY <1>1, XtIs
  <1>3. b \in Seq(Xt)
    BY DEF Piece
  <1>4. CASE b # <<>> /\ Follows(Last(b), x)
    <2>1. PICK lst, f : lst = Last(b) /\ f = Front(b)
      OBVIOUS
    <2>2. Fronted(b, p, V, lst, f)
      BY <1>1, <1>2, <1>4, <2>1, PieceFront
    <2>3. lst \in Xt /\ Piece(f, 0, lst.fileoffset, V) /\ \A o \in Nat : In(lst, o) => V[o] = Address(lst, o)
      BY <2>2 DEF Fronted
    <2>4. PICK z : z = Joined(lst, x)
      OBVIOUS
    <2>5. JoinedOf(lst, x, z)
      BY <1>4, <2>1, <2>3, <2>4, JoinedIs
    <2>6. z \in Xt /\ z.fileoffset = lst.fileoffset /\ EndOf(z) = e /\ p = EndOf(lst)
      BY <1>1, <2>5 DEF JoinedOf
    <2>7. lst.fileoffset \in Nat /\ lst.fileoffset < p
      BY <2>3, <2>6, XtIs
    <2>8. ASSUME NEW o \in Nat, In(z, o) PROVE V[o] = Address(z, o)
      <3>1. lst.fileoffset <= o /\ o < e
        BY <2>6, <2>8 DEF In
      <3>2. CASE o < p
        <4>1. In(lst, o)
          BY <2>6, <3>1, <3>2 DEF In
        <4>2. Address(z, o) = Address(lst, o)
          BY <2>5 DEF JoinedOf
        <4> QED
          BY <2>3, <4>1, <4>2
      <3>3. CASE ~(o < p)
        <4>1. o >= x.fileoffset /\ In(x, o)
          BY <1>1, <1>2, <3>1, <3>3 DEF In
        <4>2. Address(z, o) = Address(x, o)
          BY <2>5, <4>1 DEF JoinedOf
        <4> QED
          BY <4>1, <4>2
      <3> QED
        BY <3>2, <3>3
    <2>9. Piece(<<z>>, lst.fileoffset, e, V)
      BY <2>6, <2>8, PieceOne
    <2>10. lst.fileoffset <= e
      BY <1>2, <2>7
    <2>11. Piece(f \o <<z>>, 0, e, V)
      BY <1>2, <2>3, <2>7, <2>9, <2>10, PieceJoin
    <2>12. Placing(b, x) = f \o <<z>>
      BY <1>4, <2>1, <2>4 DEF Placing
    <2> QED
      BY <1>1, <2>11, <2>12
  <1>5. CASE ~(b # <<>> /\ Follows(Last(b), x))
    <2>1. Placing(b, x) = b \o <<x>>
      BY <1>3, <1>5, AppendIsConcat DEF Placing
    <2>2. Piece(<<x>>, p, e, V)
      BY <1>1, PieceOne
    <2>3. Piece(b \o <<x>>, 0, e, V)
      BY <1>1, <1>2, <2>2, PieceJoin
    <2> QED
      BY <1>1, <2>1, <2>3
  <1> QED
    BY <1>4, <1>5

\* V is W with the bytes of x put into it.
Over(V, W, n, x, m) ==
  \A o \in Nat : o < m => V[o] = IF In(x, o) THEN Address(x, o) ELSE IF o < n THEN W[o] ELSE Hole
Parts(l, x, p, b, a) ==
  /\ AddExtent(l, x) = Placing(b, x) \o a
  /\ b = CutList(l, p) /\ p = x.fileoffset /\ a = After(l, x)
LEMMA AddExtentParts ==
  ASSUME NEW l, NEW x
  PROVE  Parts(l, x, x.fileoffset, CutList(l, x.fileoffset), After(l, x))
  BY DEF Parts, AddExtent, Before, Placing

LEMMA PieceBefore ==
  ASSUME NEW l, NEW n \in Nat, NEW m \in Nat, NEW W, NEW V, NEW x \in Xt,
         Piece(l, 0, n, W), n <= m, EndOf(x) <= m, Over(V, W, n, x, m)
  PROVE  Piece(CutList(l, x.fileoffset), 0, x.fileoffset, V)
  <1>1. PICK p, e : p = x.fileoffset /\ e = EndOf(x)
    OBVIOUS
  <1>2. p \in Nat /\ e \in Nat /\ p < e /\ p < m
    BY <1>1, XtIs
  <1>3. ASSUME NEW o \in Nat, o < p PROVE V[o] = IF o < n THEN W[o] ELSE Hole
    <2>1. ~In(x, o) /\ o < m
      BY <1>1, <1>2, <1>3 DEF In
    <2> QED
      BY <2>1 DEF Over
  <1>4. CASE p <= n
    <2>1. Piece(CutList(l, p), 0, p, W)
      BY <1>2, <1>4, PieceCut
    <2>2. Holed(V, W, 0, p, p)
      BY <1>2, <1>3, <1>4 DEF Holed
    <2>3. Piece(CutList(l, p), 0, p, V)
      BY <1>2, <2>1, <2>2, PieceHoled
    <2> QED
      BY <1>1, <2>3
  <1>5. CASE ~(p <= n)
    <2>1. n <= p
      BY <1>2, <1>5
    <2>2. Holed(V, W, 0, n, p)
      BY <1>3 DEF Holed
    <2>3. Piece(l, 0, p, V)
      BY <1>2, <2>1, <2>2, PieceHoled
    <2>4. Piece(CutList(l, p), 0, p, V)
      BY <1>2, <2>3, PieceCut
    <2> QED
      BY <1>1, <2>4
  <1> QED
    BY <1>4, <1>5

LEMMA AddExtentIs ==
  ASSUME NEW l, NEW n \in Nat, NEW m \in Nat, NEW W, NEW V, NEW x \in Xt,
         Piece(l, 0, n, W), n <= m, EndOf(x) <= m, Over(V, W, n, x, m)
  PROVE  Piece(AddExtent(l, x), 0, m, V)
  <1>1. PICK p, e, b, a : p = x.fileoffset /\ e = EndOf(x) /\ b = CutList(l, p) /\ a = After(l, x)
    OBVIOUS
  <1>2. p \in Nat /\ e \in Nat /\ p < e /\ e <= m
    BY <1>1, XtIs
  <1>3. Piece(b, 0, p, V)
    BY <1>1, PieceBefore
  <1>4. ASSUME NEW o \in Nat, In(x, o) PROVE V[o] = Address(x, o)
    <2>1. o < m
      BY <1>1, <1>2, <1>4 DEF In
    <2> QED
      BY <1>4, <2>1 DEF Over
  <1>5. Piece(Placing(b, x), 0, e, V)
    BY <1>1, <1>3, <1>4, PiecePlaced
  <1>6. Piece(a, e, n, W)
    <2>1. 0 <= e
      BY <1>2
    <2> QED
      BY <1>1, <2>1, PieceAfter
  <1>7. Holed(V, W, e, n, m)
    <2> SUFFICES ASSUME NEW o \in Nat, e <= o, o < m PROVE V[o] = IF o < n THEN W[o] ELSE Hole
      BY DEF Holed
    <2>1. ~In(x, o)
      BY <1>1, <1>2 DEF In
    <2> QED
      BY <2>1 DEF Over
  <1>8. Piece(a, e, m, V)
    BY <1>2, <1>6, <1>7, PieceHoled
  <1>9. Piece(Placing(b, x) \o a, 0, m, V)
    <2>1. 0 <= e
      BY <1>2
    <2> QED
      BY <1>2, <1>5, <1>8, <2>1, PieceJoin
  <1>10. AddExtent(l, x) = Placing(b, x) \o a
    BY <1>1, AddExtentParts DEF Parts
  <1> QED
    BY <1>9, <1>10

-----------------------------------------------------------------------------
(* The bytes of a list.                                                    *)

LEMMA SumsShift ==
  ASSUME NEW b \in Seq(Xt), NEW z \in Seq(Xt), NEW g, NEW h, Sums(g, b), Sums(h, z),
         NEW n \in Nat, NEW k \in Nat, k <= Len(b), n + k <= Len(z),
         \A i \in 1 .. k : z[n + i].bytecount = b[i].bytecount
  PROVE  h[n + k] = h[n] + g[k]
  <1>1. Len(b) \in Nat /\ Len(z) \in Nat
    BY SeqIs
  <1>2. \A i \in 0 .. Len(b) : g[i] \in Nat
    BY DEF Sums
  <1>3. \A i \in 0 .. Len(z) : h[i] \in Nat
    BY DEF Sums
  <1>4. PICK T : T = {i \in 0 .. k : h[n + i] = h[n] + g[i]}
    OBVIOUS
  <1>5. 0 \in T
    <2>1. n \in 0 .. Len(z) /\ n + 0 = n
      BY <1>1
    <2>2. h[n] \in Nat /\ g[0] = 0
      BY <1>3, <2>1 DEF Sums
    <2>3. h[n] + 0 = h[n]
      BY <2>2
    <2> QED
      BY <1>4, <2>1, <2>2, <2>3
  <1>6. ASSUME NEW i \in 0 .. k, i \in T, i < k PROVE i + 1 \in T
    <2>1. PICK j, q : j = i + 1 /\ q = n + i
      OBVIOUS
    <2>2. j \in 1 .. k /\ j \in 1 .. Len(b) /\ i \in 0 .. Len(b) /\ j - 1 = i
      BY <1>1, <1>6, <2>1
    <2>3. q \in Nat /\ q + 1 \in 1 .. Len(z) /\ q + 1 - 1 = q /\ n + j = q + 1 /\ q \in 0 .. Len(z) /\ n \in 0 .. Len(z)
      BY <1>1, <1>6, <2>1
    <2>4. h[q + 1] = h[q] + z[q + 1].bytecount
      BY <2>3 DEF Sums
    <2>5. g[j] = g[i] + b[j].bytecount
      BY <2>2 DEF Sums
    <2>6. z[q + 1].bytecount = b[j].bytecount
      BY <2>2, <2>3
    <2>7. h[q] = h[n] + g[i]
      BY <1>4, <1>6, <2>1
    <2>8. h[n] \in Nat /\ g[i] \in Nat /\ b[j].bytecount \in Nat
      BY <1>2, <1>3, <2>2, <2>3, SeqIs, XtIs
    <2>9. PICK u, v, w : u = h[n] /\ v = g[i] /\ w = b[j].bytecount
      OBVIOUS
    <2>10. u + v + w = u + (v + w)
      BY <2>8, <2>9
    <2>11. h[n + j] = h[n] + g[j]
      BY <2>3, <2>4, <2>5, <2>6, <2>7, <2>9, <2>10
    <2>12. j \in 0 .. k
      BY <2>2
    <2> QED
      BY <1>4, <2>1, <2>11, <2>12
  <1>7. T \in SUBSET (0 .. k)
    BY <1>4
  <1>8. k \in T
    BY <1>5, <1>6, <1>7, UpTo
  <1> QED
    BY <1>4, <1>8

LEMMA BytesNat ==
  ASSUME NEW l \in Seq(Xt)
  PROVE  Bytes(l) \in Nat
  <1>1. PICK f : Sums(f, l) /\ Bytes(l) = f[Len(l)]
    BY BytesIs
  <1>2. Len(l) \in 0 .. Len(l)
    BY SeqIs
  <1> QED
    BY <1>1, <1>2 DEF Sums

LEMMA BytesEmpty == Bytes(<<>>) = 0
  <1>1. PICK l : l = <<>>
    OBVIOUS
  <1>2. l \in Seq(Xt) /\ Len(l) = 0
    BY <1>1
  <1>3. PICK f : Sums(f, l) /\ Bytes(l) = f[Len(l)]
    BY <1>2, BytesIs
  <1> QED
    BY <1>1, <1>2, <1>3 DEF Sums

LEMMA BytesOne ==
  ASSUME NEW x \in Xt
  PROVE  Bytes(<<x>>) = x.bytecount
  <1>1. PICK l : l = <<x>>
    OBVIOUS
  <1>2. l \in Seq(Xt) /\ Len(l) = 1 /\ l[1] = x
    BY <1>1, OneIs
  <1>3. PICK f : Sums(f, l) /\ Bytes(l) = f[Len(l)]
    BY <1>2, BytesIs
  <1>4. f[1] = f[0] + x.bytecount /\ f[0] = 0
    <2>1. 1 \in 1 .. Len(l) /\ 1 - 1 = 0
      BY <1>2
    <2> QED
      BY <1>2, <1>3, <2>1 DEF Sums
  <1>5. x.bytecount \in Nat
    BY XtIs
  <1> QED
    BY <1>1, <1>2, <1>3, <1>4, <1>5

LEMMA BytesJoin ==
  ASSUME NEW a \in Seq(Xt), NEW b \in Seq(Xt)
  PROVE  Bytes(a \o b) = Bytes(a) + Bytes(b)
  <1>1. PICK z, n, m : z = a \o b /\ n = Len(a) /\ m = Len(b)
    OBVIOUS
  <1>2. z \in Seq(Xt) /\ Joins(a, b, z, n, m)
    BY <1>1, JoinsIs
  <1>3. PICK f : Sums(f, a) /\ Bytes(a) = f[n]
    BY <1>1, BytesIs
  <1>4. PICK g : Sums(g, b) /\ Bytes(b) = g[m]
    BY <1>1, BytesIs
  <1>5. PICK h : Sums(h, z) /\ Bytes(z) = h[Len(z)]
    BY <1>2, BytesIs
  <1>6. n \in Nat /\ m \in Nat /\ Len(z) = n + m
    BY <1>2 DEF Joins
  <1>7. h[n] = f[n]
    <2>1. \A i \in 1 .. n : 0 + i = i /\ z[i] = a[i]
      BY <1>2 DEF Joins
    <2>2. \A i \in 1 .. n : z[0 + i].bytecount = a[i].bytecount
      BY <2>1
    <2>3. n <= Len(a) /\ 0 + n <= Len(z) /\ 0 + n = n /\ 0 \in Nat
      BY <1>1, <1>6
    <2>4. h[0 + n] = h[0] + f[n]
      BY <1>2, <1>3, <1>5, <1>6, <2>2, <2>3, SumsShift
    <2>5. h[0] = 0 /\ f[n] \in Nat
      <3>1. n \in 0 .. Len(a)
        BY <1>1, <1>6
      <3> QED
        BY <1>3, <1>5, <3>1 DEF Sums
    <2> QED
      BY <2>3, <2>4, <2>5
  <1>8. h[n + m] = h[n] + g[m]
    <2>1. \A i \in 1 .. m : z[n + i].bytecount = b[i].bytecount
      BY <1>2 DEF Joins
    <2>2. m <= Len(b) /\ n + m <= Len(z)
      BY <1>1, <1>6
    <2> QED
      BY <1>2, <1>4, <1>5, <1>6, <2>1, <2>2, SumsShift
  <1> QED
    BY <1>1, <1>3, <1>4, <1>5, <1>6, <1>7, <1>8

LEMMA BytesPlaced ==
  ASSUME NEW b, NEW n \in Nat, NEW W, Piece(b, 0, n, W), NEW x \in Xt
  PROVE  Placing(b, x) \in Seq(Xt) /\ Bytes(Placing(b, x)) = Bytes(b) + x.bytecount
  <1>1. b \in Seq(Xt) /\ x.bytecount \in Nat
    BY XtIs DEF Piece
  <1>2. CASE b # <<>> /\ Follows(Last(b), x)
    <2>1. PICK lst, f : lst = Last(b) /\ f = Front(b)
      OBVIOUS
    <2>2. Fronted(b, n, W, lst, f)
      BY <1>2, <2>1, PieceFront
    <2>3. lst \in Xt /\ f \in Seq(Xt) /\ b = f \o <<lst>>
      BY <2>2 DEF Fronted
    <2>4. PICK z : z = Joined(lst, x)
      OBVIOUS
    <2>5. JoinedOf(lst, x, z)
      BY <1>2, <2>1, <2>3, <2>4, JoinedIs
    <2>6. z \in Xt /\ z.bytecount = lst.bytecount + x.bytecount
      BY <2>5 DEF JoinedOf
    <2>7. Placing(b, x) = f \o <<z>>
      BY <1>2, <2>1, <2>4 DEF Placing
    <2>8. <<z>> \in Seq(Xt) /\ <<lst>> \in Seq(Xt)
      BY <2>3, <2>6, OneIs
    <2>9. Placing(b, x) \in Seq(Xt)
      BY <2>3, <2>7, <2>8, JoinsIs
    <2>10. Bytes(<<z>>) = lst.bytecount + x.bytecount /\ Bytes(<<lst>>) = lst.bytecount
      BY <2>3, <2>6, BytesOne
    <2>11. Bytes(Placing(b, x)) = Bytes(f) + (lst.bytecount + x.bytecount)
      BY <2>3, <2>7, <2>8, <2>10, BytesJoin
    <2>12. Bytes(b) = Bytes(f) + lst.bytecount
      BY <2>3, <2>8, <2>10, BytesJoin
    <2>13. Bytes(f) \in Nat /\ lst.bytecount \in Nat
      BY <2>3, BytesNat, XtIs
    <2> QED
      BY <1>1, <2>9, <2>11, <2>12, <2>13
  <1>3. CASE ~(b # <<>> /\ Follows(Last(b), x))
    <2>1. Placing(b, x) = b \o <<x>>
      BY <1>1, <1>3, AppendIsConcat DEF Placing
    <2>2. <<x>> \in Seq(Xt)
      BY OneIs
    <2>3. Placing(b, x) \in Seq(Xt)
      BY <1>1, <2>1, <2>2, JoinsIs
    <2> QED
      BY <1>1, <2>1, <2>2, <2>3, BytesJoin, BytesOne
  <1> QED
    BY <1>2, <1>3

LEMMA BytesAdded ==
  ASSUME NEW l, NEW n \in Nat, NEW W, Piece(l, 0, n, W), NEW x \in Xt
  PROVE  Bytes(l) - Displaced(l, x) + x.bytecount = Bytes(AddExtent(l, x))
  <1>1. PICK p, b, a : p = x.fileoffset /\ b = CutList(l, p) /\ a = After(l, x)
    OBVIOUS
  <1>2. l \in Seq(Xt) /\ Apart(l) /\ p \in Nat
    BY <1>1, XtIs DEF Piece
  <1>3. a \in Seq(Xt)
    BY <1>1, <1>2, AfterIs DEF AfterOf
  <1>4. PICK m, V : /\ m = (IF EndOf(x) > n THEN EndOf(x) ELSE n)
                    /\ V = [o \in Nat |-> IF In(x, o) THEN Address(x, o) ELSE IF o < n THEN W[o] ELSE Hole]
    OBVIOUS
  <1>5. m \in Nat /\ n <= m /\ EndOf(x) <= m /\ Over(V, W, n, x, m)
    <2>1. EndOf(x) \in Nat
      BY XtIs
    <2> QED
      BY <1>4, <2>1 DEF Over
  <1>6. Piece(b, 0, p, V)
    BY <1>1, <1>5, PieceBefore
  <1>7. Placing(b, x) \in Seq(Xt) /\ Bytes(Placing(b, x)) = Bytes(b) + x.bytecount
    BY <1>2, <1>6, BytesPlaced
  <1>8. AddExtent(l, x) = Placing(b, x) \o a
    BY <1>1, AddExtentParts DEF Parts
  <1>9. Bytes(AddExtent(l, x)) = Bytes(b) + x.bytecount + Bytes(a)
    BY <1>3, <1>7, <1>8, BytesJoin
  <1>10. Displaced(l, x) = Bytes(l) - Bytes(b) - Bytes(a)
    BY <1>1 DEF Displaced, Before
  <1>11. Bytes(l) \in Nat /\ Bytes(a) \in Nat /\ Bytes(b) \in Nat /\ x.bytecount \in Nat
    <2>1. b \in Seq(Xt)
      BY <1>6 DEF Piece
    <2> QED
      BY <1>2, <1>3, <2>1, BytesNat, XtIs
  <1> QED
    BY <1>9, <1>10, <1>11

LEMMA BytesBound ==
  ASSUME NEW l, NEW n \in Nat, NEW W, Piece(l, 0, n, W)
  PROVE  Bytes(l) \in 0 .. n
  <1>1. l \in Seq(Xt) /\ Apart(l) /\ \A i \in 1 .. Len(l) : EndOf(l[i]) <= n
    BY DEF Piece
  <1>2. PICK k : k = Len(l)
    OBVIOUS
  <1>3. k \in Nat
    BY <1>1, <1>2, SeqIs
  <1>4. PICK f : Sums(f, l) /\ Bytes(l) = f[k]
    BY <1>1, <1>2, BytesIs
  <1>5. \A i \in 0 .. k : f[i] \in Nat
    BY <1>2, <1>4 DEF Sums
  <1>6. ASSUME NEW i \in 1 .. k
        PROVE  l[i].bytecount \in Nat /\ l[i].fileoffset \in Nat /\ EndOf(l[i]) = l[i].fileoffset + l[i].bytecount
    BY <1>1, <1>2, SeqIs, XtIs DEF EndOf
  <1>7. PICK T : T = {i \in 0 .. k : i = 0 \/ f[i] <= EndOf(l[i])}
    OBVIOUS
  <1>8. T \in SUBSET (0 .. k) /\ 0 \in T
    BY <1>3, <1>7
  <1>9. ASSUME NEW i \in 0 .. k, i \in T, i < k PROVE i + 1 \in T
    <2>1. PICK j : j = i + 1
      OBVIOUS
    <2>2. j \in 1 .. k /\ j - 1 = i /\ j \in 0 .. k
      BY <1>3, <1>9, <2>1
    <2>3. f[j] = f[i] + l[j].bytecount
      BY <1>2, <1>4, <2>2 DEF Sums
    <2>4. f[i] <= l[j].fileoffset
      <3>1. CASE i = 0
        <4>1. f[i] = 0
          BY <1>4, <3>1 DEF Sums
        <4> QED
          BY <1>6, <2>2, <4>1
      <3>2. CASE i # 0
        <4>1. i \in 1 .. k /\ i < j
          BY <1>9, <2>1, <3>2
        <4>2. f[i] <= EndOf(l[i])
          BY <1>7, <1>9, <3>2
        <4>3. EndOf(l[i]) <= l[j].fileoffset
          BY <1>1, <1>2, <2>2, <4>1 DEF Apart
        <4>4. f[i] \in Nat /\ EndOf(l[i]) \in Nat /\ l[j].fileoffset \in Nat
          BY <1>5, <1>6, <2>2, <4>1
        <4> QED
          BY <4>2, <4>3, <4>4
      <3> QED
        BY <3>1, <3>2
    <2>5. f[j] <= EndOf(l[j])
      BY <1>5, <1>6, <2>2, <2>3, <2>4
    <2> QED
      BY <1>7, <2>1, <2>2, <2>5
  <1>10. k \in T
    BY <1>3, <1>8, <1>9, UpTo
  <1>11. f[k] \in Nat
    BY <1>3, <1>5
  <1>12. CASE k = 0
    BY <1>4, <1>12 DEF Sums
  <1>13. CASE k # 0
    <2>1. k \in 1 .. k
      BY <1>3, <1>13
    <2>2. f[k] <= EndOf(l[k]) /\ EndOf(l[k]) <= n /\ EndOf(l[k]) \in Nat
      BY <1>1, <1>2, <1>6, <1>7, <1>10, <1>13, <2>1
    <2> QED
      BY <1>4, <1>11, <2>2
  <1> QED
    BY <1>12, <1>13

-----------------------------------------------------------------------------
(* Reading.                                                                *)

LEMMA PieceTells ==
  ASSUME NEW l, NEW lo \in Nat, NEW hi \in Nat, NEW W, Piece(l, lo, hi, W),
         NEW i \in 1 .. Len(l), NEW o \in Nat, In(l[i], o)
  PROVE  W[o] = Address(l[i], o)
  <1>1. l \in Seq(Xt) /\ Apart(l) /\ lo <= l[i].fileoffset /\ EndOf(l[i]) <= hi
    BY DEF Piece
  <1>2. \A j \in 1 .. Len(l) : l[j].fileoffset \in Nat /\ EndOf(l[j]) \in Nat
    BY <1>1, SeqIs, XtIs
  <1>3. lo <= o /\ o < hi
    BY <1>1, <1>2 DEF In
  <1>4. Tells(l, o, W[o])
    BY <1>3 DEF Piece
  <1>5. ASSUME NEW j \in 1 .. Len(l), In(l[j], o) PROVE j = i
    <2>1. Len(l) \in Nat
      BY <1>1, SeqIs
    <2>2. l[j].fileoffset <= o /\ o < EndOf(l[j]) /\ l[i].fileoffset <= o /\ o < EndOf(l[i])
      BY <1>5 DEF In
    <2>3. CASE i < j
      <3>1. EndOf(l[i]) <= l[j].fileoffset
        BY <1>1, <2>3 DEF Apart
      <3> QED
        BY <1>2, <2>2, <3>1
    <2>4. CASE j < i
      <3>1. EndOf(l[j]) <= l[i].fileoffset
        BY <1>1, <2>4 DEF Apart
      <3> QED
        BY <1>2, <2>2, <3>1
    <2> QED
      BY <2>1, <2>3, <2>4
  <1> QED
    BY <1>4, <1>5 DEF Tells

\* What W has from a up to b.
Run(W, a, b) == [k \in 1 .. b - a |-> W[a + k - 1]]
LEMMA RunIs ==
  ASSUME NEW W, NEW a \in Nat, NEW b \in Nat, a <= b
  PROVE  Run(W, a, b) \in Seq({W[o] : o \in Nat}) /\ Len(Run(W, a, b)) = b - a
  <1>1. PICK n, S : n = b - a /\ S = {W[o] : o \in Nat}
    OBVIOUS
  <1>2. n \in Nat
    BY <1>1
  <1>3. \A k \in 1 .. n : a + k - 1 \in Nat
    BY <1>2
  <1>4. Run(W, a, b) \in [1 .. n -> S]
    BY <1>1, <1>3 DEF Run
  <1> QED
    BY <1>1, <1>2, <1>4, FunSeq

LEMMA RunJoin ==
  ASSUME NEW W, NEW a \in Nat, NEW b \in Nat, NEW c \in Nat, a <= b, b <= c
  PROVE  Run(W, a, b) \o Run(W, b, c) = Run(W, a, c)
  <1>1. PICK S, r, s, t : S = {W[o] : o \in Nat} /\ r = Run(W, a, b) /\ s = Run(W, b, c) /\ t = Run(W, a, c)
    OBVIOUS
  <1>2. a <= c
    OBVIOUS
  <1>3. r \in Seq(S) /\ Len(r) = b - a
    BY <1>1, RunIs
  <1>4. s \in Seq(S) /\ Len(s) = c - b
    BY <1>1, RunIs
  <1>5. t \in Seq(S) /\ Len(t) = c - a
    BY <1>1, <1>2, RunIs
  <1>6. PICK z, n, m : z = r \o s /\ n = b - a /\ m = c - b
    OBVIOUS
  <1>7. z \in Seq(S) /\ Joins(r, s, z, n, m)
    BY <1>3, <1>4, <1>6, JoinsIs
  <1>8. n \in Nat /\ m \in Nat /\ Len(z) = n + m /\ \A k \in 1 .. n + m : k \in 1 .. n \/ \E i \in 1 .. m : k = n + i
    BY <1>7 DEF Joins
  <1>9. Len(t) = n + m
    BY <1>5, <1>6
  <1>10. ASSUME NEW k \in 1 .. n + m PROVE z[k] = t[k]
    <2>0. t[k] = W[a + k - 1]
      <3>1. k \in 1 .. c - a
        BY <1>6, <1>8
      <3> QED
        BY <1>1, <3>1 DEF Run
    <2>1. CASE k \in 1 .. n
      <3>1. z[k] = r[k]
        BY <1>7, <2>1 DEF Joins
      <3>2. r[k] = W[a + k - 1]
        BY <1>1, <1>6, <2>1 DEF Run
      <3> QED
        BY <2>0, <3>1, <3>2
    <2>2. CASE \E i \in 1 .. m : k = n + i
      <3>1. PICK i \in 1 .. m : k = n + i
        BY <2>2
      <3>2. z[k] = s[i]
        BY <1>7, <3>1 DEF Joins
      <3>3. s[i] = W[b + i - 1]
        BY <1>1, <1>6, <3>1 DEF Run
      <3>4. b + i - 1 = a + k - 1
        BY <1>6, <3>1
      <3> QED
        BY <2>0, <3>2, <3>3, <3>4
    <2> QED
      BY <1>8, <2>1, <2>2
  <1>11. z = t
    BY <1>5, <1>7, <1>8, <1>9, <1>10, SeqEqual
  <1> QED
    BY <1>1, <1>6, <1>11

\* After i entries.
ReadAt(l, W, sz, off, last, i, nx) ==
  /\ nx \in Nat /\ off <= nx /\ nx <= last /\ nx <= sz
  /\ nx = last \/ \A j \in 1 .. i : EndOf(l[j]) <= nx
ReadSt(W, off, nx) == [next |-> nx, out |-> Run(W, off, nx)]
LEMMA ReadStepIs ==
  ASSUME NEW l, NEW W, NEW sz \in Nat, NEW off \in Nat, NEW last \in Nat, NEW i \in 1 .. Len(l), NEW nx,
         Piece(l, 0, sz, W), ReadAt(l, W, sz, off, last, i - 1, nx)
  PROVE  \E ny : ReadAt(l, W, sz, off, last, i, ny) /\ ReadStep(ReadSt(W, off, nx), l[i], last) = ReadSt(W, off, ny)
  <1>1. PICK e, r : e = l[i] /\ r = ReadSt(W, off, nx)
    OBVIOUS
  <1>2. nx \in Nat /\ off <= nx /\ nx <= last /\ nx <= sz /\ r.next = nx /\ r.out = Run(W, off, nx)
    BY <1>1 DEF ReadAt, ReadSt
  <1>3. l \in Seq(Xt) /\ Apart(l) /\ Len(l) \in Nat
    BY SeqIs DEF Piece
  <1>4. \A j \in 1 .. Len(l) : l[j].fileoffset \in Nat /\ EndOf(l[j]) \in Nat
    BY <1>3, SeqIs, XtIs
  <1>5. e \in Xt /\ e.fileoffset \in Nat /\ EndOf(e) \in Nat /\ e.fileoffset < EndOf(e) /\ EndOf(e) <= sz
    BY <1>1, <1>3, SeqIs, XtIs DEF Piece
  <1>6. CASE nx = last
    <2>1. ReadStep(r, e, last) = r
      BY <1>2, <1>6 DEF ReadStep
    <2>2. ReadAt(l, W, sz, off, last, i, nx)
      BY <1>2, <1>6 DEF ReadAt
    <2> QED
      BY <1>1, <2>1, <2>2
  <1>7. CASE nx # last
    <2>1. \A j \in 1 .. i - 1 : EndOf(l[j]) <= nx
      BY <1>7 DEF ReadAt
    <2>2. PICK hole : hole = IF nx < e.fileoffset THEN Least(e.fileoffset, last) - nx ELSE 0
      OBVIOUS
    <2>3. PICK from : from = nx + hole
      OBVIOUS
    <2>4. PICK n : n = IF EndOf(e) > from THEN Least(EndOf(e), last) - from ELSE 0
      OBVIOUS
    <2>5. PICK ny : ny = from + n
      OBVIOUS
    <2>6. hole \in Nat /\ from \in Nat /\ nx <= from /\ from <= last /\ from <= sz /\ (from < last => from >= e.fileoffset)
      BY <1>2, <1>5, <1>7, <2>2, <2>3 DEF Least
    <2>7. n \in Nat /\ ny \in Nat /\ from <= ny /\ ny <= last /\ ny <= sz /\ (ny # last => EndOf(e) <= ny)
      BY <1>5, <2>4, <2>5, <2>6 DEF Least
    <2>8. ReadStep(r, e, last) =
            [next |-> from + n,
             out |-> r.out \o [k \in 1 .. hole |-> Hole] \o [k \in 1 .. n |-> Address(e, from + k - 1)]]
      BY <1>2, <1>7, <2>2, <2>3, <2>4 DEF ReadStep
    <2>9. [k \in 1 .. hole |-> Hole] = Run(W, nx, from)
      <3>1. hole = from - nx
        BY <1>2, <2>3, <2>6
      <3>2. ASSUME NEW k \in 1 .. hole PROVE W[nx + k - 1] = Hole
        <4>1. PICK o : o = nx + k - 1
          OBVIOUS
        <4>2. o \in Nat /\ nx <= o /\ o < from /\ o < e.fileoffset
          BY <1>2, <1>5, <2>2, <2>3, <2>6, <4>1 DEF Least
        <4>3. Tells(l, o, W[o])
          BY <2>6, <4>2 DEF Piece
        <4>4. ASSUME NEW j \in 1 .. Len(l) PROVE ~In(l[j], o)
          <5>1. CASE j \in 1 .. i - 1
            <6>1. EndOf(l[j]) <= nx /\ EndOf(l[j]) \in Nat
              BY <1>4, <2>1, <5>1
            <6> QED
              BY <1>2, <4>2, <6>1 DEF In
          <5>2. CASE j = i
            BY <1>1, <1>5, <4>2, <5>2 DEF In
          <5>3. CASE i < j
            <6>1. EndOf(l[i]) <= l[j].fileoffset
              BY <1>3, <5>3 DEF Apart
            <6>2. l[j].fileoffset \in Nat
              BY <1>4
            <6> QED
              BY <1>1, <1>5, <4>2, <6>1, <6>2 DEF In
          <5> QED
            BY <1>3, <5>1, <5>2, <5>3
        <4> QED
          BY <4>1, <4>3, <4>4 DEF Tells
      <3> QED
        BY <3>1, <3>2 DEF Run
    <2>10. [k \in 1 .. n |-> Address(e, from + k - 1)] = Run(W, from, ny)
      <3>1. n = ny - from
        BY <2>5, <2>6, <2>7
      <3>2. ASSUME NEW k \in 1 .. n PROVE W[from + k - 1] = Address(e, from + k - 1)
        <4>1. PICK o : o = from + k - 1
          OBVIOUS
        <4>2. o \in Nat /\ from <= o /\ o < EndOf(e) /\ o < last
          BY <1>5, <2>4, <2>6, <2>7, <4>1 DEF Least
        <4>3. from < last
          BY <2>6, <4>2
        <4>4. In(l[i], o)
          BY <1>1, <1>5, <2>6, <4>2, <4>3 DEF In
        <4>5. 0 \in Nat
          OBVIOUS
        <4>6. W[o] = Address(l[i], o)
          BY <4>2, <4>4, <4>5, PieceTells
        <4> QED
          BY <1>1, <4>1, <4>6
      <3>3. [k \in 1 .. n |-> Address(e, from + k - 1)] = [k \in 1 .. n |-> W[from + k - 1]]
        BY <3>2
      <3> QED
        BY <3>1, <3>3 DEF Run
    <2>11. Run(W, off, nx) \o Run(W, nx, from) = Run(W, off, from)
      <3>1. nx \in Nat /\ off <= nx
        BY <1>2
      <3>2. from \in Nat /\ nx <= from
        BY <2>6
      <3> QED
        BY <3>1, <3>2, RunJoin
    <2>12. off <= from
      BY <1>2, <2>6
    <2>13. Run(W, off, from) \o Run(W, from, ny) = Run(W, off, ny)
      BY <2>6, <2>7, <2>12, RunJoin
    <2>14. ReadStep(r, e, last) = ReadSt(W, off, ny)
      BY <1>2, <2>5, <2>8, <2>9, <2>10, <2>11, <2>13 DEF ReadSt
    <2>15. ReadAt(l, W, sz, off, last, i, ny)
      <3>1. ASSUME ny # last, NEW j \in 1 .. i PROVE EndOf(l[j]) <= ny
        <4>1. CASE j = i
          BY <1>1, <2>7, <3>1, <4>1
        <4>2. CASE j # i
          <5>1. j \in 1 .. i - 1 /\ j \in 1 .. Len(l)
            BY <1>3, <4>2
          <5>2. EndOf(l[j]) <= nx /\ EndOf(l[j]) \in Nat
            BY <1>4, <2>1, <5>1
          <5> QED
            BY <1>2, <2>6, <2>7, <5>2
        <4> QED
          BY <4>1, <4>2
      <3>2. off <= ny
        BY <2>6, <2>7, <2>12
      <3> QED
        BY <2>7, <3>1, <3>2 DEF ReadAt
    <2> QED
      BY <1>1, <2>14, <2>15
  <1> QED
    BY <1>6, <1>7

LEMMA ReadIs ==
  ASSUME NEW l, NEW W, NEW sz \in Nat, NEW off \in Nat, NEW count \in Nat, Piece(l, 0, sz, W), off <= sz
  PROVE  Read(l, sz, off, count) = Run(W, off, Least(off + count, sz))
  <1>1. PICK n, last : n = Len(l) /\ last = off + count
    OBVIOUS
  <1>2. l \in Seq(Xt) /\ n \in Nat /\ last \in Nat /\ off <= last
    BY <1>1, SeqIs DEF Piece
  <1>3. PICK I : I = {p \in (0 .. n) \X {ReadSt(W, off, nx) : nx \in Nat} :
                        \E nx : p[2] = ReadSt(W, off, nx) /\ ReadAt(l, W, sz, off, last, p[1], nx)}
    OBVIOUS
  <1>4. ASSUME NEW i \in 0 .. n, NEW s
        PROVE  <<i, s>> \in I <=> \E nx : s = ReadSt(W, off, nx) /\ ReadAt(l, W, sz, off, last, i, nx)
    <2>1. ASSUME NEW nx, s = ReadSt(W, off, nx), ReadAt(l, W, sz, off, last, i, nx) PROVE <<i, s>> \in I
      <3>1. nx \in Nat
        BY <2>1 DEF ReadAt
      <3>2. <<i, s>> \in (0 .. n) \X {ReadSt(W, off, ny) : ny \in Nat}
        BY <2>1, <3>1
      <3> QED
        BY <1>3, <2>1, <3>2
    <2>2. ASSUME <<i, s>> \in I PROVE \E nx : s = ReadSt(W, off, nx) /\ ReadAt(l, W, sz, off, last, i, nx)
      BY <1>3, <2>2
    <2> QED
      BY <2>1, <2>2
  <1>5. ASSUME NEW i \in 1 .. n, NEW s, <<i - 1, s>> \in I PROVE <<i, ReadStep(s, l[i], last)>> \in I
    <2>1. i - 1 \in 0 .. n /\ i \in 0 .. n /\ i \in 1 .. Len(l)
      BY <1>1, <1>2
    <2>2. PICK nx : s = ReadSt(W, off, nx) /\ ReadAt(l, W, sz, off, last, i - 1, nx)
      BY <1>4, <1>5, <2>1
    <2>3. \E ny : ReadAt(l, W, sz, off, last, i, ny) /\ ReadStep(ReadSt(W, off, nx), l[i], last) = ReadSt(W, off, ny)
      BY <1>2, <2>1, <2>2, ReadStepIs
    <2> QED
      BY <1>4, <2>1, <2>2, <2>3
  <1>6. PICK b : b = [next |-> off, out |-> <<>>]
    OBVIOUS
  <1>7. <<0, b>> \in I
    <2>1. Run(W, off, off) = <<>>
      <3>1. Run(W, off, off) \in Seq({W[o] : o \in Nat}) /\ Len(Run(W, off, off)) = off - off
        <4>1. off <= off
          OBVIOUS
        <4> QED
          BY <4>1, RunIs
      <3>2. off - off = 0
        OBVIOUS
      <3> QED
        BY <3>1, <3>2
    <2>2. b = ReadSt(W, off, off)
      BY <1>6, <2>1 DEF ReadSt
    <2>3. ReadAt(l, W, sz, off, last, 0, off)
      BY <1>2 DEF ReadAt
    <2>4. 0 \in 0 .. n
      BY <1>2
    <2> QED
      BY <1>4, <2>2, <2>3, <2>4
  <1>8. PICK G : G = [p \in I |-> ReadStep(p[2], l[p[1] + 1], last)]
    OBVIOUS
  <1>9. ASSUME NEW i \in 1 .. n, NEW s, <<i - 1, s>> \in I
        PROVE  G[<<i - 1, s>>] = ReadStep(s, l[i], last) /\ <<i, G[<<i - 1, s>>]>> \in I
    <2>1. i - 1 + 1 = i
      OBVIOUS
    <2>2. G[<<i - 1, s>>] = ReadStep(s, l[i - 1 + 1], last)
      BY <1>8, <1>9
    <2> QED
      BY <1>5, <1>9, <2>1, <2>2
  <1>10. PICK f : Fold(f, G, I, b, n)
    BY <1>2, <1>7, <1>9, Folds
  <1>11. f = [i \in 0 .. n |-> IF i = 0 THEN b ELSE ReadStep(f[i - 1], l[i], last)]
    <2>1. ASSUME NEW i \in 0 .. n PROVE f[i] = IF i = 0 THEN b ELSE ReadStep(f[i - 1], l[i], last)
      <3>1. CASE i = 0
        BY <1>10, <3>1 DEF Fold
      <3>2. CASE i # 0
        <4>1. i \in 1 .. n /\ i - 1 \in 0 .. n
          BY <1>2, <3>2
        <4>2. <<i - 1, f[i - 1]>> \in I /\ f[i] = G[<<i - 1, f[i - 1]>>]
          BY <1>10, <4>1 DEF Fold
        <4> QED
          BY <1>9, <3>2, <4>1, <4>2
      <3> QED
        BY <3>1, <3>2
    <2>2. f = [i \in 0 .. n |-> f[i]]
      BY <1>10 DEF Fold
    <2> QED
      BY <2>1, <2>2
  <1>12. \E g : g = [i \in 0 .. Len(l) |-> IF i = 0 THEN [next |-> off, out |-> <<>>] ELSE ReadStep(g[i - 1], l[i], off + count)]
    BY <1>1, <1>6, <1>11
  <1>13. PICK h : h = CHOOSE acc : acc = [i \in 0 .. Len(l) |-> IF i = 0 THEN [next |-> off, out |-> <<>>]
                                                               ELSE ReadStep(acc[i - 1], l[i], off + count)]
    OBVIOUS
  <1>14. h = [i \in 0 .. Len(l) |-> IF i = 0 THEN [next |-> off, out |-> <<>>] ELSE ReadStep(h[i - 1], l[i], off + count)]
    BY <1>12, <1>13
  <1>15. h = [i \in 0 .. n |-> IF i = 0 THEN b ELSE ReadStep(h[i - 1], l[i], last)]
    BY <1>1, <1>6, <1>14
  <1>16. Read(l, sz, off, count) = h[Len(l)].out \o [k \in 1 .. (IF h[Len(l)].next < sz THEN Least(off + count, sz) - h[Len(l)].next ELSE 0) |-> Hole]
    BY <1>13 DEF Read
  <1>17. h[0] = b /\ \A i \in 1 .. n : h[i] = ReadStep(h[i - 1], l[i], last)
    <2>1. 0 \in 0 .. n /\ \A i \in 1 .. n : i \in 0 .. n /\ i # 0
      BY <1>2
    <2> QED
      BY <1>15, <2>1
  <1>18. <<n, h[n]>> \in I
    <2>1. ASSUME NEW i \in 1 .. n, <<i - 1, h[i - 1]>> \in I PROVE <<i, h[i]>> \in I
      BY <1>5, <1>17, <2>1
    <2>2. <<0, h[0]>> \in I
      BY <1>7, <1>17
    <2>3. \A i \in 0 .. n : <<i, h[i]>> \in I
      BY <1>2, <2>1, <2>2, Steps
    <2>4. n \in 0 .. n
      BY <1>2
    <2> QED
      BY <2>3, <2>4
  <1>19. PICK nx : h[n] = ReadSt(W, off, nx) /\ ReadAt(l, W, sz, off, last, n, nx)
    <2>1. n \in 0 .. n
      BY <1>2
    <2> QED
      BY <1>4, <1>18, <2>1
  <1>20. nx \in Nat /\ off <= nx /\ nx <= last /\ nx <= sz /\ (nx = last \/ \A j \in 1 .. n : EndOf(l[j]) <= nx)
    BY <1>19 DEF ReadAt
  <1>21. PICK c, tail : c = Least(last, sz) /\ tail = IF nx < sz THEN c - nx ELSE 0
    OBVIOUS
  <1>22. c \in Nat /\ nx <= c /\ c <= sz /\ tail = c - nx
    BY <1>2, <1>20, <1>21 DEF Least
  <1>23. [k \in 1 .. tail |-> Hole] = Run(W, nx, c)
    <2>1. ASSUME NEW k \in 1 .. tail PROVE W[nx + k - 1] = Hole
      <3>1. PICK o : o = nx + k - 1
        OBVIOUS
      <3>2. o \in Nat /\ nx <= o /\ o < c /\ o < sz /\ nx # last
        BY <1>2, <1>20, <1>21, <1>22, <3>1 DEF Least
      <3>3. Tells(l, o, W[o])
        BY <3>2 DEF Piece
      <3>4. ASSUME NEW j \in 1 .. Len(l) PROVE ~In(l[j], o)
        <4>1. EndOf(l[j]) <= nx
          BY <1>1, <1>20, <3>2
        <4>2. EndOf(l[j]) \in Nat
          BY <1>2, SeqIs, XtIs
        <4> QED
          BY <1>20, <3>2, <4>1, <4>2 DEF In
      <3> QED
        BY <3>1, <3>3, <3>4 DEF Tells
    <2> QED
      BY <1>22, <2>1 DEF Run
  <1>24. Run(W, off, nx) \o Run(W, nx, c) = Run(W, off, c)
    BY <1>20, <1>22, RunJoin
  <1>25. h[n].next = nx /\ h[n].out = Run(W, off, nx)
    BY <1>19 DEF ReadSt
  <1>26. Read(l, sz, off, count) = Run(W, off, nx) \o [k \in 1 .. tail |-> Hole]
    BY <1>1, <1>16, <1>21, <1>25
  <1> QED
    BY <1>1, <1>21, <1>23, <1>24, <1>26

-----------------------------------------------------------------------------
(* Reading an index.                                                       *)

LEMMA FirstsIs ==
  ASSUME NEW S, NEW l \in Seq(S), NEW i \in 0 .. Len(l)
  PROVE  SubSeq(l, 1, i) \in Seq(S) /\ Len(SubSeq(l, 1, i)) = i /\ \A j \in 1 .. i : SubSeq(l, 1, i)[j] = l[j]
  <1>1. Len(l) \in Nat /\ i \in Nat /\ i <= Len(l)
    BY SeqIs
  <1>2. \A j \in 1 .. i : l[j] \in S /\ 1 + j - 1 = j
    <2> SUFFICES ASSUME NEW j \in 1 .. i PROVE l[j] \in S /\ 1 + j - 1 = j
      OBVIOUS
    <2>1. j \in 1 .. Len(l)
      BY <1>1
    <2> QED
      BY <2>1, SeqIs
  <1>3. i \in Int /\ 1 \in Int /\ i - 1 + 1 = i
    BY <1>1
  <1>4. /\ SubSeq(l, 1, i) \in Seq(S)
        /\ Len(SubSeq(l, 1, i)) = IF 1 <= i THEN i - 1 + 1 ELSE 0
        /\ \A j \in 1 .. i - 1 + 1 : SubSeq(l, 1, i)[j] = l[1 + j - 1]
    BY <1>2, <1>3, SubSeqProperties
  <1>5. (IF 1 <= i THEN i - 1 + 1 ELSE 0) = i
    BY <1>1
  <1> QED
    BY <1>2, <1>3, <1>4, <1>5

LEMMA FirstsMore ==
  ASSUME NEW S, NEW l \in Seq(S), NEW i \in 1 .. Len(l)
  PROVE  SubSeq(l, 1, i) = SubSeq(l, 1, i - 1) \o <<l[i]>>
  <1>1. Len(l) \in Nat
    BY SeqIs
  <1>2. 1 \in 1 .. Len(l) /\ i \in 1 .. Len(l)
    BY <1>1
  <1> QED
    BY <1>2, SubSeqRecursiveSecond

\* The first i extents have been read.
Parsed(l, i) == [ok |-> TRUE, list |-> SubSeq(l, 1, i)]
LEMMA ParseIs ==
  ASSUME NEW l \in Seq(Xt), Apart(l), NEW i \in 1 .. Len(l)
  PROVE  Parse(SubSeq(l, 1, i - 1), l[i]) = Parsed(l, i)
  <1>1. PICK k, s, x : k = i - 1 /\ s = SubSeq(l, 1, k) /\ x = l[i]
    OBVIOUS
  <1>2. Len(l) \in Nat /\ k \in Nat /\ k \in 0 .. Len(l) /\ k + 1 = i /\ x \in Xt
    BY <1>1, SeqIs
  <1>3. s \in Seq(Xt) /\ Len(s) = k /\ \A j \in 1 .. k : s[j] = l[j]
    BY <1>1, <1>2, FirstsIs
  <1>4. ASSUME NEW j \in 1 .. k PROVE EndOf(s[j]) <= x.fileoffset
    <2>1. j \in 1 .. Len(l) /\ j < i
      BY <1>2
    <2> QED
      BY <1>1, <1>3, <2>1 DEF Apart
  <1>5. Ending(s, x.fileoffset) = k
    <2>1. DOMAIN s = 1 .. k
      BY <1>3, SeqIs
    <2>2. {j \in DOMAIN s : EndOf(s[j]) <= x.fileoffset} = 1 .. k
      BY <1>4, <2>1
    <2>3. Cardinality(1 .. k) = k
      BY <1>2, FS_Interval
    <2> QED
      BY <2>2, <2>3 DEF Ending
  <1>6. ~\E j \in (k + 1) .. Len(s) : EndOf(x) > s[j].fileoffset
    BY <1>2, <1>3
  <1>7. Parse(s, x) = [ok |-> TRUE, list |-> InsertAt(s, k + 1, x)]
    BY <1>5, <1>6 DEF Parse
  <1>8. InsertAt(s, k + 1, x) = SubSeq(l, 1, i)
    <2>1. k + 1 - 1 = k
      BY <1>2
    <2>2. InsertAt(s, k + 1, x) = SubSeq(s, 1, k) \o <<x>> \o SubSeq(s, k + 1, k)
      <3>1. PICK j, h : j = k + 1 /\ h = j - 1
        OBVIOUS
      <3>2. h = k /\ k = Len(s)
        BY <1>2, <1>3, <3>1
      <3>3. InsertAt(s, j, x) = SubSeq(s, 1, h) \o <<x>> \o SubSeq(s, j, Len(s))
        BY <3>1, Zenon DEF InsertAt
      <3> QED
        BY <3>1, <3>2, <3>3, Zenon
    <2>3. SubSeq(s, 1, k) = s
      BY <1>3, SubSeqFull
    <2>4. SubSeq(s, k + 1, k) = <<>>
      <3>1. k + 1 \in Int /\ k \in Int /\ k < k + 1
        BY <1>2
      <3> QED
        BY <3>1, SubSeqEmpty
    <2>5. s \o <<x>> \in Seq(Xt)
      BY <1>2, <1>3, OneIs, JoinsIs
    <2>6. InsertAt(s, k + 1, x) = s \o <<x>>
      BY <2>2, <2>3, <2>4, <2>5, ConcatEmptySeq
    <2> QED
      BY <1>1, <2>6, FirstsMore
  <1> QED
    BY <1>1, <1>7, <1>8 DEF Parsed

LEMMA ParseAllIs ==
  ASSUME NEW l \in Seq(Xt), Apart(l)
  PROVE  ParseAll(l) = [ok |-> TRUE, list |-> l]
  <1>1. PICK n : n = Len(l)
    OBVIOUS
  <1>2. n \in Nat
    BY <1>1, SeqIs
  <1>3. Parsed(l, 0) = [ok |-> TRUE, list |-> <<>>]
    <2>1. SubSeq(l, 1, 0) = <<>>
      BY SubSeqEmpty
    <2> QED
      BY <2>1 DEF Parsed
  <1>4. \A i \in 0 .. n : Parsed(l, i).ok /\ Parsed(l, i).list = SubSeq(l, 1, i)
    BY DEF Parsed
  <1>5. PICK f : f = [i \in 0 .. n |-> Parsed(l, i)]
    OBVIOUS
  <1>6. f = [i \in 0 .. n |-> IF i = 0 THEN [ok |-> TRUE, list |-> <<>>]
                              ELSE IF f[i - 1].ok THEN Parse(f[i - 1].list, l[i]) ELSE f[i - 1]]
    <2>1. ASSUME NEW i \in 0 .. n
          PROVE  f[i] = IF i = 0 THEN [ok |-> TRUE, list |-> <<>>]
                        ELSE IF f[i - 1].ok THEN Parse(f[i - 1].list, l[i]) ELSE f[i - 1]
      <3>1. CASE i = 0
        BY <1>2, <1>3, <1>5, <3>1
      <3>2. CASE i # 0
        <4>1. i \in 1 .. Len(l) /\ i - 1 \in 0 .. n
          BY <1>1, <1>2, <3>2
        <4>2. f[i - 1] = Parsed(l, i - 1) /\ f[i] = Parsed(l, i)
          BY <1>5, <4>1
        <4>3. f[i - 1].ok /\ f[i - 1].list = SubSeq(l, 1, i - 1)
          BY <1>4, <4>1, <4>2
        <4>4. Parse(f[i - 1].list, l[i]) = Parsed(l, i)
          BY <4>1, <4>3, ParseIs
        <4> QED
          BY <3>2, <4>2, <4>3, <4>4
      <3> QED
        BY <3>1, <3>2
    <2> QED
      BY <1>5, <2>1
  <1>7. PICK h : h = CHOOSE r : r = [i \in 0 .. Len(l) |-> IF i = 0 THEN [ok |-> TRUE, list |-> <<>>]
                                     ELSE IF r[i - 1].ok THEN Parse(r[i - 1].list, l[i]) ELSE r[i - 1]]
    OBVIOUS
  <1>8. h = [i \in 0 .. n |-> IF i = 0 THEN [ok |-> TRUE, list |-> <<>>]
                              ELSE IF h[i - 1].ok THEN Parse(h[i - 1].list, l[i]) ELSE h[i - 1]]
    BY <1>1, <1>6, <1>7
  <1>9. ParseAll(l) = h[n]
    BY <1>1, <1>7 DEF ParseAll
  <1>10. PICK T : T = {i \in 0 .. n : h[i] = Parsed(l, i)}
    OBVIOUS
  <1>11. T \in SUBSET (0 .. n) /\ 0 \in T
    <2>1. 0 \in 0 .. n
      BY <1>2
    <2>2. h[0] = [ok |-> TRUE, list |-> <<>>]
      BY <1>8, <2>1
    <2> QED
      BY <1>3, <1>10, <2>1, <2>2
  <1>12. ASSUME NEW i \in 0 .. n, i \in T, i < n PROVE i + 1 \in T
    <2>1. PICK j : j = i + 1
      OBVIOUS
    <2>2. j \in 0 .. n /\ j # 0 /\ j - 1 = i /\ j \in 1 .. Len(l)
      BY <1>1, <1>2, <1>12, <2>1
    <2>3. h[i] = Parsed(l, i)
      BY <1>10, <1>12
    <2>4. h[i].ok /\ h[i].list = SubSeq(l, 1, i)
      BY <1>4, <2>3
    <2>5. h[j] = IF h[j - 1].ok THEN Parse(h[j - 1].list, l[j]) ELSE h[j - 1]
      BY <1>8, <2>2
    <2>6. Parse(SubSeq(l, 1, j - 1), l[j]) = Parsed(l, j)
      BY <2>2, ParseIs
    <2>7. h[j] = Parsed(l, j)
      BY <2>2, <2>4, <2>5, <2>6
    <2> QED
      BY <1>10, <2>1, <2>2, <2>7
  <1>13. n \in T
    BY <1>2, <1>11, <1>12, UpTo
  <1>14. SubSeq(l, 1, n) = l
    BY <1>1, SubSeqFull
  <1> QED
    BY <1>9, <1>10, <1>13, <1>14 DEF Parsed

-----------------------------------------------------------------------------
(* The extents in the index partition: the last one that has a byte tells   *)
(* where it is.                                                            *)

Shown(l, o, v) ==
  \E i \in 1 .. Len(l) :
    In(l[i], o) /\ v = Address(l[i], o) /\ \A k \in 1 .. Len(l) : In(l[k], o) => k <= i
Bare(l, o) == \A i \in 1 .. Len(l) : ~In(l[i], o)

LEMMA ShownMore ==
  ASSUME NEW l \in Seq(Xt), NEW y \in Xt, NEW o, NEW v
  PROVE  /\ Append(l, y) \in Seq(Xt)
         /\ In(y, o) /\ v = Address(y, o) => Shown(Append(l, y), o, v)
         /\ ~In(y, o) => (Shown(Append(l, y), o, v) <=> Shown(l, o, v))
         /\ In(y, o) => (Shown(Append(l, y), o, v) => v = Address(y, o))
         /\ Bare(Append(l, y), o) <=> ~In(y, o) /\ Bare(l, o)
  <1>1. PICK z, n : z = Append(l, y) /\ n = Len(l)
    OBVIOUS
  <1>2. n \in Nat
    BY <1>1, SeqIs
  <1>3. z \in Seq(Xt) /\ Len(z) = n + 1 /\ z[n + 1] = y /\ \A i \in 1 .. n : z[i] = l[i]
    BY <1>1, AppendProperties
  <1>4. \A i \in 1 .. Len(z) : i \in 1 .. n \/ i = n + 1
    BY <1>2, <1>3
  <1>5. n + 1 \in 1 .. Len(z) /\ \A i \in 1 .. n : i \in 1 .. Len(z) /\ ~(n + 1 <= i)
    BY <1>2, <1>3
  <1>6. ASSUME In(y, o), v = Address(y, o) PROVE Shown(z, o, v)
    <2>1. \A k \in 1 .. Len(z) : k <= n + 1
      BY <1>2, <1>3
    <2> QED
      BY <1>3, <1>5, <1>6, <2>1 DEF Shown
  <1>7. ASSUME ~In(y, o), Shown(z, o, v) PROVE Shown(l, o, v)
    <2>1. PICK i \in 1 .. Len(z) : In(z[i], o) /\ v = Address(z[i], o) /\ \A k \in 1 .. Len(z) : In(z[k], o) => k <= i
      BY <1>7 DEF Shown
    <2>2. i \in 1 .. n
      BY <1>3, <1>4, <1>7, <2>1
    <2>3. \A k \in 1 .. n : In(l[k], o) => k <= i
      BY <1>3, <1>5, <2>1
    <2> QED
      BY <1>1, <1>3, <2>1, <2>2, <2>3 DEF Shown
  <1>8. ASSUME ~In(y, o), Shown(l, o, v) PROVE Shown(z, o, v)
    <2>1. PICK i \in 1 .. n : In(l[i], o) /\ v = Address(l[i], o) /\ \A k \in 1 .. n : In(l[k], o) => k <= i
      BY <1>1, <1>8 DEF Shown
    <2>2. ASSUME NEW k \in 1 .. Len(z), In(z[k], o) PROVE k <= i
      <3>1. k \in 1 .. n
        BY <1>3, <1>4, <1>8, <2>2
      <3> QED
        BY <1>3, <2>1, <2>2, <3>1
    <2> QED
      BY <1>3, <1>5, <2>1, <2>2 DEF Shown
  <1>9. ASSUME In(y, o), Shown(z, o, v) PROVE v = Address(y, o)
    <2>1. PICK i \in 1 .. Len(z) : In(z[i], o) /\ v = Address(z[i], o) /\ \A k \in 1 .. Len(z) : In(z[k], o) => k <= i
      BY <1>9 DEF Shown
    <2>2. n + 1 <= i
      BY <1>3, <1>5, <1>9, <2>1
    <2>3. i = n + 1
      BY <1>4, <1>5, <2>2
    <2> QED
      BY <1>3, <2>1, <2>3
  <1>10. Bare(z, o) <=> ~In(y, o) /\ Bare(l, o)
    <2>1. ASSUME Bare(z, o) PROVE ~In(y, o) /\ Bare(l, o)
      BY <1>1, <1>3, <1>5, <2>1 DEF Bare
    <2>2. ASSUME ~In(y, o), Bare(l, o) PROVE Bare(z, o)
      BY <1>1, <1>3, <1>4, <2>2 DEF Bare
    <2> QED
      BY <2>1, <2>2
  <1> QED
    BY <1>1, <1>3, <1>6, <1>7, <1>8, <1>9, <1>10

\* An extent of the list, where blocks up to m have been written.
AltEntry(x, m) == x \in Xt /\ EndOf(x) <= FileMax /\ LastBlock(x) < m
\* x is in front of y: they are apart, or y is inside x, or x cannot be joined any more.
Nested(x, y, m) ==
  /\ x.fileoffset <= y.fileoffset
  /\ EndOf(x) <= y.fileoffset \/ EndOf(y) <= EndOf(x) \/ LastBlock(x) + 1 < m
AltOk(l, V, m) ==
  /\ l \in Seq(Xt) /\ \A i \in 1 .. Len(l) : AltEntry(l[i], m)
  /\ \A i, j \in 1 .. Len(l) : i < j => Nested(l[i], l[j], m)
  /\ DOMAIN V \subseteq Nat
  /\ \A o \in Nat : IF o \in DOMAIN V THEN Shown(l, o, V[o]) ELSE Bare(l, o)

LEMMA AltRises ==
  ASSUME NEW l, NEW V, NEW m, AltOk(l, V, m)
  PROVE  l \in Seq(Xt) /\ Rising(l)
  BY DEF AltOk, Rising, Nested

LEMMA AltLater ==
  ASSUME NEW l, NEW V, NEW n \in Nat, NEW m \in Nat, AltOk(l, V, n), n <= m
  PROVE  AltOk(l, V, m)
  <1>1. l \in Seq(Xt)
    BY DEF AltOk
  <1>2. \A i \in 1 .. Len(l) : l[i] \in Xt /\ LastBlock(l[i]) \in Nat
    BY <1>1, SeqIs, LastIs
  <1>3. ASSUME NEW i \in 1 .. Len(l) PROVE AltEntry(l[i], m)
    <2>1. AltEntry(l[i], n)
      BY DEF AltOk
    <2>2. LastBlock(l[i]) \in Nat
      BY <1>2
    <2> QED
      BY <2>1, <2>2 DEF AltEntry
  <1>4. ASSUME NEW i \in 1 .. Len(l), NEW j \in 1 .. Len(l), i < j PROVE Nested(l[i], l[j], m)
    <2>1. Nested(l[i], l[j], n)
      BY <1>4 DEF AltOk
    <2>2. LastBlock(l[i]) \in Nat
      BY <1>2
    <2> QED
      BY <2>1, <2>2 DEF Nested
  <1> QED
    BY <1>3, <1>4 DEF AltOk

Until(V, p) == [o \in {q \in DOMAIN V : q < p} |-> V[o]]
LEMMA AltCut ==
  ASSUME NEW l, NEW V, NEW m \in Nat, AltOk(l, V, m), NEW p \in Nat
  PROVE  AltOk(CutList(l, p), Until(V, p), m)
  <1>1. l \in Seq(Xt) /\ Rising(l)
    BY AltRises
  <1>2. PICK b, n, U : b = CutList(l, p) /\ n = Starting(l, p) /\ U = Until(V, p)
    OBVIOUS
  <1>3. CutListOf(l, p, b)
    BY <1>1, <1>2, CutListIs
  <1>4. n \in 0 .. Len(l) /\ \A i \in 1 .. Len(l) : l[i].fileoffset < p <=> i <= n
    BY <1>1, <1>2, StartingIs
  <1>5. b \in Seq(Xt) /\ Len(b) = n /\ Len(l) \in Nat
    BY <1>1, <1>2, <1>3, SeqIs DEF CutListOf
  <1>6. ASSUME NEW i \in 1 .. n
        PROVE  /\ i \in 1 .. Len(l) /\ l[i] \in Xt /\ b[i] \in Xt
               /\ b[i].fileoffset = l[i].fileoffset /\ EndOf(b[i]) = Least(EndOf(l[i]), p)
               /\ l[i].fileoffset \in Nat /\ EndOf(l[i]) \in Nat
               /\ EndOf(b[i]) <= EndOf(l[i])
               /\ LastBlock(b[i]) \in Nat /\ LastBlock(l[i]) \in Nat /\ LastBlock(b[i]) <= LastBlock(l[i])
               /\ \A o : Address(b[i], o) = Address(l[i], o)
               /\ \A o \in Nat : In(b[i], o) <=> In(l[i], o) /\ o < p
    <2>1. i \in 1 .. Len(l)
      BY <1>4, <1>5
    <2>2. PartOf(l[i], p, b[i])
      BY <1>3, <1>5 DEF CutListOf
    <2>3. l[i] \in Xt /\ b[i] \in Xt
      BY <1>1, <1>5, <2>1, SeqIs
    <2>4. b[i].fileoffset = l[i].fileoffset /\ EndOf(b[i]) = Least(EndOf(l[i]), p) /\ \A o : Address(b[i], o) = Address(l[i], o)
      BY <2>2 DEF PartOf
    <2>5. l[i].fileoffset \in Nat /\ EndOf(l[i]) \in Nat
      BY <2>3, XtIs
    <2>6. EndOf(b[i]) <= EndOf(l[i]) /\ \A o \in Nat : In(b[i], o) <=> In(l[i], o) /\ o < p
      BY <2>4, <2>5 DEF Least, In
    <2>7. LastBlock(b[i]) <= LastBlock(l[i])
      BY <2>3, <2>4, <2>6, LastLess
    <2>8. LastBlock(b[i]) \in Nat /\ LastBlock(l[i]) \in Nat
      BY <2>3, LastIs
    <2> QED
      BY <2>1, <2>3, <2>4, <2>5, <2>6, <2>7, <2>8
  <1>7. ASSUME NEW i \in 1 .. n PROVE AltEntry(b[i], m)
    <2>1. EndOf(l[i]) <= FileMax /\ LastBlock(l[i]) < m
      BY <1>6 DEF AltOk, AltEntry
    <2>2. EndOf(b[i]) \in Nat /\ EndOf(l[i]) \in Nat /\ EndOf(b[i]) <= EndOf(l[i])
      BY <1>6, XtIs
    <2>3. LastBlock(b[i]) \in Nat /\ LastBlock(l[i]) \in Nat /\ LastBlock(b[i]) <= LastBlock(l[i])
      BY <1>6
    <2>4. EndOf(b[i]) <= FileMax /\ LastBlock(b[i]) < m
      BY <2>1, <2>2, <2>3, ListAssumption
    <2> QED
      BY <1>6, <2>4 DEF AltEntry
  <1>8. ASSUME NEW i \in 1 .. n, NEW j \in 1 .. n, i < j PROVE Nested(b[i], b[j], m)
    <2>1. Nested(l[i], l[j], m)
      BY <1>6, <1>8 DEF AltOk
    <2>2. /\ b[i].fileoffset = l[i].fileoffset /\ EndOf(b[i]) = Least(EndOf(l[i]), p) /\ EndOf(l[i]) \in Nat
          /\ LastBlock(b[i]) \in Nat /\ LastBlock(l[i]) \in Nat /\ LastBlock(b[i]) <= LastBlock(l[i])
      BY <1>6
    <2>3. b[j].fileoffset = l[j].fileoffset /\ EndOf(b[j]) = Least(EndOf(l[j]), p) /\ EndOf(l[j]) \in Nat /\ l[j].fileoffset \in Nat
      BY <1>6
    <2> QED
      BY <2>1, <2>2, <2>3 DEF Nested, Least
  <1>9. ASSUME NEW o \in Nat PROVE IF o \in DOMAIN U THEN Shown(b, o, U[o]) ELSE Bare(b, o)
    <2>1. IF o \in DOMAIN V THEN Shown(l, o, V[o]) ELSE Bare(l, o)
      BY DEF AltOk
    <2>2. o \in DOMAIN U <=> o \in DOMAIN V /\ o < p
      BY <1>2 DEF Until
    <2>3. CASE o \in DOMAIN U
      <3>1. U[o] = V[o]
        BY <1>2, <2>3 DEF Until
      <3>2. PICK i \in 1 .. Len(l) : In(l[i], o) /\ V[o] = Address(l[i], o) /\ \A k \in 1 .. Len(l) : In(l[k], o) => k <= i
        BY <2>1, <2>2, <2>3 DEF Shown
      <3>3. l[i].fileoffset < p
        <4>1. l[i].fileoffset \in Nat
          BY <1>1, SeqIs, XtIs
        <4> QED
          BY <2>2, <2>3, <3>2, <4>1 DEF In
      <3>4. i \in 1 .. n
        BY <1>4, <3>3
      <3>5. In(b[i], o) /\ V[o] = Address(b[i], o)
        BY <1>6, <2>2, <2>3, <3>2, <3>4
      <3>6. ASSUME NEW k \in 1 .. Len(b), In(b[k], o) PROVE k <= i
        BY <1>5, <1>6, <3>2, <3>6
      <3> QED
        BY <1>5, <2>3, <3>1, <3>4, <3>5, <3>6 DEF Shown
    <2>4. CASE o \notin DOMAIN U
      <3>1. ASSUME NEW i \in 1 .. Len(b) PROVE ~In(b[i], o)
        BY <1>5, <1>6, <2>1, <2>2, <2>4 DEF Bare
      <3> QED
        BY <2>4, <3>1 DEF Bare
    <2> QED
      BY <2>3, <2>4
  <1>10. DOMAIN U \subseteq Nat
    BY <1>2 DEF Until, AltOk
  <1> QED
    BY <1>2, <1>5, <1>7, <1>8, <1>9, <1>10 DEF AltOk

-----------------------------------------------------------------------------
(* Putting an extent into that list. Of the entries a of the list, each with *)
(* its bytes before block n, the first i have been looked at; those of out   *)
(* have theirs before m.                                                     *)

Fits(a, n, x, m) ==
  /\ a \in Seq(Xt) /\ (\A i \in 1 .. Len(a) : AltEntry(a[i], n))
  /\ \A i, j \in 1 .. Len(a) : i < j => Nested(a[i], a[j], n)
  /\ AltEntry(x, m) /\ x.block = n /\ n \in Nat /\ m \in Nat /\ n < m
\* An entry of the new list; nothing can be joined to it unless it ends where x does.
Put(y, x, m, used) == AltEntry(y, m) /\ (LastBlock(y) + 1 < m \/ (used /\ EndOf(y) = EndOf(x)))
\* Where later entries start.
Ahead(y, x, e) == y.fileoffset <= e.fileoffset \/ (y.fileoffset = EndOf(x) /\ x.fileoffset <= e.fileoffset)
\* The bytes outside x are told by out as by a, those of x by x.
Same(a, x, out, i) ==
  \A o \in Nat : ~In(x, o) =>
    /\ \A v : Shown(SubSeq(a, 1, i), o, v) => Shown(out, o, v)
    /\ Bare(SubSeq(a, 1, i), o) => Bare(out, o)
Mid(a, x, m, out, used, i) ==
  /\ out \in Seq(Xt) /\ (\A k \in 1 .. Len(out) : Put(out[k], x, m, used))
  /\ \A k, j \in 1 .. Len(out) : k < j => Nested(out[k], out[j], m)
  /\ \A k \in 1 .. Len(out) : \A j \in 1 .. Len(a) : i < j => Ahead(out[k], x, a[j])
  /\ ~used => \A k \in 1 .. Len(out) : out[k].fileoffset < x.fileoffset
  /\ used => \A j \in 1 .. Len(a) : i < j => x.fileoffset <= a[j].fileoffset \/ EndOf(a[j]) <= x.fileoffset
  /\ Same(a, x, out, i)
  /\ used => \A o \in Nat : In(x, o) => Shown(out, o, Address(x, o))

LEMMA FitsIs ==
  ASSUME NEW a, NEW n, NEW x, NEW m, Fits(a, n, x, m), NEW i \in 1 .. Len(a)
  PROVE  /\ Len(a) \in Nat /\ a[i] \in Xt
         /\ a[i].fileoffset \in Nat /\ EndOf(a[i]) \in Nat /\ a[i].fileoffset < EndOf(a[i]) /\ EndOf(a[i]) <= FileMax
         /\ LastBlock(a[i]) \in Nat /\ LastBlock(a[i]) + 1 < m /\ LastBlock(a[i]) + 1 <= n
         /\ \A j \in 1 .. Len(a) : i < j => a[i].fileoffset <= a[j].fileoffset
  <1>1. a[i] \in Xt /\ Len(a) \in Nat
    BY SeqIs DEF Fits
  <1>2. LastBlock(a[i]) \in Nat
    BY <1>1, LastIs
  <1>3. EndOf(a[i]) <= FileMax /\ LastBlock(a[i]) < n /\ n < m /\ n \in Nat /\ m \in Nat
    BY DEF Fits, AltEntry
  <1>4. LastBlock(a[i]) + 1 < m /\ LastBlock(a[i]) + 1 <= n
    BY <1>2, <1>3
  <1>5. \A j \in 1 .. Len(a) : i < j => a[i].fileoffset <= a[j].fileoffset
    BY DEF Fits, Nested
  <1> QED
    BY <1>1, <1>2, <1>3, <1>4, <1>5, XtIs

\* Two entries of out with one more behind them.
LEMMA AppendPairs ==
  ASSUME NEW out \in Seq(Xt), NEW y \in Xt, NEW m,
         \A k, j \in 1 .. Len(out) : k < j => Nested(out[k], out[j], m),
         \A k \in 1 .. Len(out) : Nested(out[k], y, m)
  PROVE  \A k, j \in 1 .. Len(Append(out, y)) : k < j => Nested(Append(out, y)[k], Append(out, y)[j], m)
  <1>1. PICK z, n : z = Append(out, y) /\ n = Len(out)
    OBVIOUS
  <1>2. n \in Nat
    BY <1>1, SeqIs
  <1>3. Len(z) = n + 1 /\ z[n + 1] = y /\ \A i \in 1 .. n : z[i] = out[i]
    BY <1>1, AppendProperties
  <1>4. ASSUME NEW k \in 1 .. Len(z), NEW j \in 1 .. Len(z), k < j PROVE Nested(z[k], z[j], m)
    <2>1. k \in 1 .. n /\ z[k] = out[k] /\ (j \in 1 .. n \/ j = n + 1)
      BY <1>2, <1>3, <1>4
    <2>2. CASE j \in 1 .. n
      BY <1>1, <1>3, <1>4, <2>1, <2>2
    <2>3. CASE j = n + 1
      BY <1>1, <1>3, <2>1, <2>3
    <2> QED
      BY <2>1, <2>2, <2>3
  <1> QED
    BY <1>1, <1>4

LEMMA AppendIs ==
  ASSUME NEW out \in Seq(Xt), NEW y \in Xt
  PROVE  /\ Append(out, y) \in Seq(Xt)
         /\ \A k \in 1 .. Len(Append(out, y)) : (k \in 1 .. Len(out) /\ Append(out, y)[k] = out[k]) \/ Append(out, y)[k] = y
  <1>1. PICK z, n : z = Append(out, y) /\ n = Len(out)
    OBVIOUS
  <1>2. n \in Nat
    BY <1>1, SeqIs
  <1>3. z \in Seq(Xt) /\ Len(z) = n + 1 /\ z[n + 1] = y /\ \A i \in 1 .. n : z[i] = out[i]
    BY <1>1, AppendProperties
  <1>4. \A k \in 1 .. Len(z) : k \in 1 .. n \/ k = n + 1
    BY <1>2, <1>3
  <1> QED
    BY <1>1, <1>3, <1>4

\* x comes before an entry that starts at it or behind it.
LEMMA PutX ==
  ASSUME NEW a, NEW n, NEW x, NEW m, Fits(a, n, x, m), NEW out, NEW i \in 0 .. Len(a),
         Mid(a, x, m, out, FALSE, i), \A j \in 1 .. Len(a) : i < j => x.fileoffset <= a[j].fileoffset
  PROVE  Mid(a, x, m, Append(out, x), TRUE, i)
  <1>1. x \in Xt /\ AltEntry(x, m) /\ m \in Nat
    BY DEF Fits, AltEntry
  <1>2. /\ out \in Seq(Xt) /\ (\A k \in 1 .. Len(out) : Put(out[k], x, m, FALSE))
        /\ \A k, j \in 1 .. Len(out) : k < j => Nested(out[k], out[j], m)
        /\ \A k \in 1 .. Len(out) : \A j \in 1 .. Len(a) : i < j => Ahead(out[k], x, a[j])
        /\ \A k \in 1 .. Len(out) : out[k].fileoffset < x.fileoffset
        /\ Same(a, x, out, i)
    BY DEF Mid
  <1>3. PICK z : z = Append(out, x)
    OBVIOUS
  <1>4. z \in Seq(Xt) /\ \A k \in 1 .. Len(z) : (k \in 1 .. Len(out) /\ z[k] = out[k]) \/ z[k] = x
    BY <1>1, <1>2, <1>3, AppendIs
  <1>5. x.fileoffset \in Nat /\ \A k \in 1 .. Len(out) : out[k].fileoffset \in Nat
    BY <1>1, <1>2, SeqIs, XtIs
  <1>6. \A k \in 1 .. Len(z) : Put(z[k], x, m, TRUE)
    BY <1>1, <1>2, <1>4 DEF Put
  <1>7. \A k, j \in 1 .. Len(z) : k < j => Nested(z[k], z[j], m)
    <2>1. ASSUME NEW k \in 1 .. Len(out) PROVE Nested(out[k], x, m)
      <3>1. out[k].fileoffset <= x.fileoffset
        BY <1>2, <1>5
      <3>2. LastBlock(out[k]) + 1 < m
        BY <1>2 DEF Put
      <3> QED
        BY <3>1, <3>2 DEF Nested
    <2> QED
      BY <1>1, <1>2, <1>3, <2>1, AppendPairs
  <1>8. \A k \in 1 .. Len(z) : \A j \in 1 .. Len(a) : i < j => Ahead(z[k], x, a[j])
    BY <1>2, <1>4 DEF Ahead
  <1>9. Same(a, x, z, i)
    BY <1>1, <1>2, <1>3, ShownMore DEF Same
  <1>10. \A o \in Nat : In(x, o) => Shown(z, o, Address(x, o))
    BY <1>1, <1>2, <1>3, ShownMore
  <1> QED
    BY <1>3, <1>4, <1>6, <1>7, <1>8, <1>9, <1>10 DEF Mid

\* y takes the place of e.
Takes(a, x, m, used, i, e, y, u) ==
  /\ Put(y, x, m, u)
  /\ y.fileoffset = e.fileoffset \/ (y.fileoffset = EndOf(x) /\ x.fileoffset <= e.fileoffset)
  /\ e.fileoffset <= y.fileoffset
  /\ x.fileoffset <= e.fileoffset => EndOf(x) <= y.fileoffset
  /\ (used => u) /\ (~u => y.fileoffset < x.fileoffset)
  /\ used => EndOf(x) <= y.fileoffset \/ EndOf(y) <= EndOf(x)
  /\ u => \A j \in 1 .. Len(a) : i < j => x.fileoffset <= a[j].fileoffset \/ EndOf(a[j]) <= x.fileoffset
  /\ \A o \in Nat : ~In(x, o) => (In(y, o) <=> In(e, o)) /\ (In(y, o) => Address(y, o) = Address(e, o))
  /\ u => \A o \in Nat : In(x, o) => (In(y, o) => Address(y, o) = Address(x, o)) /\ (In(y, o) \/ used)
LEMMA PutE ==
  ASSUME NEW a, NEW n, NEW x, NEW m, Fits(a, n, x, m), NEW out, NEW used, NEW u, NEW i \in 1 .. Len(a), NEW y,
         Mid(a, x, m, out, used, i - 1), Takes(a, x, m, used, i, a[i], y, u)
  PROVE  Mid(a, x, m, Append(out, y), u, i)
  <1>1. x \in Xt /\ AltEntry(x, m) /\ m \in Nat /\ a \in Seq(Xt)
    BY DEF Fits, AltEntry
  <1>2. PICK e : e = a[i]
    OBVIOUS
  <1>3. Len(a) \in Nat /\ e \in Xt /\ e.fileoffset \in Nat /\ \A j \in 1 .. Len(a) : i < j => e.fileoffset <= a[j].fileoffset
    BY <1>2, FitsIs
  <1>4. /\ out \in Seq(Xt) /\ (\A k \in 1 .. Len(out) : Put(out[k], x, m, used))
        /\ \A k, j \in 1 .. Len(out) : k < j => Nested(out[k], out[j], m)
        /\ \A k \in 1 .. Len(out) : \A j \in 1 .. Len(a) : i - 1 < j => Ahead(out[k], x, a[j])
        /\ Same(a, x, out, i - 1)
    BY DEF Mid
  <1>5. ~used => \A k \in 1 .. Len(out) : out[k].fileoffset < x.fileoffset
    BY DEF Mid
  <1>6. used => \A o \in Nat : In(x, o) => Shown(out, o, Address(x, o))
    BY DEF Mid
  <1>7. /\ Put(y, x, m, u)
        /\ y.fileoffset = e.fileoffset \/ (y.fileoffset = EndOf(x) /\ x.fileoffset <= e.fileoffset)
        /\ e.fileoffset <= y.fileoffset
        /\ x.fileoffset <= e.fileoffset => EndOf(x) <= y.fileoffset
    BY <1>2 DEF Takes
  <1>8. /\ (used => u) /\ (~u => y.fileoffset < x.fileoffset)
        /\ used => EndOf(x) <= y.fileoffset \/ EndOf(y) <= EndOf(x)
    BY DEF Takes
  <1>9. u => \A j \in 1 .. Len(a) : i < j => x.fileoffset <= a[j].fileoffset \/ EndOf(a[j]) <= x.fileoffset
    BY DEF Takes
  <1>10. \A o \in Nat : ~In(x, o) => (In(y, o) <=> In(e, o)) /\ (In(y, o) => Address(y, o) = Address(e, o))
    BY <1>2 DEF Takes
  <1>11. u => \A o \in Nat : In(x, o) => (In(y, o) => Address(y, o) = Address(x, o)) /\ (In(y, o) \/ used)
    BY DEF Takes
  <1>12. y \in Xt
    BY <1>7 DEF Put, AltEntry
  <1>13. PICK z : z = Append(out, y)
    OBVIOUS
  <1>14. z \in Seq(Xt) /\ \A k \in 1 .. Len(z) : (k \in 1 .. Len(out) /\ z[k] = out[k]) \/ z[k] = y
    BY <1>4, <1>12, <1>13, AppendIs
  <1>15. /\ x.fileoffset \in Nat /\ EndOf(x) \in Nat /\ y.fileoffset \in Nat
         /\ \A k \in 1 .. Len(out) : out[k].fileoffset \in Nat
         /\ \A j \in 1 .. Len(a) : a[j].fileoffset \in Nat
    BY <1>1, <1>4, <1>12, SeqIs, XtIs
  <1>16. \A k \in 1 .. Len(z) : Put(z[k], x, m, u)
    BY <1>4, <1>7, <1>8, <1>14 DEF Put
  <1>17. \A k, j \in 1 .. Len(z) : k < j => Nested(z[k], z[j], m)
    <2>1. ASSUME NEW k \in 1 .. Len(out) PROVE Nested(out[k], y, m)
      <3>1. i - 1 < i
        OBVIOUS
      <3>2. Ahead(out[k], x, e)
        BY <1>2, <1>4, <3>1
      <3>3. out[k].fileoffset <= y.fileoffset
        BY <1>3, <1>7, <1>15, <3>2 DEF Ahead
      <3>4. LastBlock(out[k]) + 1 < m \/ (used /\ EndOf(out[k]) = EndOf(x))
        BY <1>4 DEF Put
      <3> QED
        BY <1>8, <3>3, <3>4 DEF Nested
    <2> QED
      BY <1>4, <1>12, <1>13, <2>1, AppendPairs
  <1>18. ASSUME NEW k \in 1 .. Len(z), NEW j \in 1 .. Len(a), i < j PROVE Ahead(z[k], x, a[j])
    <2>1. CASE k \in 1 .. Len(out) /\ z[k] = out[k]
      <3>1. i - 1 < j
        BY <1>3, <1>18
      <3> QED
        BY <1>4, <2>1, <3>1
    <2>2. CASE z[k] = y
      <3>1. e.fileoffset <= a[j].fileoffset /\ a[j].fileoffset \in Nat
        BY <1>3, <1>15, <1>18
      <3> QED
        BY <1>3, <1>7, <1>15, <2>2, <3>1 DEF Ahead
    <2> QED
      BY <1>14, <2>1, <2>2
  <1>19. ~u => \A k \in 1 .. Len(z) : z[k].fileoffset < x.fileoffset
    BY <1>5, <1>8, <1>14
  <1>20. Same(a, x, z, i)
    <2> SUFFICES ASSUME NEW o \in Nat, ~In(x, o)
                 PROVE  /\ \A v : Shown(SubSeq(a, 1, i), o, v) => Shown(z, o, v)
                        /\ Bare(SubSeq(a, 1, i), o) => Bare(z, o)
      BY DEF Same
    <2>1. PICK s, t : s = SubSeq(a, 1, i - 1) /\ t = SubSeq(a, 1, i)
      OBVIOUS
    <2>2. s \in Seq(Xt) /\ t = Append(s, e)
      <3>1. i - 1 \in 0 .. Len(a)
        BY <1>3
      <3>2. s \in Seq(Xt)
        BY <1>1, <2>1, <3>1, FirstsIs
      <3>3. t = s \o <<e>>
        BY <1>1, <1>2, <2>1, FirstsMore
      <3> QED
        BY <1>3, <3>2, <3>3, AppendIsConcat
    <2>3. (\A v : Shown(s, o, v) => Shown(out, o, v)) /\ (Bare(s, o) => Bare(out, o))
      BY <1>4, <2>1 DEF Same
    <2>4. (In(y, o) <=> In(e, o)) /\ (In(y, o) => Address(y, o) = Address(e, o))
      BY <1>10
    <2>5. ASSUME NEW v, Shown(t, o, v) PROVE Shown(z, o, v)
      <3>1. CASE In(e, o)
        <4>1. v = Address(e, o)
          BY <1>3, <2>2, <2>5, <3>1, ShownMore
        <4> QED
          BY <1>4, <1>12, <1>13, <2>4, <3>1, <4>1, ShownMore
      <3>2. CASE ~In(e, o)
        <4>1. Shown(s, o, v)
          BY <1>3, <2>2, <2>5, <3>2, ShownMore
        <4>2. Shown(out, o, v)
          BY <2>3, <4>1
        <4> QED
          BY <1>4, <1>12, <1>13, <2>4, <3>2, <4>2, ShownMore
      <3> QED
        BY <3>1, <3>2
    <2>6. ASSUME Bare(t, o) PROVE Bare(z, o)
      <3>1. ~In(e, o) /\ Bare(s, o)
        BY <1>3, <2>2, <2>6, ShownMore
      <3>2. Bare(out, o)
        BY <2>3, <3>1
      <3> QED
        BY <1>4, <1>12, <1>13, <2>4, <3>1, <3>2, ShownMore
    <2> QED
      BY <2>1, <2>5, <2>6
  <1>21. ASSUME u, NEW o \in Nat, In(x, o) PROVE Shown(z, o, Address(x, o))
    <2>1. CASE In(y, o)
      <3>1. Address(x, o) = Address(y, o)
        BY <1>11, <1>21, <2>1
      <3> QED
        BY <1>4, <1>12, <1>13, <2>1, <3>1, ShownMore
    <2>2. CASE ~In(y, o)
      <3>1. used
        BY <1>11, <1>21, <2>2
      <3>2. Shown(out, o, Address(x, o))
        BY <1>6, <1>21, <3>1
      <3> QED
        BY <1>4, <1>12, <1>13, <2>2, <3>2, ShownMore
    <2> QED
      BY <2>1, <2>2
  <1> QED
    BY <1>9, <1>13, <1>14, <1>16, <1>17, <1>18, <1>19, <1>20, <1>21 DEF Mid

\* e has no byte outside x.
LEMMA Drop ==
  ASSUME NEW a, NEW n, NEW x, NEW m, Fits(a, n, x, m), NEW out, NEW i \in 1 .. Len(a),
         Mid(a, x, m, out, TRUE, i - 1), \A o \in Nat : In(a[i], o) => In(x, o)
  PROVE  Mid(a, x, m, out, TRUE, i)
  <1>1. Len(a) \in Nat /\ a \in Seq(Xt) /\ a[i] \in Xt
    BY SeqIs DEF Fits
  <1>2. /\ out \in Seq(Xt) /\ (\A k \in 1 .. Len(out) : Put(out[k], x, m, TRUE))
        /\ \A k, j \in 1 .. Len(out) : k < j => Nested(out[k], out[j], m)
        /\ \A k \in 1 .. Len(out) : \A j \in 1 .. Len(a) : i - 1 < j => Ahead(out[k], x, a[j])
        /\ \A j \in 1 .. Len(a) : i - 1 < j => x.fileoffset <= a[j].fileoffset \/ EndOf(a[j]) <= x.fileoffset
        /\ Same(a, x, out, i - 1)
        /\ \A o \in Nat : In(x, o) => Shown(out, o, Address(x, o))
    BY DEF Mid
  <1>3. \A j \in 1 .. Len(a) : i < j => i - 1 < j
    BY <1>1
  <1>4. Same(a, x, out, i)
    <2> SUFFICES ASSUME NEW o \in Nat, ~In(x, o)
                 PROVE  /\ \A v : Shown(SubSeq(a, 1, i), o, v) => Shown(out, o, v)
                        /\ Bare(SubSeq(a, 1, i), o) => Bare(out, o)
      BY DEF Same
    <2>1. PICK s, t, e : s = SubSeq(a, 1, i - 1) /\ t = SubSeq(a, 1, i) /\ e = a[i]
      OBVIOUS
    <2>2. s \in Seq(Xt) /\ t = Append(s, e)
      <3>1. i - 1 \in 0 .. Len(a)
        BY <1>1
      <3>2. s \in Seq(Xt)
        BY <1>1, <2>1, <3>1, FirstsIs
      <3>3. t = s \o <<e>>
        BY <1>1, <2>1, FirstsMore
      <3> QED
        BY <1>1, <2>1, <3>2, <3>3, AppendIsConcat
    <2>3. (\A v : Shown(s, o, v) => Shown(out, o, v)) /\ (Bare(s, o) => Bare(out, o))
      BY <1>2, <2>1 DEF Same
    <2>4. ~In(e, o)
      BY <2>1
    <2>5. (\A v : Shown(t, o, v) => Shown(s, o, v)) /\ (Bare(t, o) => Bare(s, o))
      BY <1>1, <2>1, <2>2, <2>4, ShownMore
    <2> QED
      BY <2>1, <2>3, <2>5
  <1> QED
    BY <1>2, <1>3, <1>4 DEF Mid

AltSt(out, used) == [out |-> out, used |-> used]
First(acc, e, x) ==
  IF ~acc.used /\ x.fileoffset <= e.fileoffset THEN [out |-> Append(acc.out, x), used |-> TRUE] ELSE acc
\* What becomes of e.
StepCases(acc, e, x, out, used) ==
  /\ EndOf(e) <= x.fileoffset =>
       AltStep(acc, e, x) = IF EndOf(e) = x.fileoffset /\ Follows(e, x) THEN AltSt(Append(out, Joined(e, x)), TRUE)
                            ELSE AltSt(Append(out, e), used)
  /\ EndOf(e) > x.fileoffset /\ e.fileoffset < x.fileoffset =>
       AltStep(acc, e, x) = AltSt(Append(out, IF EndOf(e) <= EndOf(x) THEN CutEnd(e, x.fileoffset) ELSE e), used)
  /\ e.fileoffset >= x.fileoffset /\ EndOf(e) <= EndOf(x) => AltStep(acc, e, x) = AltSt(out, used)
  /\ e.fileoffset >= x.fileoffset /\ EndOf(e) > EndOf(x) =>
       AltStep(acc, e, x) = AltSt(Append(out, IF e.fileoffset < EndOf(x) THEN CutFront(e, EndOf(x)) ELSE e), used)
LEMMA AltStepCases ==
  ASSUME NEW e \in Xt, NEW x \in Xt, NEW acc, NEW out, NEW used, First(acc, e, x) = AltSt(out, used)
  PROVE  StepCases(acc, e, x, out, used)
  <1>1. /\ e.fileoffset \in Nat /\ EndOf(e) \in Nat /\ e.fileoffset < EndOf(e)
        /\ x.fileoffset \in Nat /\ EndOf(x) \in Nat /\ x.fileoffset < EndOf(x)
    BY XtIs
  <1>2. PICK f, stay, join, cut, rest :
          /\ f = First(acc, e, x) /\ stay = AltSt(Append(out, e), used) /\ join = AltSt(Append(out, Joined(e, x)), TRUE)
          /\ cut = AltSt(Append(out, IF EndOf(e) <= EndOf(x) THEN CutEnd(e, x.fileoffset) ELSE e), used)
          /\ rest = AltSt(Append(out, IF e.fileoffset < EndOf(x) THEN CutFront(e, EndOf(x)) ELSE e), used)
    OBVIOUS
  <1>3. f.out = out /\ f.used = used /\ f = AltSt(out, used)
    BY <1>2 DEF AltSt
  <1>4. AltStep(acc, e, x) =
          CASE EndOf(e) < x.fileoffset -> stay
            [] EndOf(e) = x.fileoffset -> IF Follows(e, x) THEN join ELSE stay
            [] EndOf(e) > x.fileoffset /\ e.fileoffset < x.fileoffset -> cut
            [] e.fileoffset >= x.fileoffset /\ EndOf(e) <= EndOf(x) -> f
            [] e.fileoffset >= x.fileoffset /\ EndOf(e) > EndOf(x) -> rest
    <2>1. AltStep(acc, e, x) =
            CASE EndOf(e) < x.fileoffset -> [out |-> Append(f.out, e), used |-> f.used]
              [] EndOf(e) = x.fileoffset ->
                   IF Follows(e, x) THEN [out |-> Append(f.out, Joined(e, x)), used |-> TRUE] ELSE [out |-> Append(f.out, e), used |-> f.used]
              [] EndOf(e) > x.fileoffset /\ e.fileoffset < x.fileoffset ->
                   [out |-> Append(f.out, IF EndOf(e) <= EndOf(x) THEN CutEnd(e, x.fileoffset) ELSE e), used |-> f.used]
              [] e.fileoffset >= x.fileoffset /\ EndOf(e) <= EndOf(x) -> f
              [] e.fileoffset >= x.fileoffset /\ EndOf(e) > EndOf(x) ->
                   [out |-> Append(f.out, IF e.fileoffset < EndOf(x) THEN CutFront(e, EndOf(x)) ELSE e), used |-> f.used]
      BY <1>2, Zenon DEF AltStep, First
    <2>2. /\ stay = [out |-> Append(f.out, e), used |-> f.used]
          /\ join = [out |-> Append(f.out, Joined(e, x)), used |-> TRUE]
          /\ cut = [out |-> Append(f.out, IF EndOf(e) <= EndOf(x) THEN CutEnd(e, x.fileoffset) ELSE e), used |-> f.used]
          /\ rest = [out |-> Append(f.out, IF e.fileoffset < EndOf(x) THEN CutFront(e, EndOf(x)) ELSE e), used |-> f.used]
      BY <1>2, <1>3, Zenon DEF AltSt
    <2> QED
      BY <2>1, <2>2, Zenon
  <1>5. EndOf(e) <= x.fileoffset => AltStep(acc, e, x) = IF EndOf(e) = x.fileoffset /\ Follows(e, x) THEN join ELSE stay
    BY <1>1, <1>4
  <1>6. EndOf(e) > x.fileoffset /\ e.fileoffset < x.fileoffset => AltStep(acc, e, x) = cut
    BY <1>1, <1>4
  <1>7. e.fileoffset >= x.fileoffset /\ EndOf(e) <= EndOf(x) => AltStep(acc, e, x) = f
    BY <1>1, <1>4
  <1>8. e.fileoffset >= x.fileoffset /\ EndOf(e) > EndOf(x) => AltStep(acc, e, x) = rest
    BY <1>1, <1>4
  <1> QED
    BY <1>2, <1>3, <1>5, <1>6, <1>7, <1>8, Zenon DEF StepCases

\* The last block of an extent that ends where x does, under the same address.
LEMMA SameLast ==
  ASSUME NEW x, NEW y, EndOf(y) = EndOf(x), Address(y, EndOf(x) - 1) = Address(x, EndOf(x) - 1)
  PROVE  LastBlock(y) = LastBlock(x)
  BY DEF LastBlock

LEMMA StepIs ==
  ASSUME NEW a, NEW n, NEW x, NEW m, Fits(a, n, x, m), NEW out, NEW used \in BOOLEAN, NEW i \in 1 .. Len(a),
         Mid(a, x, m, out, used, i - 1)
  PROVE  \E o, u : u \in BOOLEAN /\ AltStep(AltSt(out, used), a[i], x) = AltSt(o, u) /\ Mid(a, x, m, o, u, i)
  <1>1. PICK e : e = a[i]
    OBVIOUS
  <1>2. /\ Len(a) \in Nat /\ e \in Xt /\ e.fileoffset \in Nat /\ EndOf(e) \in Nat /\ e.fileoffset < EndOf(e) /\ EndOf(e) <= FileMax
        /\ LastBlock(e) \in Nat /\ LastBlock(e) + 1 < m /\ LastBlock(e) + 1 <= n
        /\ \A j \in 1 .. Len(a) : i < j => e.fileoffset <= a[j].fileoffset
    BY <1>1, FitsIs
  <1>3. \A j \in 1 .. Len(a) : a[j].fileoffset \in Nat /\ EndOf(a[j]) \in Nat
    BY FitsIs
  <1>4. /\ x \in Xt /\ x.fileoffset \in Nat /\ EndOf(x) \in Nat /\ x.fileoffset < EndOf(x) /\ EndOf(x) <= FileMax
        /\ LastBlock(x) \in Nat /\ LastBlock(x) < m /\ m \in Nat /\ n \in Nat /\ n < m /\ x.block = n
    BY XtIs, LastIs DEF Fits, AltEntry
  <1>5. PICK acc : acc = AltSt(out, used)
    OBVIOUS
  <1>6. \E o, u : /\ u \in BOOLEAN /\ First(acc, e, x) = AltSt(o, u) /\ Mid(a, x, m, o, u, i - 1)
                  /\ (x.fileoffset <= e.fileoffset => u) /\ (~(x.fileoffset <= e.fileoffset) => u = used)
    <2>1. acc.used = used /\ acc.out = out
      BY <1>5 DEF AltSt
    <2>2. CASE ~used /\ x.fileoffset <= e.fileoffset
      <3>1. First(acc, e, x) = AltSt(Append(out, x), TRUE)
        BY <2>1, <2>2 DEF First, AltSt
      <3>2. i - 1 \in 0 .. Len(a)
        BY <1>2
      <3>3. ASSUME NEW j \in 1 .. Len(a), i - 1 < j PROVE x.fileoffset <= a[j].fileoffset
        <4>1. j = i \/ i < j
          BY <1>2, <3>3
        <4>2. e.fileoffset <= a[j].fileoffset /\ a[j].fileoffset \in Nat
          BY <1>1, <1>2, <1>3, <4>1
        <4> QED
          BY <1>2, <1>4, <2>2, <4>2
      <3>4. used = FALSE
        BY <2>2
      <3>5. Mid(a, x, m, Append(out, x), TRUE, i - 1)
        BY <3>2, <3>3, <3>4, PutX
      <3> QED
        BY <2>2, <3>1, <3>5
    <2>3. CASE ~(~used /\ x.fileoffset <= e.fileoffset)
      <3>1. First(acc, e, x) = AltSt(out, used)
        BY <1>5, <2>1, <2>3 DEF First
      <3> QED
        BY <2>3, <3>1
    <2> QED
      BY <2>2, <2>3
  <1>7. PICK o1, u1 : /\ u1 \in BOOLEAN /\ First(acc, e, x) = AltSt(o1, u1) /\ Mid(a, x, m, o1, u1, i - 1)
                      /\ (x.fileoffset <= e.fileoffset => u1) /\ (~(x.fileoffset <= e.fileoffset) => u1 = used)
    BY <1>6
  <1>s. StepCases(acc, e, x, o1, u1)
    BY <1>2, <1>4, <1>7, AltStepCases, Zenon
  <1>8. u1 => \A j \in 1 .. Len(a) : i - 1 < j => x.fileoffset <= a[j].fileoffset \/ EndOf(a[j]) <= x.fileoffset
    BY <1>7 DEF Mid
  <1>9. u1 => \A j \in 1 .. Len(a) : i < j => x.fileoffset <= a[j].fileoffset \/ EndOf(a[j]) <= x.fileoffset
    <2>1. \A j \in 1 .. Len(a) : i < j => i - 1 < j
      BY <1>2
    <2> QED
      BY <1>8, <2>1
  <1>10. AltEntry(e, m) /\ \A u : Put(e, x, m, u)
    BY <1>2, <1>4 DEF AltEntry, Put
  <1>11. CASE EndOf(e) <= x.fileoffset /\ ~(EndOf(e) = x.fileoffset /\ Follows(e, x))
    <2>1. AltStep(acc, e, x) = AltSt(Append(o1, e), u1)
      BY <1>s, <1>11 DEF StepCases
    <2>2. e.fileoffset < x.fileoffset /\ EndOf(e) <= EndOf(x) /\ \A o \in Nat : ~(In(x, o) /\ In(e, o))
      BY <1>2, <1>4, <1>11 DEF In
    <2>3. ~(x.fileoffset <= e.fileoffset)
      BY <1>2, <1>4, <2>2
    <2>4. \A o \in Nat : In(x, o) => (In(e, o) => Address(e, o) = Address(x, o)) /\ (u1 => In(e, o) \/ u1)
      BY <2>2
    <2>5. Takes(a, x, m, u1, i, e, e, u1)
      BY <1>2, <1>9, <1>10, <2>2, <2>3, <2>4 DEF Takes
    <2>6. Mid(a, x, m, Append(o1, e), u1, i)
      BY <1>1, <1>7, <2>5, PutE
    <2> QED
      BY <1>1, <1>5, <1>7, <2>1, <2>6
  <1>12. CASE EndOf(e) = x.fileoffset /\ Follows(e, x)
    <2>1. PICK z : z = Joined(e, x)
      OBVIOUS
    <2>2. EndOf(e) <= x.fileoffset
      BY <1>4, <1>12
    <2>3. AltStep(acc, e, x) = AltSt(Append(o1, z), TRUE)
      BY <1>s, <1>12, <2>1, <2>2 DEF StepCases
    <2>4. JoinedOf(e, x, z) /\ x.block = LastBlock(e) + 1
      BY <1>2, <1>4, <1>12, <2>1, JoinedIs
    <2>5. z \in Xt /\ z.fileoffset = e.fileoffset /\ EndOf(z) = EndOf(x) /\ \A p : Address(z, p) = Address(e, p)
      BY <2>4 DEF JoinedOf
    <2>6. \A p \in Nat : p >= x.fileoffset => Address(z, p) = Address(x, p)
      BY <2>4 DEF JoinedOf
    <2>7. LastBlock(z) = LastBlock(x)
      <3>1. EndOf(x) - 1 \in Nat /\ EndOf(x) - 1 >= x.fileoffset
        BY <1>4
      <3> QED
        BY <2>5, <2>6, <3>1, SameLast
    <2>8. Put(z, x, m, TRUE)
      BY <1>4, <2>5, <2>7 DEF Put, AltEntry
    <2>9. e.fileoffset < x.fileoffset /\ ~(x.fileoffset <= e.fileoffset) /\ EndOf(z) <= EndOf(x) /\ e.fileoffset <= z.fileoffset
      BY <1>2, <1>4, <1>12, <2>5
    <2>10. ASSUME NEW j \in 1 .. Len(a), i < j PROVE x.fileoffset <= a[j].fileoffset \/ EndOf(a[j]) <= x.fileoffset
      <3>1. Nested(e, a[j], n)
        BY <1>1, <2>10 DEF Fits
      <3>2. ~(LastBlock(e) + 1 < n)
        BY <1>2, <1>4, <2>4
      <3> QED
        BY <1>12, <3>1, <3>2 DEF Nested
    <2>11. ASSUME NEW o \in Nat, ~In(x, o) PROVE In(z, o) <=> In(e, o)
      BY <1>2, <1>4, <1>12, <2>5, <2>11 DEF In
    <2>12. ASSUME NEW o \in Nat, In(x, o) PROVE In(z, o) /\ Address(z, o) = Address(x, o)
      <3>1. o >= x.fileoffset /\ In(z, o)
        BY <1>2, <1>4, <2>5, <2>9, <2>12 DEF In
      <3> QED
        BY <2>6, <3>1
    <2>13. Takes(a, x, m, u1, i, e, z, TRUE)
      BY <1>7, <2>5, <2>8, <2>9, <2>10, <2>11, <2>12 DEF Takes
    <2>14. Mid(a, x, m, Append(o1, z), TRUE, i)
      BY <1>1, <1>7, <2>13, PutE
    <2> QED
      BY <1>1, <1>5, <2>3, <2>14
  <1>13. CASE EndOf(e) > x.fileoffset /\ e.fileoffset < x.fileoffset
    <2>1. ~(x.fileoffset <= e.fileoffset) /\ ~(EndOf(e) <= x.fileoffset)
      BY <1>2, <1>4, <1>13
    <2>2. u1 = FALSE
      <3>1. i - 1 < i
        OBVIOUS
      <3> QED
        BY <1>1, <1>7, <1>8, <2>1, <3>1
    <2>3. PICK y : y = IF EndOf(e) <= EndOf(x) THEN CutEnd(e, x.fileoffset) ELSE e
      OBVIOUS
    <2>4. AltStep(acc, e, x) = AltSt(Append(o1, y), FALSE)
      BY <1>s, <1>13, <2>2, <2>3 DEF StepCases
    <2>5. /\ y \in Xt /\ y.fileoffset = e.fileoffset /\ (\A p : Address(y, p) = Address(e, p)) /\ EndOf(y) <= EndOf(e)
          /\ EndOf(y) = EndOf(e) \/ (EndOf(y) = x.fileoffset /\ EndOf(e) <= EndOf(x))
      <3>1. CASE EndOf(e) <= EndOf(x)
        <4>1. CutEndOf(e, x.fileoffset, y)
          BY <1>2, <1>4, <1>13, <2>3, <3>1, CutEndIs
        <4> QED
          BY <1>2, <1>4, <1>13, <3>1, <4>1 DEF CutEndOf
      <3>2. CASE ~(EndOf(e) <= EndOf(x))
        BY <1>2, <2>3, <3>2
      <3> QED
        BY <3>1, <3>2
    <2>6. LastBlock(y) \in Nat /\ LastBlock(y) <= LastBlock(e) /\ EndOf(y) \in Nat
      BY <1>2, <2>5, LastIs, LastLess, XtIs
    <2>7. Put(y, x, m, FALSE)
      <3>1. EndOf(y) <= FileMax /\ LastBlock(y) + 1 < m /\ LastBlock(y) < m
        BY <1>2, <1>4, <2>5, <2>6, ListAssumption
      <3> QED
        BY <2>5, <3>1 DEF Put, AltEntry
    <2>8. ASSUME NEW o \in Nat, ~In(x, o) PROVE In(y, o) <=> In(e, o)
      BY <1>2, <1>4, <1>13, <2>5, <2>8 DEF In
    <2>9. e.fileoffset <= y.fileoffset /\ y.fileoffset < x.fileoffset
      BY <1>2, <1>13, <2>5
    <2>10. Takes(a, x, m, FALSE, i, e, y, FALSE)
      BY <2>1, <2>5, <2>7, <2>8, <2>9 DEF Takes
    <2>11. Mid(a, x, m, Append(o1, y), FALSE, i)
      BY <1>1, <1>7, <2>2, <2>10, PutE
    <2> QED
      BY <1>1, <1>5, <2>4, <2>11
  <1>14. CASE e.fileoffset >= x.fileoffset /\ EndOf(e) <= EndOf(x)
    <2>1. u1 = TRUE
      BY <1>2, <1>4, <1>7, <1>14
    <2>2. AltStep(acc, e, x) = AltSt(o1, TRUE)
      BY <1>s, <1>14, <2>1 DEF StepCases
    <2>3. \A o \in Nat : In(a[i], o) => In(x, o)
      BY <1>1, <1>2, <1>4, <1>14 DEF In
    <2>4. Mid(a, x, m, o1, TRUE, i)
      BY <1>7, <2>1, <2>3, Drop
    <2> QED
      BY <1>1, <1>5, <2>2, <2>4
  <1>15. CASE e.fileoffset >= x.fileoffset /\ EndOf(e) > EndOf(x)
    <2>1. u1 = TRUE /\ x.fileoffset <= e.fileoffset
      BY <1>2, <1>4, <1>7, <1>15
    <2>2. PICK y : y = IF e.fileoffset < EndOf(x) THEN CutFront(e, EndOf(x)) ELSE e
      OBVIOUS
    <2>3. AltStep(acc, e, x) = AltSt(Append(o1, y), TRUE)
      BY <1>s, <1>15, <2>1, <2>2 DEF StepCases
    <2>4. RestOf(e, EndOf(x), y)
      <3>1. EndOf(x) < EndOf(e)
        BY <1>2, <1>4, <1>15
      <3> QED
        BY <1>2, <1>4, <2>2, <3>1, RestIs
    <2>5. /\ y \in Xt /\ EndOf(y) = EndOf(e) /\ y.fileoffset = (IF e.fileoffset < EndOf(x) THEN EndOf(x) ELSE e.fileoffset)
          /\ \A p \in Nat : p >= y.fileoffset => Address(y, p) = Address(e, p)
      BY <2>4 DEF RestOf
    <2>6. EndOf(x) <= y.fileoffset /\ e.fileoffset <= y.fileoffset /\ y.fileoffset \in Nat /\ y.fileoffset < EndOf(y)
      BY <1>2, <1>4, <2>5, XtIs
    <2>7. LastBlock(y) = LastBlock(e)
      <3>1. EndOf(e) - 1 \in Nat /\ EndOf(e) - 1 >= y.fileoffset
        BY <1>2, <2>5, <2>6
      <3> QED
        BY <2>5, <3>1, SameLast
    <2>8. Put(y, x, m, TRUE)
      BY <1>2, <1>10, <2>5, <2>7 DEF Put, AltEntry
    <2>9. ASSUME NEW o \in Nat, ~In(x, o) PROVE (In(y, o) <=> In(e, o)) /\ (In(y, o) => Address(y, o) = Address(e, o))
      <3>1. In(y, o) <=> In(e, o)
        BY <1>2, <1>4, <2>1, <2>5, <2>9 DEF In
      <3>2. In(y, o) => o >= y.fileoffset
        BY <2>6 DEF In
      <3> QED
        BY <2>5, <3>1, <3>2
    <2>10. ASSUME NEW o \in Nat, In(x, o) PROVE ~In(y, o)
      BY <1>4, <2>6, <2>10 DEF In
    <2>11. Takes(a, x, m, TRUE, i, e, y, TRUE)
      <3>1. y.fileoffset = e.fileoffset \/ (y.fileoffset = EndOf(x) /\ x.fileoffset <= e.fileoffset)
        BY <2>1, <2>5
      <3>2. \A j \in 1 .. Len(a) : i < j => x.fileoffset <= a[j].fileoffset \/ EndOf(a[j]) <= x.fileoffset
        BY <1>9, <2>1
      <3> QED
        BY <2>6, <2>8, <2>9, <2>10, <3>1, <3>2 DEF Takes
    <2>12. Mid(a, x, m, Append(o1, y), TRUE, i)
      BY <1>1, <1>7, <2>1, <2>11, PutE
    <2> QED
      BY <1>1, <1>5, <2>3, <2>12
  <1> QED
    BY <1>2, <1>4, <1>11, <1>12, <1>13, <1>14, <1>15

LEMMA MidStarts ==
  ASSUME NEW a, NEW n, NEW x, NEW m, Fits(a, n, x, m)
  PROVE  Mid(a, x, m, <<>>, FALSE, 0)
  <1>1. a \in Seq(Xt)
    BY DEF Fits
  <1>2. SubSeq(a, 1, 0) = <<>>
    BY SubSeqEmpty
  <1>3. Same(a, x, <<>>, 0)
    BY <1>2 DEF Same
  <1>4. PICK e : e = <<>>
    OBVIOUS
  <1>5. e \in Seq(Xt) /\ Len(e) = 0 /\ \A k \in 1 .. Len(e) : FALSE
    BY <1>4
  <1>6. Mid(a, x, m, e, FALSE, 0)
    BY <1>3, <1>4, <1>5 DEF Mid
  <1> QED
    BY <1>4, <1>6

LEMMA MidEnds ==
  ASSUME NEW a, NEW n, NEW x, NEW m, NEW V, Fits(a, n, x, m), AltOk(a, V, n), NEW out, Mid(a, x, m, out, TRUE, Len(a))
  PROVE  AltOk(out, AltPlaced(V, x), m)
  <1>1. a \in Seq(Xt) /\ x \in Xt /\ x.fileoffset \in Nat /\ EndOf(x) \in Nat
    BY XtIs DEF Fits, AltEntry
  <1>2. /\ out \in Seq(Xt) /\ (\A k \in 1 .. Len(out) : AltEntry(out[k], m))
        /\ \A k, j \in 1 .. Len(out) : k < j => Nested(out[k], out[j], m)
    BY DEF Mid, Put
  <1>3. Same(a, x, out, Len(a)) /\ SubSeq(a, 1, Len(a)) = a
    BY <1>1, SubSeqFull DEF Mid
  <1>4. \A o \in Nat : In(x, o) => Shown(out, o, Address(x, o))
    BY DEF Mid
  <1>5. DOMAIN V \subseteq Nat /\ \A o \in Nat : IF o \in DOMAIN V THEN Shown(a, o, V[o]) ELSE Bare(a, o)
    BY DEF AltOk
  <1>6. PICK U : U = AltPlaced(V, x)
    OBVIOUS
  <1>7. /\ DOMAIN U = DOMAIN V \cup (x.fileoffset .. (EndOf(x) - 1))
        /\ \A o \in DOMAIN U : U[o] = IF In(x, o) THEN Address(x, o) ELSE V[o]
    BY <1>6 DEF AltPlaced, In
  <1>8. \A o \in Nat : o \in x.fileoffset .. (EndOf(x) - 1) <=> In(x, o)
    BY <1>1 DEF In
  <1>9. DOMAIN U \subseteq Nat
    BY <1>1, <1>5, <1>7
  <1>10. ASSUME NEW o \in Nat PROVE IF o \in DOMAIN U THEN Shown(out, o, U[o]) ELSE Bare(out, o)
    <2>1. CASE In(x, o)
      <3>1. o \in DOMAIN U /\ U[o] = Address(x, o)
        BY <1>7, <1>8, <2>1
      <3> QED
        BY <1>4, <2>1, <3>1
    <2>2. CASE ~In(x, o)
      <3>1. (o \in DOMAIN U <=> o \in DOMAIN V) /\ (o \in DOMAIN U => U[o] = V[o])
        BY <1>7, <1>8, <2>2
      <3>2. (\A v : Shown(a, o, v) => Shown(out, o, v)) /\ (Bare(a, o) => Bare(out, o))
        BY <1>3, <2>2 DEF Same
      <3> QED
        BY <1>5, <3>1, <3>2
    <2> QED
      BY <2>1, <2>2
  <1> QED
    BY <1>2, <1>6, <1>9, <1>10 DEF AltOk

Mids(a, x, m, n) ==
  {p \in (0 .. n) \X {AltSt(o, u) : o \in Seq(Xt), u \in BOOLEAN} :
     \E o, u : u \in BOOLEAN /\ p[2] = AltSt(o, u) /\ Mid(a, x, m, o, u, p[1])}
LEMMA UpdateAltIs ==
  ASSUME NEW a, NEW n, NEW x, NEW m, NEW V, Fits(a, n, x, m), AltOk(a, V, n)
  PROVE  AltOk(UpdateAlt(a, x), AltPlaced(V, x), m)
  <1>1. PICK k : k = Len(a)
    OBVIOUS
  <1>2. a \in Seq(Xt) /\ k \in Nat /\ x \in Xt
    BY <1>1, SeqIs DEF Fits, AltEntry
  <1>3. PICK I : I = Mids(a, x, m, k)
    OBVIOUS
  <1>4. ASSUME NEW i \in 0 .. k, NEW s
        PROVE  <<i, s>> \in I <=> \E o, u : u \in BOOLEAN /\ s = AltSt(o, u) /\ Mid(a, x, m, o, u, i)
    <2>1. ASSUME NEW o, NEW u, u \in BOOLEAN, s = AltSt(o, u), Mid(a, x, m, o, u, i) PROVE <<i, s>> \in I
      <3>1. o \in Seq(Xt)
        BY <2>1 DEF Mid
      <3>2. <<i, s>> \in (0 .. k) \X {AltSt(q, u2) : q \in Seq(Xt), u2 \in BOOLEAN}
        BY <2>1, <3>1
      <3> QED
        BY <1>3, <2>1, <3>2 DEF Mids
    <2>2. ASSUME <<i, s>> \in I PROVE \E o, u : u \in BOOLEAN /\ s = AltSt(o, u) /\ Mid(a, x, m, o, u, i)
      BY <1>3, <2>2 DEF Mids
    <2> QED
      BY <2>1, <2>2
  <1>5. ASSUME NEW i \in 1 .. k, NEW s, <<i - 1, s>> \in I PROVE <<i, AltStep(s, a[i], x)>> \in I
    <2>1. i - 1 \in 0 .. k /\ i \in 0 .. k /\ i \in 1 .. Len(a)
      BY <1>1, <1>2
    <2>2. PICK o, u : u \in BOOLEAN /\ s = AltSt(o, u) /\ Mid(a, x, m, o, u, i - 1)
      BY <1>4, <1>5, <2>1
    <2>3. \E o2, u2 : u2 \in BOOLEAN /\ AltStep(AltSt(o, u), a[i], x) = AltSt(o2, u2) /\ Mid(a, x, m, o2, u2, i)
      BY <2>1, <2>2, StepIs
    <2> QED
      BY <1>4, <2>1, <2>2, <2>3
  <1>6. PICK b : b = [out |-> <<>>, used |-> FALSE]
    OBVIOUS
  <1>7. <<0, b>> \in I
    <2>1. b = AltSt(<<>>, FALSE)
      BY <1>6 DEF AltSt
    <2>2. Mid(a, x, m, <<>>, FALSE, 0)
      BY MidStarts
    <2>3. 0 \in 0 .. k
      BY <1>2
    <2> QED
      BY <1>4, <2>1, <2>2, <2>3
  <1>8. PICK G : G = [p \in I |-> AltStep(p[2], a[p[1] + 1], x)]
    OBVIOUS
  <1>9. ASSUME NEW i \in 1 .. k, NEW s, <<i - 1, s>> \in I
        PROVE  G[<<i - 1, s>>] = AltStep(s, a[i], x) /\ <<i, G[<<i - 1, s>>]>> \in I
    <2>1. i - 1 + 1 = i
      OBVIOUS
    <2>2. G[<<i - 1, s>>] = AltStep(s, a[i - 1 + 1], x)
      BY <1>8, <1>9
    <2> QED
      BY <1>5, <1>9, <2>1, <2>2
  <1>10. PICK f : Fold(f, G, I, b, k)
    BY <1>2, <1>7, <1>9, Folds
  <1>11. f = [i \in 0 .. k |-> IF i = 0 THEN b ELSE AltStep(f[i - 1], a[i], x)]
    <2>1. ASSUME NEW i \in 0 .. k PROVE f[i] = IF i = 0 THEN b ELSE AltStep(f[i - 1], a[i], x)
      <3>1. CASE i = 0
        BY <1>10, <3>1 DEF Fold
      <3>2. CASE i # 0
        <4>1. i \in 1 .. k /\ i - 1 \in 0 .. k
          BY <1>2, <3>2
        <4>2. <<i - 1, f[i - 1]>> \in I /\ f[i] = G[<<i - 1, f[i - 1]>>]
          BY <1>10, <4>1 DEF Fold
        <4> QED
          BY <1>9, <3>2, <4>1, <4>2
      <3> QED
        BY <3>1, <3>2
    <2>2. f = [i \in 0 .. k |-> f[i]]
      BY <1>10 DEF Fold
    <2> QED
      BY <2>1, <2>2
  <1>12. \E g : g = [i \in 0 .. Len(a) |-> IF i = 0 THEN [out |-> <<>>, used |-> FALSE] ELSE AltStep(g[i - 1], a[i], x)]
    BY <1>1, <1>6, <1>11
  <1>13. PICK h : h = CHOOSE acc : acc = [i \in 0 .. Len(a) |-> IF i = 0 THEN [out |-> <<>>, used |-> FALSE]
                                                               ELSE AltStep(acc[i - 1], a[i], x)]
    OBVIOUS
  <1>14. h = [i \in 0 .. Len(a) |-> IF i = 0 THEN [out |-> <<>>, used |-> FALSE] ELSE AltStep(h[i - 1], a[i], x)]
    BY <1>12, <1>13
  <1>15. h = [i \in 0 .. k |-> IF i = 0 THEN b ELSE AltStep(h[i - 1], a[i], x)]
    BY <1>1, <1>6, <1>14
  <1>16. UpdateAlt(a, x) = IF h[Len(a)].used THEN h[Len(a)].out ELSE Append(h[Len(a)].out, x)
    BY <1>13 DEF UpdateAlt
  <1>17. h[0] = b /\ \A i \in 1 .. k : h[i] = AltStep(h[i - 1], a[i], x)
    <2>1. 0 \in 0 .. k /\ \A i \in 1 .. k : i \in 0 .. k /\ i # 0
      BY <1>2
    <2> QED
      BY <1>15, <2>1
  <1>18. <<k, h[k]>> \in I
    <2>1. ASSUME NEW i \in 1 .. k, <<i - 1, h[i - 1]>> \in I PROVE <<i, h[i]>> \in I
      BY <1>5, <1>17, <2>1
    <2>2. <<0, h[0]>> \in I
      BY <1>7, <1>17
    <2>3. \A i \in 0 .. k : <<i, h[i]>> \in I
      BY <1>2, <2>1, <2>2, Steps
    <2>4. k \in 0 .. k
      BY <1>2
    <2> QED
      BY <2>3, <2>4
  <1>19. PICK o, u : u \in BOOLEAN /\ h[k] = AltSt(o, u) /\ Mid(a, x, m, o, u, k)
    <2>1. k \in 0 .. k
      BY <1>2
    <2> QED
      BY <1>4, <1>18, <2>1
  <1>20. h[k].used = u /\ h[k].out = o
    BY <1>19 DEF AltSt
  <1>21. CASE u = TRUE
    <2>1. UpdateAlt(a, x) = o
      BY <1>1, <1>16, <1>20, <1>21
    <2> QED
      BY <1>1, <1>19, <1>21, <2>1, MidEnds
  <1>22. CASE u = FALSE
    <2>1. UpdateAlt(a, x) = Append(o, x)
      BY <1>1, <1>16, <1>20, <1>22
    <2>2. \A j \in 1 .. Len(a) : k < j => x.fileoffset <= a[j].fileoffset
      BY <1>1, <1>2
    <2>3. k \in 0 .. Len(a)
      BY <1>1, <1>2
    <2>4. Mid(a, x, m, Append(o, x), TRUE, k)
      BY <1>19, <1>22, <2>2, <2>3, PutX
    <2> QED
      BY <1>1, <2>1, <2>4, MidEnds
  <1> QED
    BY <1>19, <1>21, <1>22

-----------------------------------------------------------------------------
(* Pushing the extents in the index partition into the file.               *)

PushSt(l, n, r) == [list |-> l, size |-> n, real |-> r]
PushStep(s, x) ==
  [list |-> AddExtent(s.list, x), size |-> IF EndOf(x) > s.size THEN EndOf(x) ELSE s.size,
   real |-> s.real - Displaced(s.list, x) + x.bytecount]
\* The first i entries of a are over the file that had n bytes, at U.
Pushed(a, U, n, i, l, z, W) ==
  /\ z \in 0 .. FileMax /\ n <= z /\ Piece(l, 0, z, W)
  /\ z = n \/ \E j \in 1 .. i : EndOf(a[j]) = z
  /\ \A j \in 1 .. i : EndOf(a[j]) <= z
  /\ \A o \in Nat : o < z =>
       /\ \A v : Shown(SubSeq(a, 1, i), o, v) => W[o] = v
       /\ Bare(SubSeq(a, 1, i), o) => W[o] = IF o < n THEN U[o] ELSE Hole
PushedSt(a, U, n, i, s) ==
  \E l, z, W : s = PushSt(l, z, Bytes(l)) /\ Pushed(a, U, n, i, l, z, W)

LEMMA PushIs ==
  ASSUME NEW a \in Seq(Xt), NEW U, NEW n \in Nat, NEW i \in 1 .. Len(a), NEW s, EndOf(a[i]) <= FileMax,
         PushedSt(a, U, n, i - 1, s)
  PROVE  PushedSt(a, U, n, i, PushStep(s, a[i]))
  <1>1. PICK x : x = a[i]
    OBVIOUS
  <1>2. Len(a) \in Nat /\ x \in Xt /\ EndOf(x) \in Nat /\ x.bytecount \in Nat
    BY <1>1, SeqIs, XtIs
  <1>3. PICK l, z, W : s = PushSt(l, z, Bytes(l)) /\ Pushed(a, U, n, i - 1, l, z, W)
    BY DEF PushedSt
  <1>4. /\ z \in 0 .. FileMax /\ n <= z /\ Piece(l, 0, z, W)
        /\ z = n \/ \E j \in 1 .. i - 1 : EndOf(a[j]) = z
        /\ \A j \in 1 .. i - 1 : EndOf(a[j]) <= z
    BY <1>3 DEF Pushed
  <1>5. \A o \in Nat : o < z =>
          /\ \A v : Shown(SubSeq(a, 1, i - 1), o, v) => W[o] = v
          /\ Bare(SubSeq(a, 1, i - 1), o) => W[o] = IF o < n THEN U[o] ELSE Hole
    BY <1>3 DEF Pushed
  <1>6. PICK m, V : /\ m = (IF EndOf(x) > z THEN EndOf(x) ELSE z)
                    /\ V = [o \in Nat |-> IF In(x, o) THEN Address(x, o) ELSE IF o < z THEN W[o] ELSE Hole]
    OBVIOUS
  <1>7. z \in Nat /\ m \in Nat /\ m \in 0 .. FileMax /\ z <= m /\ EndOf(x) <= m /\ n <= m /\ (m = z \/ m = EndOf(x))
    BY <1>1, <1>2, <1>4, <1>6, ListAssumption
  <1>8. Over(V, W, z, x, m)
    BY <1>6 DEF Over
  <1>9. PICK q : q = AddExtent(l, x)
    OBVIOUS
  <1>10. Piece(q, 0, m, V)
    BY <1>2, <1>4, <1>7, <1>8, <1>9, AddExtentIs
  <1>11. Bytes(l) - Displaced(l, x) + x.bytecount = Bytes(q)
    BY <1>2, <1>4, <1>7, <1>9, BytesAdded
  <1>12. PushStep(s, x) = PushSt(q, m, Bytes(q))
    <2>1. s.list = l /\ s.size = z /\ s.real = Bytes(l)
      BY <1>3 DEF PushSt
    <2> QED
      BY <1>6, <1>9, <1>11, <2>1 DEF PushStep, PushSt
  <1>13. \A j \in 1 .. i : EndOf(a[j]) <= m
    <2> SUFFICES ASSUME NEW j \in 1 .. i PROVE EndOf(a[j]) <= m
      OBVIOUS
    <2>1. CASE j = i
      BY <1>1, <1>7, <2>1
    <2>2. CASE j # i
      <3>1. j \in 1 .. i - 1 /\ j \in 1 .. Len(a)
        BY <1>2, <2>2
      <3>2. EndOf(a[j]) <= z /\ EndOf(a[j]) \in Nat
        BY <1>4, <3>1, SeqIs, XtIs
      <3> QED
        BY <1>7, <3>2
    <2> QED
      BY <2>1, <2>2
  <1>14. m = n \/ \E j \in 1 .. i : EndOf(a[j]) = m
    <2>1. CASE m = EndOf(x)
      BY <1>1, <2>1
    <2>2. CASE m = z
      <3>1. \A j \in 1 .. i - 1 : j \in 1 .. i
        BY <1>2
      <3> QED
        BY <1>4, <2>2, <3>1
    <2> QED
      BY <1>7, <2>1, <2>2
  <1>15. ASSUME NEW o \in Nat, o < m
         PROVE  /\ \A v : Shown(SubSeq(a, 1, i), o, v) => V[o] = v
                /\ Bare(SubSeq(a, 1, i), o) => V[o] = IF o < n THEN U[o] ELSE Hole
    <2>1. PICK r, t : r = SubSeq(a, 1, i - 1) /\ t = SubSeq(a, 1, i)
      OBVIOUS
    <2>2. i - 1 \in 0 .. Len(a)
      BY <1>2
    <2>3. r \in Seq(Xt) /\ Len(r) = i - 1 /\ \A j \in 1 .. i - 1 : r[j] = a[j]
      BY <2>1, <2>2, FirstsIs
    <2>4. t = Append(r, x)
      <3>1. t = r \o <<x>>
        BY <1>1, <2>1, FirstsMore
      <3> QED
        BY <1>2, <2>3, <3>1, AppendIsConcat
    <2>5. V[o] = IF In(x, o) THEN Address(x, o) ELSE IF o < z THEN W[o] ELSE Hole
      BY <1>6
    <2>6. CASE In(x, o)
      <3>1. ~Bare(t, o)
        BY <1>2, <2>3, <2>4, <2>6, ShownMore
      <3>2. \A v : Shown(t, o, v) => v = Address(x, o)
        BY <1>2, <2>3, <2>4, <2>6, ShownMore
      <3> QED
        BY <2>1, <2>5, <2>6, <3>1, <3>2
    <2>7. CASE ~In(x, o)
      <3>1. (\A v : Shown(t, o, v) => Shown(r, o, v)) /\ (Bare(t, o) => Bare(r, o))
        BY <1>2, <2>3, <2>4, <2>7, ShownMore
      <3>2. CASE o < z
        BY <1>5, <2>1, <2>5, <2>7, <3>1, <3>2
      <3>3. CASE ~(o < z)
        <4>1. ASSUME NEW v, Shown(r, o, v) PROVE FALSE
          <5>1. PICK j \in 1 .. i - 1 : In(a[j], o)
            BY <2>3, <4>1 DEF Shown
          <5>2. j \in 1 .. Len(a)
            BY <1>2
          <5>3. EndOf(a[j]) <= z /\ EndOf(a[j]) \in Nat
            BY <1>4, <5>2, SeqIs, XtIs
          <5> QED
            BY <1>7, <3>3, <5>1, <5>3 DEF In
        <4>2. V[o] = Hole /\ ~(o < n)
          BY <1>4, <1>7, <2>5, <2>7, <3>3
        <4> QED
          BY <2>1, <3>1, <4>1, <4>2
      <3> QED
        BY <3>2, <3>3
    <2> QED
      BY <2>6, <2>7
  <1>16. Pushed(a, U, n, i, q, m, V)
    BY <1>7, <1>10, <1>13, <1>14, <1>15 DEF Pushed
  <1> QED
    BY <1>1, <1>12, <1>16 DEF PushedSt

LEMMA PushStarts ==
  ASSUME NEW a, NEW U, NEW n \in 0 .. FileMax, NEW l, Piece(l, 0, n, U)
  PROVE  PushedSt(a, U, n, 0, PushSt(l, n, Bytes(l)))
  <1>1. n \in Nat /\ n <= n
    BY ListAssumption
  <1>2. SubSeq(a, 1, 0) = <<>>
    BY SubSeqEmpty
  <1>3. \A o, v : ~Shown(<<>>, o, v)
    <2>1. PICK e : e = <<>>
      OBVIOUS
    <2>2. \A j \in 1 .. Len(e) : FALSE
      BY <2>1
    <2>3. \A o, v : ~Shown(e, o, v)
      BY <2>2 DEF Shown
    <2> QED
      BY <2>1, <2>3
  <1>4. ASSUME NEW o \in Nat, o < n
        PROVE  /\ \A v : Shown(SubSeq(a, 1, 0), o, v) => U[o] = v
               /\ Bare(SubSeq(a, 1, 0), o) => U[o] = IF o < n THEN U[o] ELSE Hole
    <2>1. \A v : ~Shown(SubSeq(a, 1, 0), o, v)
      BY <1>2, <1>3
    <2>2. (IF o < n THEN U[o] ELSE Hole) = U[o]
      BY <1>4
    <2> QED
      BY <2>1, <2>2
  <1>5. \A j \in 1 .. 0 : EndOf(a[j]) <= n
    <2>1. \A j \in 1 .. 0 : FALSE
      OBVIOUS
    <2> QED
      BY <2>1
  <1>6. Pushed(a, U, n, 0, l, n, U)
    BY <1>1, <1>4, <1>5 DEF Pushed
  <1> QED
    BY <1>6 DEF PushedSt

PushSts == {PushSt(q, z, Bytes(q)) : q \in Seq(Xt), z \in Nat}
PushAll(a, l, n, r) ==
  LET acc[i \in 0..Len(a)] == IF i = 0 THEN [list |-> l, size |-> n, real |-> r] ELSE PushStep(acc[i - 1], a[i])
  IN  acc[Len(a)]
LEMMA PushAllIs ==
  ASSUME NEW a \in Seq(Xt), \A i \in 1 .. Len(a) : EndOf(a[i]) <= FileMax,
         NEW U, NEW n \in 0 .. FileMax, NEW l, Piece(l, 0, n, U)
  PROVE  PushedSt(a, U, n, Len(a), PushAll(a, l, n, Bytes(l)))
  <1>1. PICK k : k = Len(a)
    OBVIOUS
  <1>2. k \in Nat /\ n \in Nat
    BY <1>1, SeqIs, ListAssumption
  <1>3. PICK St : St = PushSts
    OBVIOUS
  <1>4. PICK I : I = {p \in (0 .. k) \X St : PushedSt(a, U, n, p[1], p[2])}
    OBVIOUS
  <1>5. ASSUME NEW i \in 0 .. k, NEW s PROVE <<i, s>> \in I <=> PushedSt(a, U, n, i, s)
    <2>1. ASSUME PushedSt(a, U, n, i, s) PROVE <<i, s>> \in I
      <3>1. PICK q, z, W : s = PushSt(q, z, Bytes(q)) /\ Pushed(a, U, n, i, q, z, W)
        BY <2>1 DEF PushedSt
      <3>2. q \in Seq(Xt) /\ z \in Nat
        BY <3>1, ListAssumption DEF Pushed, Piece
      <3>3. s \in St
        BY <1>3, <3>1, <3>2 DEF PushSts
      <3> QED
        BY <1>4, <2>1, <3>3
    <2>2. ASSUME <<i, s>> \in I PROVE PushedSt(a, U, n, i, s)
      BY <1>4, <2>2
    <2> QED
      BY <2>1, <2>2
  <1>6. ASSUME NEW i \in 1 .. k, NEW s, <<i - 1, s>> \in I PROVE <<i, PushStep(s, a[i])>> \in I
    <2>1. i - 1 \in 0 .. k /\ i \in 0 .. k /\ i \in 1 .. Len(a)
      BY <1>1, <1>2
    <2>2. PushedSt(a, U, n, i - 1, s)
      BY <1>5, <1>6, <2>1
    <2>3. PushedSt(a, U, n, i, PushStep(s, a[i]))
      BY <1>2, <2>1, <2>2, PushIs
    <2> QED
      BY <1>5, <2>1, <2>3
  <1>7. PICK b : b = [list |-> l, size |-> n, real |-> Bytes(l)]
    OBVIOUS
  <1>8. <<0, b>> \in I
    <2>1. b = PushSt(l, n, Bytes(l))
      BY <1>7 DEF PushSt
    <2>2. 0 \in 0 .. k
      BY <1>2
    <2> QED
      BY <1>5, <2>1, <2>2, PushStarts
  <1>9. PICK G : G = [p \in I |-> PushStep(p[2], a[p[1] + 1])]
    OBVIOUS
  <1>10. ASSUME NEW i \in 1 .. k, NEW s, <<i - 1, s>> \in I
         PROVE  G[<<i - 1, s>>] = PushStep(s, a[i]) /\ <<i, G[<<i - 1, s>>]>> \in I
    <2>1. i - 1 + 1 = i
      OBVIOUS
    <2>2. G[<<i - 1, s>>] = PushStep(s, a[i - 1 + 1])
      BY <1>9, <1>10
    <2> QED
      BY <1>6, <1>10, <2>1, <2>2
  <1>11. PICK f : Fold(f, G, I, b, k)
    BY <1>2, <1>8, <1>10, Folds
  <1>12. f = [i \in 0 .. k |-> IF i = 0 THEN b ELSE PushStep(f[i - 1], a[i])]
    <2>1. ASSUME NEW i \in 0 .. k PROVE f[i] = IF i = 0 THEN b ELSE PushStep(f[i - 1], a[i])
      <3>1. CASE i = 0
        BY <1>11, <3>1 DEF Fold
      <3>2. CASE i # 0
        <4>1. i \in 1 .. k /\ i - 1 \in 0 .. k
          BY <1>2, <3>2
        <4>2. <<i - 1, f[i - 1]>> \in I /\ f[i] = G[<<i - 1, f[i - 1]>>]
          BY <1>11, <4>1 DEF Fold
        <4> QED
          BY <1>10, <3>2, <4>1, <4>2
      <3> QED
        BY <3>1, <3>2
    <2>2. f = [i \in 0 .. k |-> f[i]]
      BY <1>11 DEF Fold
    <2> QED
      BY <2>1, <2>2
  <1>13. \E g : g = [i \in 0 .. Len(a) |-> IF i = 0 THEN [list |-> l, size |-> n, real |-> Bytes(l)] ELSE PushStep(g[i - 1], a[i])]
    BY <1>1, <1>7, <1>12
  <1>14. PICK h : h = CHOOSE acc : acc = [i \in 0 .. Len(a) |-> IF i = 0 THEN [list |-> l, size |-> n, real |-> Bytes(l)]
                                                               ELSE PushStep(acc[i - 1], a[i])]
    OBVIOUS
  <1>15. h = [i \in 0 .. Len(a) |-> IF i = 0 THEN [list |-> l, size |-> n, real |-> Bytes(l)] ELSE PushStep(h[i - 1], a[i])]
    BY <1>13, <1>14
  <1>16. h = [i \in 0 .. k |-> IF i = 0 THEN b ELSE PushStep(h[i - 1], a[i])]
    BY <1>1, <1>7, <1>15
  <1>17. PushAll(a, l, n, Bytes(l)) = h[Len(a)]
    BY <1>14 DEF PushAll
  <1>18. h[0] = b /\ \A i \in 1 .. k : h[i] = PushStep(h[i - 1], a[i])
    <2>1. 0 \in 0 .. k /\ \A i \in 1 .. k : i \in 0 .. k /\ i # 0
      BY <1>2
    <2> QED
      BY <1>16, <2>1
  <1>19. <<k, h[k]>> \in I
    <2>1. ASSUME NEW i \in 1 .. k, <<i - 1, h[i - 1]>> \in I PROVE <<i, h[i]>> \in I
      BY <1>6, <1>18, <2>1
    <2>2. <<0, h[0]>> \in I
      BY <1>8, <1>18
    <2>3. \A i \in 0 .. k : <<i, h[i]>> \in I
      BY <1>2, <2>1, <2>2, Steps
    <2>4. k \in 0 .. k
      BY <1>2
    <2> QED
      BY <2>3, <2>4
  <1>20. k \in 0 .. k
    BY <1>2
  <1> QED
    BY <1>1, <1>5, <1>17, <1>19, <1>20

-----------------------------------------------------------------------------
\* The extents l and the bytes W of a file of n bytes.
FileOk(l, n, W) == n \in 0 .. FileMax /\ Piece(l, 0, n, W) /\ DOMAIN W = 0 .. n - 1

LEMMA WrittenIs ==
  ASSUME NEW l, NEW n, NEW W, FileOk(l, n, W), NEW x \in Xt, EndOf(x) <= FileMax
  PROVE  FileOk(AddExtent(l, x), IF EndOf(x) > n THEN EndOf(x) ELSE n, Placed(W, x))
  <1>1. PICK m, V, e : m = (IF EndOf(x) > n THEN EndOf(x) ELSE n) /\ V = Placed(W, x) /\ e = EndOf(x)
    OBVIOUS
  <1>2. n \in Nat /\ n <= FileMax /\ Piece(l, 0, n, W) /\ DOMAIN W = 0 .. n - 1
    BY ListAssumption DEF FileOk
  <1>3. e \in Nat /\ e <= FileMax
    BY <1>1, XtIs
  <1>4. m = IF e > n THEN e ELSE n
    BY <1>1
  <1>5. m \in 0 .. FileMax /\ m \in Nat /\ n <= m /\ e <= m
    BY <1>2, <1>3, <1>4, ListAssumption
  <1>6. V = [o \in DOMAIN W \cup 0 .. (e - 1) |->
               IF o >= x.fileoffset /\ o < e THEN Address(x, o) ELSE IF o \in DOMAIN W THEN W[o] ELSE Hole]
    BY <1>1 DEF Placed
  <1>7. DOMAIN V = 0 .. m - 1
    <2>1. (0 .. n - 1) \cup 0 .. (e - 1) = 0 .. m - 1
      BY <1>2, <1>3, <1>4
    <2>2. DOMAIN V = DOMAIN W \cup 0 .. (e - 1)
      BY <1>6
    <2> QED
      BY <1>2, <2>1, <2>2
  <1>8. Over(V, W, n, x, m)
    <2> SUFFICES ASSUME NEW o \in Nat, o < m
                 PROVE  V[o] = IF In(x, o) THEN Address(x, o) ELSE IF o < n THEN W[o] ELSE Hole
      BY DEF Over
    <2>1. o \in DOMAIN V
      BY <1>5, <1>7
    <2>2. o \in DOMAIN W \cup 0 .. (e - 1)
      BY <1>6, <2>1
    <2>3. V[o] = IF o >= x.fileoffset /\ o < e THEN Address(x, o) ELSE IF o \in DOMAIN W THEN W[o] ELSE Hole
      BY <1>6, <2>2
    <2>4. o \in DOMAIN W <=> o < n
      BY <1>2
    <2>5. (o >= x.fileoffset /\ o < e) <=> In(x, o)
      BY <1>1, XtIs DEF In
    <2> QED
      BY <2>3, <2>4, <2>5
  <1>9. Piece(AddExtent(l, x), 0, m, V)
    BY <1>1, <1>2, <1>5, <1>8, AddExtentIs
  <1>10. FileOk(AddExtent(l, x), m, V)
    BY <1>5, <1>7, <1>9 DEF FileOk
  <1> QED
    BY <1>1, <1>10

LEMMA CutIs ==
  ASSUME NEW l, NEW n, NEW W, FileOk(l, n, W), NEW p \in 0 .. FileMax
  PROVE  FileOk(IF p < n THEN CutList(l, p) ELSE l, p,
                [o \in 0 .. (p - 1) |-> IF o \in DOMAIN W THEN W[o] ELSE Hole])
  <1>1. PICK V, c : V = [o \in 0 .. (p - 1) |-> IF o \in DOMAIN W THEN W[o] ELSE Hole]
                    /\ c = (IF p < n THEN CutList(l, p) ELSE l)
    OBVIOUS
  <1>2. n \in Nat /\ n <= FileMax /\ Piece(l, 0, n, W) /\ DOMAIN W = 0 .. n - 1 /\ p \in Nat /\ 0 \in Nat
    BY ListAssumption DEF FileOk
  <1>3. ASSUME NEW o \in Nat, o < p PROVE V[o] = IF o < n THEN W[o] ELSE Hole
    <2>1. o \in 0 .. p - 1 /\ (o \in DOMAIN W <=> o < n)
      BY <1>2, <1>3
    <2>2. V[o] = IF o \in DOMAIN W THEN W[o] ELSE Hole
      BY <1>1, <2>1
    <2> QED
      BY <2>1, <2>2
  <1>4. Piece(c, 0, p, V)
    <2>1. CASE p < n
      <3>1. Piece(CutList(l, p), 0, p, W)
        BY <1>2, <2>1, PieceCut
      <3>2. Holed(V, W, 0, p, p)
        <4> SUFFICES ASSUME NEW o \in Nat, o < p PROVE V[o] = IF o < p THEN W[o] ELSE Hole
          BY DEF Holed
        <4>1. o < n
          BY <1>2, <2>1
        <4> QED
          BY <1>3, <4>1
      <3>3. p <= p
        BY <1>2
      <3> QED
        BY <1>1, <1>2, <2>1, <3>1, <3>2, <3>3, PieceHoled
    <2>2. CASE ~(p < n)
      <3>1. n <= p
        BY <1>2, <2>2
      <3>2. Holed(V, W, 0, n, p)
        BY <1>3 DEF Holed
      <3> QED
        BY <1>1, <1>2, <2>2, <3>1, <3>2, PieceHoled
    <2> QED
      BY <2>1, <2>2
  <1>5. DOMAIN V = 0 .. p - 1
    BY <1>1
  <1> QED
    BY <1>1, <1>4, <1>5 DEF FileOk

\* The bytes of V in front of those of U.
Upon(V, U) ==
  [o \in DOMAIN U \cup UNION {0..p : p \in DOMAIN V} |->
     IF o \in DOMAIN V THEN V[o] ELSE IF o \in DOMAIN U THEN U[o] ELSE Hole]

LEMMA PushedIs ==
  ASSUME NEW a, NEW V, NEW m, AltOk(a, V, m), NEW l, NEW n, NEW U, FileOk(l, n, U)
  PROVE  LET r == PushAll(a, l, n, Bytes(l))
         IN  FileOk(r.list, r.size, Upon(V, U)) /\ r.real = Bytes(r.list)
  <1>1. PICK k, r : k = Len(a) /\ r = PushAll(a, l, n, Bytes(l))
    OBVIOUS
  <1>2. a \in Seq(Xt) /\ \A i \in 1 .. k : a[i] \in Xt /\ EndOf(a[i]) <= FileMax
    BY <1>1 DEF AltOk, AltEntry
  <1>3. k \in Nat /\ n \in Nat /\ n \in 0 .. FileMax /\ Piece(l, 0, n, U) /\ DOMAIN U = 0 .. n - 1
    BY <1>1, <1>2, SeqIs, ListAssumption DEF FileOk
  <1>4. PushedSt(a, U, n, k, r)
    <2>1. \A i \in 1 .. Len(a) : EndOf(a[i]) <= FileMax
      BY <1>1, <1>2
    <2> QED
      BY <1>1, <1>2, <1>3, <2>1, PushAllIs
  <1>5. PICK q, z, W : r = PushSt(q, z, Bytes(q)) /\ Pushed(a, U, n, k, q, z, W)
    BY <1>4 DEF PushedSt
  <1>6. r.list = q /\ r.size = z /\ r.real = Bytes(q)
    BY <1>5 DEF PushSt
  <1>7. z \in 0 .. FileMax /\ z \in Nat /\ n <= z /\ Piece(q, 0, z, W)
    BY <1>5, ListAssumption DEF Pushed
  <1>8. (z = n \/ \E j \in 1 .. k : EndOf(a[j]) = z) /\ \A j \in 1 .. k : EndOf(a[j]) <= z
    BY <1>5 DEF Pushed
  <1>9. SubSeq(a, 1, k) = a
    <2>1. k \in 0 .. Len(a)
      BY <1>1, <1>3
    <2>2. SubSeq(a, 1, k) \in Seq(Xt) /\ Len(SubSeq(a, 1, k)) = k /\ \A j \in 1 .. k : SubSeq(a, 1, k)[j] = a[j]
      BY <1>2, <2>1, FirstsIs
    <2>3. PICK b : b = SubSeq(a, 1, k)
      OBVIOUS
    <2>4. b \in [1 .. k -> Xt] /\ a \in [1 .. k -> Xt] /\ \A j \in 1 .. k : b[j] = a[j]
      BY <1>1, <1>2, <2>2, <2>3, SeqIs
    <2>5. b = [j \in 1 .. k |-> b[j]] /\ a = [j \in 1 .. k |-> a[j]]
      BY <2>4
    <2>6. [j \in 1 .. k |-> b[j]] = [j \in 1 .. k |-> a[j]]
      BY <2>4
    <2> QED
      BY <2>3, <2>5, <2>6
  <1>10. ASSUME NEW o \in Nat, o < z
         PROVE  (\A v : Shown(a, o, v) => W[o] = v) /\ (Bare(a, o) => W[o] = IF o < n THEN U[o] ELSE Hole)
    BY <1>5, <1>9, <1>10 DEF Pushed
  <1>11. DOMAIN V \subseteq Nat /\ \A o \in Nat : IF o \in DOMAIN V THEN Shown(a, o, V[o]) ELSE Bare(a, o)
    BY DEF AltOk
  <1>12. ASSUME NEW p \in DOMAIN V PROVE p \in Nat /\ p < z
    <2>1. p \in Nat /\ Shown(a, p, V[p])
      BY <1>11, <1>12
    <2>2. PICK j \in 1 .. k : In(a[j], p)
      BY <1>1, <2>1 DEF Shown
    <2>3. p < EndOf(a[j]) /\ EndOf(a[j]) <= z /\ EndOf(a[j]) \in Nat
      BY <1>2, <1>8, <2>2, XtIs DEF In
    <2> QED
      BY <1>7, <2>1, <2>3
  <1>13. z = n \/ z - 1 \in DOMAIN V
    <2>1. ASSUME NEW j \in 1 .. k, EndOf(a[j]) = z PROVE z - 1 \in DOMAIN V
      <3>1. z - 1 \in Nat /\ In(a[j], z - 1)
        BY <1>2, <2>1, LastIs
      <3>2. ~Bare(a, z - 1)
        BY <1>1, <3>1 DEF Bare
      <3> QED
        BY <1>11, <3>1, <3>2
    <2> QED
      BY <1>8, <2>1
  <1>14. PICK T : T = Upon(V, U)
    OBVIOUS
  <1>15. PICK D : D = DOMAIN U \cup UNION {0..p : p \in DOMAIN V}
    OBVIOUS
  <1>16. T = [o \in D |-> IF o \in DOMAIN V THEN V[o] ELSE IF o \in DOMAIN U THEN U[o] ELSE Hole]
    BY <1>14, <1>15 DEF Upon
  <1>17. D = 0 .. z - 1
    <2>1. ASSUME NEW o \in D PROVE o \in 0 .. z - 1
      <3>1. CASE o \in DOMAIN U
        BY <1>3, <1>7, <3>1
      <3>2. CASE \E p \in DOMAIN V : o \in 0 .. p
        <4>1. PICK p \in DOMAIN V : o \in 0 .. p
          BY <3>2
        <4>2. p \in Nat /\ p < z
          BY <1>12
        <4> QED
          BY <1>7, <4>1, <4>2
      <3> QED
        BY <1>15, <2>1, <3>1, <3>2
    <2>2. ASSUME NEW o \in 0 .. z - 1 PROVE o \in D
      <3>1. CASE z = n
        BY <1>3, <1>15, <2>2, <3>1
      <3>2. CASE z - 1 \in DOMAIN V
        BY <1>15, <2>2, <3>2
      <3> QED
        BY <1>13, <3>1, <3>2
    <2> QED
      BY <2>1, <2>2
  <1>18. Holed(T, W, 0, z, z)
    <2> SUFFICES ASSUME NEW o \in Nat, o < z PROVE T[o] = W[o]
      BY DEF Holed
    <2>1. o \in D
      BY <1>7, <1>17
    <2>2. T[o] = IF o \in DOMAIN V THEN V[o] ELSE IF o \in DOMAIN U THEN U[o] ELSE Hole
      BY <1>16, <2>1
    <2>3. o \in DOMAIN U <=> o < n
      BY <1>3
    <2>4. CASE o \in DOMAIN V
      <3>1. Shown(a, o, V[o])
        BY <1>11, <2>4
      <3>2. W[o] = V[o]
        BY <1>10, <3>1
      <3> QED
        BY <2>2, <2>4, <3>2
    <2>5. CASE o \notin DOMAIN V
      <3>1. Bare(a, o)
        BY <1>11, <2>5
      <3>2. W[o] = IF o < n THEN U[o] ELSE Hole
        BY <1>10, <3>1
      <3> QED
        BY <2>2, <2>3, <2>5, <3>2
    <2> QED
      BY <2>4, <2>5
  <1>19. Piece(q, 0, z, T)
    <2>1. z <= z /\ 0 \in Nat
      BY <1>7
    <2> QED
      BY <1>7, <1>18, <2>1, PieceHoled
  <1>20. DOMAIN T = 0 .. z - 1
    BY <1>16, <1>17
  <1>21. FileOk(q, z, T)
    BY <1>7, <1>19, <1>20 DEF FileOk
  <1> QED
    BY <1>1, <1>6, <1>14, <1>21

LEMMA NoneOk ==
  ASSUME NEW W, DOMAIN W = {}, NEW m
  PROVE  AltOk(<<>>, W, m) /\ Piece(<<>>, 0, 0, W)
  <1>1. PICK e : e = <<>>
    OBVIOUS
  <1>2. e \in Seq(Xt) /\ \A j \in 1 .. Len(e) : FALSE
    BY <1>1
  <1>3. \A o : Bare(e, o)
    BY <1>2 DEF Bare
  <1>4. AltOk(e, W, m)
    BY <1>2, <1>3 DEF AltOk
  <1>5. \A o \in Nat : ~(0 <= o /\ o < 0)
    OBVIOUS
  <1>6. Piece(e, 0, 0, W)
    BY <1>2, <1>5 DEF Piece, Apart
  <1> QED
    BY <1>1, <1>4, <1>6

-----------------------------------------------------------------------------
\* The invariant. extentlist tells every byte of the file, or that it is a
\* hole; the last entry of alt_extentlist over a byte tells that byte.
ListInv ==
  /\ FileOk(extentlist, size, where)
  /\ realsize = Bytes(extentlist)
  /\ append_pos \in [Partitions -> Nat]
  /\ AltOk(alt_extentlist, altwhere, append_pos["IP"])

LEMMA BlocksIs ==
  ASSUME NEW count \in Nat \ {0}
  PROVE  BlocksOf(count) = 1 + (count - 1) \div BytesPerBlock /\ (count - 1) \div BytesPerBlock \in Nat
  <1>1. PICK B : B = BytesPerBlock
    OBVIOUS
  <1>2. B \in Nat \ {0} /\ 1 \in Nat /\ count - 1 \in Nat
    BY <1>1, ListAssumption
  <1>3. (B * 1 + (count - 1)) \div B = 1 + (count - 1) \div B
    BY <1>2, DivMore
  <1>4. (count - 1) \div B \in Nat
    BY <1>2, DivIs
  <1>5. B * 1 + (count - 1) = count + B - 1
    BY <1>2
  <1> QED
    BY <1>1, <1>3, <1>4, <1>5 DEF BlocksOf

LEMMA NewIs ==
  ASSUME append_pos \in [Partitions -> Nat], NEW p \in Partitions, NEW off \in Nat, NEW count \in Nat \ {0}
  PROVE  LET x == NewExtent(p, off, count)
         IN  /\ x \in Xt /\ EndOf(x) = off + count /\ x.bytecount = count /\ x.block = append_pos[p]
             /\ append_pos[p] \in Nat /\ BlocksOf(count) \in Nat /\ append_pos[p] < append_pos[p] + BlocksOf(count)
             /\ LastBlock(x) < append_pos[p] + BlocksOf(count)
  <1>1. PICK n, x, q, b : n = append_pos[p] /\ x = NewExtent(p, off, count) /\ b = BlocksOf(count)
                       /\ q = (count - 1) \div BytesPerBlock
    OBVIOUS
  <1>2. n \in Nat
    BY <1>1
  <1>3. x = [partition |-> p, block |-> n, byteoffset |-> 0, fileoffset |-> off, bytecount |-> count]
    BY <1>1 DEF NewExtent
  <1>4. 0 \in 0 .. (BytesPerBlock - 1)
    BY ListAssumption
  <1>5. x \in Xt
    BY <1>2, <1>3, <1>4 DEF Xt
  <1>6. x.fileoffset = off /\ x.bytecount = count /\ x.block = n /\ x.byteoffset = 0
    BY <1>3
  <1>7. EndOf(x) = off + count
    BY <1>6 DEF EndOf
  <1>8. b = 1 + q /\ q \in Nat
    BY <1>1, BlocksIs
  <1>9. LastBlock(x) = n + q
    <2>1. off + count - 1 - off + 0 = count - 1
      OBVIOUS
    <2>2. (EndOf(x) - 1 - x.fileoffset + x.byteoffset) = count - 1
      BY <1>6, <1>7, <2>1
    <2>3. Address(x, EndOf(x) - 1)[2] = x.block + (EndOf(x) - 1 - x.fileoffset + x.byteoffset) \div BytesPerBlock
      BY DEF Address
    <2> QED
      BY <1>1, <1>6, <2>2, <2>3 DEF LastBlock
  <1>10. n < n + b /\ n + q < n + b /\ b \in Nat
    BY <1>2, <1>8
  <1> QED
    BY <1>1, <1>2, <1>5, <1>6, <1>7, <1>9, <1>10

LEMMA ListStarts == ListInit => ListInv
  <1> SUFFICES ASSUME ListInit PROVE ListInv
    OBVIOUS
  <1>1. DOMAIN where = {} /\ DOMAIN altwhere = {}
    <2>1. \A e : e = <<>> => DOMAIN e = {}
      OBVIOUS
    <2> QED
      BY <2>1 DEF ListInit
  <1>2. 0 .. 0 - 1 = {} /\ 0 \in 0 .. FileMax
    BY ListAssumption
  <1>3. FileOk(extentlist, size, where)
    <2>1. Piece(<<>>, 0, 0, where)
      BY <1>1, NoneOk
    <2>2. extentlist = <<>> /\ size = 0
      BY DEF ListInit
    <2> QED
      BY <1>1, <1>2, <2>1, <2>2 DEF FileOk
  <1>4. realsize = Bytes(extentlist)
    BY BytesEmpty DEF ListInit
  <1>5. append_pos \in [Partitions -> Nat]
    BY DEF ListInit
  <1>6. AltOk(alt_extentlist, altwhere, append_pos["IP"])
    BY <1>1, NoneOk DEF ListInit
  <1> QED
    BY <1>3, <1>4, <1>5, <1>6 DEF ListInv

LEMMA ListElsewhere ==
  ASSUME ListInv, NEW p \in Partitions, Elsewhere(p)
  PROVE  ListInv'
  <1>1. FileOk(extentlist, size, where)' /\ (realsize = Bytes(extentlist))'
    BY DEF ListInv, Elsewhere
  <1>2. PICK n, m : n = append_pos["IP"] /\ m = append_pos'["IP"]
    OBVIOUS
  <1>3. append_pos' \in [Partitions -> Nat] /\ n \in Nat /\ m \in Nat /\ n <= m
    BY <1>2 DEF ListInv, Elsewhere, Partitions
  <1>4. AltOk(alt_extentlist, altwhere, m)
    BY <1>2, <1>3, AltLater DEF ListInv
  <1>5. alt_extentlist' = alt_extentlist /\ altwhere' = altwhere
    BY DEF Elsewhere
  <1>6. AltOk(alt_extentlist', altwhere', m)
    BY <1>4, <1>5
  <1> QED
    BY <1>1, <1>2, <1>3, <1>6 DEF ListInv

\* What is chosen in ListNext for a write.
Chosen(off, count) == off \in Nat /\ count \in Nat \ {0} /\ off + count <= FileMax

LEMMA ListWriteDP ==
  ASSUME ListInv, NEW off, NEW count, Chosen(off, count), WriteDP(off, count)
  PROVE  ListInv'
  <1>1. PICK x, n, l, W, b : x = NewExtent("DP", off, count) /\ n = size /\ l = extentlist /\ W = where /\ b = BlocksOf(count)
    OBVIOUS
  <1>2. "DP" \in Partitions /\ append_pos \in [Partitions -> Nat] /\ off \in Nat /\ count \in Nat \ {0}
    BY DEF Partitions, ListInv, Chosen
  <1>3. x \in Xt /\ EndOf(x) = off + count /\ x.bytecount = count /\ b \in Nat
    BY <1>1, <1>2, NewIs
  <1>4. EndOf(x) <= FileMax
    BY <1>3 DEF Chosen
  <1>5. FileOk(l, n, W) /\ realsize = Bytes(l)
    BY <1>1 DEF ListInv
  <1>6. FileOk(AddExtent(l, x), IF EndOf(x) > n THEN EndOf(x) ELSE n, Placed(W, x))
    BY <1>3, <1>4, <1>5, WrittenIs
  <1>7. /\ append_pos' = [append_pos EXCEPT !["DP"] = @ + b]
        /\ extentlist' = AddExtent(l, x) /\ size' = (IF EndOf(x) > n THEN EndOf(x) ELSE n)
        /\ realsize' = realsize - Displaced(l, x) + count /\ where' = Placed(W, x)
        /\ alt_extentlist' = alt_extentlist /\ altwhere' = altwhere
    BY <1>1 DEF WriteDP
  <1>8. realsize' = Bytes(extentlist')
    <2>1. n \in Nat /\ Piece(l, 0, n, W)
      BY <1>5, ListAssumption DEF FileOk
    <2>2. Bytes(l) - Displaced(l, x) + x.bytecount = Bytes(AddExtent(l, x))
      BY <1>3, <2>1, BytesAdded
    <2> QED
      BY <1>3, <1>5, <1>7, <2>2
  <1>9. append_pos' \in [Partitions -> Nat] /\ append_pos'["IP"] = append_pos["IP"]
    BY <1>2, <1>3, <1>7 DEF Partitions
  <1>10. AltOk(alt_extentlist', altwhere', append_pos'["IP"])
    BY <1>7, <1>9 DEF ListInv
  <1>11. FileOk(extentlist', size', where')
    BY <1>6, <1>7
  <1> QED
    BY <1>8, <1>9, <1>10, <1>11 DEF ListInv

LEMMA ListWriteIP ==
  ASSUME ListInv, NEW off, NEW count, Chosen(off, count), WriteIP(off, count)
  PROVE  ListInv'
  <1>1. PICK x, n, m, a, V, b : x = NewExtent("IP", off, count) /\ n = append_pos["IP"] /\ a = alt_extentlist /\ V = altwhere
                             /\ b = BlocksOf(count) /\ m = n + b
    OBVIOUS
  <1>2. "IP" \in Partitions /\ append_pos \in [Partitions -> Nat] /\ off \in Nat /\ count \in Nat \ {0}
    BY DEF Partitions, ListInv, Chosen
  <1>3. x \in Xt /\ EndOf(x) = off + count /\ x.block = n /\ n \in Nat /\ b \in Nat /\ n < n + b /\ LastBlock(x) < n + b
    BY <1>1, <1>2, NewIs
  <1>4. EndOf(x) <= FileMax /\ m \in Nat /\ n < m /\ LastBlock(x) < m
    BY <1>1, <1>3 DEF Chosen
  <1>5. AltOk(a, V, n)
    BY <1>1 DEF ListInv
  <1>6. Fits(a, n, x, m)
    BY <1>3, <1>4, <1>5 DEF Fits, AltOk, AltEntry
  <1>7. AltOk(UpdateAlt(a, x), AltPlaced(V, x), m)
    BY <1>5, <1>6, UpdateAltIs
  <1>8. /\ append_pos' = [append_pos EXCEPT !["IP"] = @ + b]
        /\ alt_extentlist' = UpdateAlt(a, x) /\ altwhere' = AltPlaced(V, x)
        /\ extentlist' = extentlist /\ size' = size /\ realsize' = realsize /\ where' = where
    BY <1>1 DEF WriteIP
  <1>9. append_pos' \in [Partitions -> Nat] /\ append_pos'["IP"] = m
    BY <1>1, <1>2, <1>3, <1>8 DEF Partitions
  <1>10. AltOk(alt_extentlist', altwhere', append_pos'["IP"])
    BY <1>7, <1>8, <1>9
  <1>11. FileOk(extentlist', size', where') /\ realsize' = Bytes(extentlist')
    BY <1>8 DEF ListInv
  <1> QED
    BY <1>9, <1>10, <1>11 DEF ListInv

LEMMA ListTruncate ==
  ASSUME ListInv, NEW len \in 0 .. FileMax, TruncateTo(len)
  PROVE  ListInv'
  <1>1. PICK n, l, W, c : n = size /\ l = extentlist /\ W = where /\ c = (IF len < n THEN CutList(l, len) ELSE l)
    OBVIOUS
  <1>2. FileOk(l, n, W) /\ realsize = Bytes(l)
    BY <1>1 DEF ListInv
  <1>3. FileOk(c, len, [o \in 0 .. (len - 1) |-> IF o \in DOMAIN W THEN W[o] ELSE Hole])
    BY <1>1, <1>2, CutIs
  <1>4. /\ extentlist' = c /\ size' = len /\ realsize' = realsize - (Bytes(l) - Bytes(c))
        /\ where' = [o \in 0 .. (len - 1) |-> IF o \in DOMAIN W THEN W[o] ELSE Hole]
        /\ alt_extentlist' = CutList(alt_extentlist, len)
        /\ altwhere' = [o \in {q \in DOMAIN altwhere : q < len} |-> altwhere[o]]
        /\ append_pos' = append_pos
    BY <1>1 DEF TruncateTo
  <1>5. realsize' = Bytes(extentlist')
    <2>1. PICK k, j : k = Bytes(l) /\ j = Bytes(c)
      OBVIOUS
    <2>2. k \in Nat /\ j \in Nat
      BY <1>2, <1>3, <2>1, BytesNat DEF FileOk, Piece
    <2>3. k - (k - j) = j
      BY <2>2
    <2> QED
      BY <1>2, <1>4, <2>1, <2>3
  <1>6. append_pos["IP"] \in Nat /\ len \in Nat
    BY ListAssumption DEF ListInv, Partitions
  <1>7. AltOk(CutList(alt_extentlist, len), Until(altwhere, len), append_pos["IP"])
    BY <1>6, AltCut DEF ListInv
  <1>8. AltOk(alt_extentlist', altwhere', append_pos'["IP"])
    BY <1>4, <1>7 DEF Until
  <1>9. append_pos' \in [Partitions -> Nat]
    BY <1>4 DEF ListInv
  <1>10. FileOk(extentlist', size', where')
    BY <1>3, <1>4
  <1> QED
    BY <1>5, <1>8, <1>9, <1>10 DEF ListInv

LEMMA ListPush ==
  ASSUME ListInv, Push
  PROVE  ListInv'
  <1>1. PICK r : r = PushAll(alt_extentlist, extentlist, size, realsize)
    OBVIOUS
  <1>2. extentlist' = r.list /\ size' = r.size /\ realsize' = r.real
    BY <1>1 DEF Push, PushAll, PushStep
  <1>3. where' = Upon(altwhere, where) /\ alt_extentlist' = <<>> /\ altwhere' = <<>> /\ append_pos' = append_pos
    BY DEF Push, Upon
  <1>4. FileOk(r.list, r.size, Upon(altwhere, where)) /\ r.real = Bytes(r.list)
    <2>1. FileOk(extentlist, size, where) /\ AltOk(alt_extentlist, altwhere, append_pos["IP"])
      BY DEF ListInv
    <2>2. r = PushAll(alt_extentlist, extentlist, size, Bytes(extentlist))
      BY <1>1 DEF ListInv
    <2> QED
      BY <2>1, <2>2, PushedIs
  <1>5. AltOk(alt_extentlist', altwhere', append_pos'["IP"])
    <2>1. DOMAIN altwhere' = {}
      <3>1. \A e : e = <<>> => DOMAIN e = {}
        OBVIOUS
      <3> QED
        BY <1>3, <3>1
    <2> QED
      BY <1>3, <2>1, NoneOk
  <1>6. append_pos' \in [Partitions -> Nat]
    BY <1>3 DEF ListInv
  <1>7. FileOk(extentlist', size', where') /\ realsize' = Bytes(extentlist')
    BY <1>2, <1>3, <1>4
  <1> QED
    BY <1>5, <1>6, <1>7 DEF ListInv

LEMMA ListDiscard ==
  ASSUME ListInv, Discard
  PROVE  ListInv'
  <1>1. alt_extentlist' = <<>> /\ altwhere' = <<>> /\ append_pos' = append_pos
    BY DEF Discard
  <1>2. DOMAIN altwhere' = {}
    <2>1. \A e : e = <<>> => DOMAIN e = {}
      OBVIOUS
    <2> QED
      BY <1>1, <2>1
  <1>3. AltOk(alt_extentlist', altwhere', append_pos'["IP"])
    BY <1>1, <1>2, NoneOk
  <1>4. FileOk(extentlist', size', where') /\ realsize' = Bytes(extentlist') /\ append_pos' \in [Partitions -> Nat]
    BY <1>1 DEF ListInv, Discard
  <1> QED
    BY <1>3, <1>4 DEF ListInv

LEMMA ListSteps == ListInv /\ [ListNext]_listVars => ListInv'
  <1> SUFFICES ASSUME ListInv, [ListNext]_listVars PROVE ListInv'
    OBVIOUS
  <1>1. ASSUME NEW off \in 0 .. (FileMax - 1), NEW count \in 1 .. Least(MaxCount, FileMax - off)
        PROVE  Chosen(off, count)
    <2>1. FileMax \in Nat /\ MaxCount \in Nat /\ FileMax - off \in Nat
      BY ListAssumption
    <2>2. Least(MaxCount, FileMax - off) \in Nat /\ Least(MaxCount, FileMax - off) <= FileMax - off
      BY <2>1 DEF Least
    <2> QED
      BY <2>1, <2>2 DEF Chosen
  <1>2. CASE \E off \in 0 .. (FileMax - 1) : \E count \in 1 .. Least(MaxCount, FileMax - off) :
               WriteDP(off, count) \/ WriteIP(off, count)
    BY <1>1, <1>2, ListWriteDP, ListWriteIP
  <1>3. CASE \E p \in Partitions : Elsewhere(p)
    BY <1>3, ListElsewhere
  <1>4. CASE \E len \in 0 .. FileMax : TruncateTo(len)
    BY <1>4, ListTruncate
  <1>5. CASE Push
    BY <1>5, ListPush
  <1>6. CASE Discard
    BY <1>6, ListDiscard
  <1>7. CASE UNCHANGED listVars
    BY <1>7 DEF ListInv, listVars
  <1> QED
    BY <1>2, <1>3, <1>4, <1>5, <1>6, <1>7 DEF ListNext

-----------------------------------------------------------------------------
LEMMA ExtentsAre ==
  ASSUME NEW l \in Seq(Xt), \A i \in 1 .. Len(l) : EndOf(l[i]) <= FileMax
  PROVE  l \in Seq(Extent)
  <1>1. PICK n : n = Len(l)
    OBVIOUS
  <1>2. n \in Nat /\ l \in [1 .. n -> Xt]
    BY <1>1, SeqIs
  <1>3. ASSUME NEW i \in 1 .. n PROVE l[i] \in Extent
    <2>1. PICK x : x = l[i]
      OBVIOUS
    <2>2. x \in Xt /\ EndOf(x) <= FileMax
      BY <1>1, <1>2, <2>1
    <2>3. x.fileoffset \in Nat /\ x.bytecount \in Nat \ {0} /\ x.fileoffset + x.bytecount <= FileMax /\ FileMax \in Nat
      BY <2>2, XtIs, ListAssumption DEF EndOf
    <2>4. x.fileoffset \in 0 .. (FileMax - 1) /\ x.bytecount \in 1 .. FileMax
      BY <2>3
    <2>5. x = [partition |-> x.partition, block |-> x.block, byteoffset |-> x.byteoffset,
               fileoffset |-> x.fileoffset, bytecount |-> x.bytecount]
          /\ x.partition \in Partitions /\ x.block \in Nat /\ x.byteoffset \in 0 .. (BytesPerBlock - 1)
      BY <2>2 DEF Xt
    <2> QED
      BY <2>1, <2>4, <2>5 DEF Extent
  <1>4. l \in [1 .. n -> Extent]
    <2>1. l = [i \in 1 .. n |-> l[i]]
      BY <1>2
    <2> QED
      BY <1>3, <2>1
  <1> QED
    BY <1>2, <1>4, FunSeq

LEMMA LatestIs ==
  ASSUME NEW a, NEW V, NEW m, AltOk(a, V, m), NEW o \in Nat
  PROVE  LET of == {i \in DOMAIN a : o >= a[i].fileoffset /\ o < EndOf(a[i])}
         IN  IF o \in DOMAIN V
             THEN /\ of # {}
                  /\ LET i == CHOOSE i \in of : \A k \in of : k <= i IN Address(a[i], o) = V[o]
             ELSE of = {}
  <1>1. PICK n, of : n = Len(a) /\ of = {i \in DOMAIN a : o >= a[i].fileoffset /\ o < EndOf(a[i])}
    OBVIOUS
  <1>2. a \in Seq(Xt) /\ n \in Nat /\ DOMAIN a = 1 .. n /\ \A i \in 1 .. n : a[i].fileoffset \in Nat
    BY <1>1, SeqIs, XtIs DEF AltOk
  <1>3. \A i : i \in of <=> i \in 1 .. n /\ In(a[i], o)
    BY <1>1, <1>2 DEF In
  <1>4. IF o \in DOMAIN V THEN Shown(a, o, V[o]) ELSE Bare(a, o)
    BY DEF AltOk
  <1>5. ASSUME o \notin DOMAIN V PROVE of = {}
    BY <1>1, <1>3, <1>4, <1>5 DEF Bare
  <1>6. ASSUME o \in DOMAIN V
        PROVE  of # {} /\ \A c : c = (CHOOSE i \in of : \A k \in of : k <= i) => Address(a[c], o) = V[o]
    <2>1. PICK j \in 1 .. n : In(a[j], o) /\ V[o] = Address(a[j], o) /\ \A k \in 1 .. n : In(a[k], o) => k <= j
      BY <1>1, <1>4, <1>6 DEF Shown
    <2>2. j \in of /\ \A k \in of : k <= j
      BY <1>3, <2>1
    <2> SUFFICES ASSUME NEW c, c = (CHOOSE i \in of : \A k \in of : k <= i)
                 PROVE  Address(a[c], o) = V[o]
      BY <2>2
    <2>3. c \in of /\ \A k \in of : k <= c
      BY <2>2
    <2>4. c \in Nat /\ j \in Nat /\ c <= j /\ j <= c
      BY <1>2, <1>3, <2>2, <2>3
    <2>5. c = j
      BY <2>4
    <2> QED
      BY <2>1, <2>5
  <1>7. IF o \in DOMAIN V
        THEN /\ of # {}
             /\ LET i == CHOOSE i \in of : \A k \in of : k <= i IN Address(a[i], o) = V[o]
        ELSE of = {}
    BY <1>5, <1>6
  <1> QED
    BY <1>1, <1>7

LEMMA ListInvExact == ListInv => ListsExact
  <1> SUFFICES ASSUME ListInv PROVE ListsExact
    OBVIOUS
  <1>1. FileMax \in Nat /\ 0 \in Nat
    BY ListAssumption
  <1>2. size \in 0 .. FileMax /\ size \in Nat /\ Piece(extentlist, 0, size, where)
    BY <1>1 DEF ListInv, FileOk
  <1>3. extentlist \in Seq(Xt) /\ Apart(extentlist)
    BY <1>2 DEF Piece
  <1>4. ASSUME NEW i \in 1 .. Len(extentlist) PROVE EndOf(extentlist[i]) <= size /\ EndOf(extentlist[i]) \in Nat
    BY <1>2, <1>3, SeqIs, XtIs DEF Piece
  <1>5. AltOk(alt_extentlist, altwhere, append_pos["IP"])
    BY DEF ListInv
  <1>6. ListTypes
    <2>1. extentlist \in Seq(Extent)
      <3>1. \A i \in 1 .. Len(extentlist) : EndOf(extentlist[i]) <= FileMax
        BY <1>1, <1>2, <1>4
      <3> QED
        BY <1>3, <3>1, ExtentsAre
    <2>2. alt_extentlist \in Seq(Extent)
      BY <1>5, ExtentsAre DEF AltOk, AltEntry
    <2>3. realsize \in 0 .. FileMax
      <3>1. Bytes(extentlist) \in 0 .. size
        BY <1>2, BytesBound
      <3> QED
        BY <1>1, <1>2, <3>1 DEF ListInv
    <2> QED
      BY <1>2, <2>1, <2>2, <2>3 DEF ListTypes, ListInv
  <1>7. ReadsFindBytes
    <2> SUFFICES ASSUME NEW off \in 0 .. size, NEW count \in 1 .. (FileMax - off + 1)
                 PROVE  Read(extentlist, size, off, count) =
                          [k \in 1 .. (Least(off + count, size) - off) |-> where[off + k - 1]]
      BY DEF ReadsFindBytes
    <2>1. off \in Nat /\ count \in Nat /\ off <= size
      BY <1>1, <1>2
    <2>2. Read(extentlist, size, off, count) = Run(where, off, Least(off + count, size))
      BY <1>2, <2>1, ReadIs
    <2> QED
      BY <2>2 DEF Run
  <1>8. ParsesBack
    <2>1. ParseAll(extentlist) = [ok |-> TRUE, list |-> extentlist]
      BY <1>3, ParseAllIs
    <2>2. ASSUME extentlist # <<>> PROVE EndOf(Last(extentlist)) <= size
      <3>1. Len(extentlist) \in 1 .. Len(extentlist)
        BY <1>3, <2>2
      <3> QED
        BY <1>4, <3>1 DEF Last
    <2> QED
      BY <2>1, <2>2 DEF ParsesBack
  <1>9. RealsizeExact
    BY DEF RealsizeExact, ListInv
  <1>10. AltListCorrect
    <2>1. \A o \in 0 .. (FileMax - 1) : o \in Nat
      OBVIOUS
    <2> QED
      BY <1>5, <2>1, LatestIs DEF AltListCorrect
  <1> QED
    BY <1>6, <1>7, <1>8, <1>9, <1>10 DEF ListsExact

\* After any writes, truncations, pushes and discards of one file, every read
\* finds each byte where it was last written (ltfs_fsraw_read), the list comes
\* back from an index as it went into it (_xml_parse_one_extent), realsize is
\* the sum of its extents, and the index partition's list, taken from its end,
\* tells where each of its bytes is: _ltfs_fsraw_add_extent_unlocked
\* (ltfs_fsops_raw.c:311-444), ltfs_fsraw_truncate and
\* _unified_update_alt_extentlist, for blocks, files and writes of every size.
THEOREM ListsAreExact == ListSpec => []ListsExact
  <1>1. ListInit => ListInv
    BY ListStarts
  <1>2. ListInv /\ [ListNext]_listVars => ListInv'
    BY ListSteps
  <1>3. ListInv => ListsExact
    BY ListInvExact
  <1> QED
    BY <1>1, <1>2, <1>3, PTL DEF ListSpec
=============================================================================
