--------------------------- MODULE PacketsProofs ----------------------------
(***************************************************************************)
(* Theorems about the way of a packet through a worker, for every packet   *)
(* that fits the read buffer, whatever the write buffer holds.             *)
(***************************************************************************)
EXTENDS ChecksumProofs, Packets, FiniteSetTheorems

-----------------------------------------------------------------------------
(* Bytes.                                                                  *)

\* The sizes of the code.
LEMMA Bounds ==
    /\ ByteMod = 256 /\ LaneMod = 65536 /\ Ones = 65535
    /\ Mtu \in Nat /\ Mtu >= 40 /\ Mtu <= 65535
<1>1. ByteMod = 256 /\ Mtu \in Nat /\ Mtu >= 40 /\ Mtu <= 65535
  BY PacketAssumption
<1> QED
  BY <1>1, SMT DEF LaneMod, Ones

\* The bytes of Packets are those of Checksum.
LEMMA ByteIs == Byte = 0..255
<1>1. ByteMod - 1 = 255
  BY Bounds, SMT
<1> QED
  BY <1>1 DEF Byte

\* Bytes by their bounds.
LEMMA ByteNat ==
    /\ \A b \in Byte : b \in Nat /\ b <= 255
    /\ \A n \in Nat : n <= 255 => n \in Byte
BY Bounds, SMT DEF Byte

\* A slice within the data, byte by byte.
LEMMA SliceFacts ==
    ASSUME NEW data \in Seq(Byte), NEW i \in Nat, NEW j \in Nat, i <= j, j <= Len(data)
    PROVE  /\ Slice(data, i, j) \in Seq(Byte)
           /\ Len(Slice(data, i, j)) = j - i
           /\ \A k \in Nat : 1 <= k /\ k <= j - i => Slice(data, i, j)[k] = data[i + k]
<1>1. i + 1 \in Nat /\ i + 1 >= 1 /\ i + 1 <= j + 1 /\ j - (i + 1) + 1 = j - i
  BY SMT
<1>2. /\ SubSeq(data, i + 1, j) \in Seq(Byte)
      /\ Len(SubSeq(data, i + 1, j)) = j - (i + 1) + 1
      /\ \A k \in 1..(j - (i + 1) + 1) : SubSeq(data, i + 1, j)[k] = data[i + 1 + k - 1]
  BY <1>1, SubSeqFacts, Zenon
<1>3. \A k \in Nat : 1 <= k /\ k <= j - i => k \in 1..(j - i) /\ i + 1 + k - 1 = i + k
  BY SMT
<1>4. \A k \in 1..(j - i) : SubSeq(data, i + 1, j)[k] = data[i + 1 + k - 1]
  BY <1>1, <1>2, Zenon
<1> QED
  BY <1>1, <1>2, <1>3, <1>4 DEF Slice

\* A slice from the start.
LEMMA PrefixFacts ==
    ASSUME NEW data \in Seq(Byte), NEW n \in Nat, n <= Len(data)
    PROVE  /\ Slice(data, 0, n) \in Seq(Byte) /\ Len(Slice(data, 0, n)) = n
           /\ \A k \in Nat : 1 <= k /\ k <= n => Slice(data, 0, n)[k] = data[k]
<1>1. 0 \in Nat /\ 0 <= n /\ n - 0 = n /\ \A k \in Nat : 0 + k = k
  BY SMT
<1>2. /\ Slice(data, 0, n) \in Seq(Byte) /\ Len(Slice(data, 0, n)) = n - 0
      /\ \A k \in Nat : 1 <= k /\ k <= n - 0 => Slice(data, 0, n)[k] = data[0 + k]
  BY <1>1, SliceFacts
<1> QED
  BY <1>1, <1>2

\* A slice that starts at the end or past it is empty.
LEMMA SliceEmpty ==
    ASSUME NEW data, NEW i \in Nat, NEW j \in Nat, j <= i
    PROVE  Slice(data, i, j) = <<>>
<1>1. i + 1 \in Int /\ j \in Int /\ j < i + 1
  BY SMT
<1> QED
  BY <1>1, SubSeqEmpty DEF Slice

\* q is buf with bytes at offset i.
IsPut(q, buf, i, bytes) ==
    /\ q \in Seq(Byte) /\ Len(q) = Len(buf)
    /\ \A k \in Nat : 1 <= k /\ k <= Len(buf) /\ (k <= i \/ i + Len(bytes) < k) => q[k] = buf[k]
    /\ \A k \in Nat : i < k /\ k <= i + Len(bytes) => q[k] = bytes[k - i]

\* Put does what IsPut says.
LEMMA PutFacts ==
    ASSUME NEW buf \in Seq(Byte), NEW bytes \in Seq(Byte), NEW i \in Nat,
           i + Len(bytes) <= Len(buf)
    PROVE  IsPut(Put(buf, i, bytes), buf, i, bytes)
<1> DEFINE n == Len(buf)
           m == Len(bytes)
           p == Put(buf, i, bytes)
<1>1. n \in Nat /\ m \in Nat /\ i + m <= n
  OBVIOUS
<1>2. p = [k \in 1..n |-> IF k \in (i + 1)..(i + m) THEN bytes[k - i] ELSE buf[k]]
  BY DEF Put
<1> HIDE DEF p
<1>3. \A k \in 1..n : k \in (i + 1)..(i + m) => k - i \in 1..m
  BY <1>1, SMT
<1>4. p \in [1..n -> Byte]
  <2>1. \A k \in 1..n : buf[k] \in Byte
    OBVIOUS
  <2>2. \A k \in 1..m : bytes[k] \in Byte
    OBVIOUS
  <2> QED
    BY <1>2, <1>3, <2>1, <2>2
<1>5. p \in Seq(Byte)
  BY <1>1, <1>4, SeqDef
<1>6. Len(p) = n
  BY <1>1, <1>4, <1>5, LenProperties
<1>7. ASSUME NEW k \in Nat, 1 <= k, k <= n, k <= i \/ i + m < k PROVE p[k] = buf[k]
  <2>1. k \in 1..n /\ k \notin (i + 1)..(i + m)
    BY <1>1, <1>7, SMT
  <2> QED
    BY <1>2, <2>1
<1>8. ASSUME NEW k \in Nat, i < k, k <= i + m PROVE p[k] = bytes[k - i]
  <2>1. k \in 1..n /\ k \in (i + 1)..(i + m)
    BY <1>1, <1>8, SMT
  <2> QED
    BY <1>2, <2>1
<1> QED
  BY <1>5, <1>6, <1>7, <1>8 DEF p, IsPut

\* What fits 16 bits.
Word == 0..Ones

\* Words by their bounds.
LEMMA WordNat ==
    /\ \A n \in Word : n \in Nat /\ n <= 65535
    /\ \A n \in Nat : n <= 65535 => n \in Word
<1>1. Ones \in Nat
  BY Sizes
<1>2. (\A n \in Word : n \in Nat /\ n <= Ones) /\ (\A n \in Nat : n <= Ones => n \in Word)
  BY <1>1, SMT DEF Word
<1> QED
  BY <1>2, Bounds

\* Every length up to the MTU fits a length field.
LEMMA MtuFacts == Mtu \in Nat /\ Mtu >= 40 /\ \A n \in Nat : n <= Mtu => n \in Word
<1>1. Mtu \in Nat /\ Mtu >= 40
  BY Bounds
<1>2. \A n \in Nat : n <= Mtu => n <= 65535
  BY Bounds, SMT
<1> QED
  BY <1>1, <1>2, WordNat, SMT

\* The two bytes of a 16-bit number.
LEMMA Halves ==
    ASSUME NEW n \in Nat, n <= 65535
    PROVE  /\ n \div 256 \in Nat /\ n \div 256 <= 255 /\ n % 256 \in Nat /\ n % 256 <= 255
           /\ (n \div 256) * 256 + (n % 256) = n
BY SMT

\* to_be_bytes yields two bytes.
LEMMA BeBytesOf ==
    ASSUME NEW n \in Word
    PROVE  /\ BeBytes(n) \in Seq(Byte) /\ Len(BeBytes(n)) = 2
           /\ BeBytes(n)[1] = n \div 256 /\ BeBytes(n)[2] = n % 256
           /\ (n \div 256) * 256 + (n % 256) = n
<1> DEFINE x == n \div 256
           y == n % 256
<1>1. x \in Nat /\ x <= 255 /\ y \in Nat /\ y <= 255 /\ x * 256 + y = n
  BY WordNat, Halves
<1>2. BeBytes(n) = <<x, y>>
  BY DEF BeBytes
<1> HIDE DEF x, y
<1>3. x \in Byte /\ y \in Byte
  BY <1>1, ByteNat
<1>4. <<x, y>> \in Seq(Byte) /\ Len(<<x, y>>) = 2 /\ <<x, y>>[1] = x /\ <<x, y>>[2] = y
  BY <1>3
<1> QED
  BY <1>1, <1>2, <1>4 DEF x, y

\* Two bytes make a word.
LEMMA BytePair ==
    ASSUME NEW x \in Byte, NEW y \in Byte
    PROVE  x * 256 + y \in Word
<1>1. x \in Nat /\ x <= 255 /\ y \in Nat /\ y <= 255
  BY ByteNat
<1>2. x * 256 + y \in Nat /\ x * 256 + y <= 65535
  BY <1>1, SMT
<1> QED
  BY <1>2, WordNat

\* from_be_bytes yields a word.
LEMMA U16Type ==
    ASSUME NEW data \in Seq(Byte), NEW i \in Nat, i + 2 <= Len(data)
    PROVE  U16(data, i) \in Word
<1>1. i + 1 \in 1..Len(data) /\ i + 2 \in 1..Len(data)
  <2>1. Len(data) \in Nat
    OBVIOUS
  <2> QED
    BY <2>1, SMT
<1>2. data[i + 1] \in Byte /\ data[i + 2] \in Byte
  BY <1>1
<1> QED
  BY <1>2, BytePair DEF U16
-----------------------------------------------------------------------------
(* Checksums that are written and checksums that are verified.             *)

\* When one word of a sequence is replaced, the sum changes by the difference.
LEMMA WordReplaced ==
    ASSUME NEW a \in Seq(Byte), NEW b \in Seq(Byte), Len(a) = Len(b), NEW w \in Nat,
           w >= 1, 2 * w - 1 <= Len(a),
           \A i \in 1..Len(a) : i # 2 * w - 1 /\ i # 2 * w => a[i] = b[i]
    PROVE  Total(b) = Total(a) + (WordAt(b, w) - WordAt(a, w))
<1> DEFINE n == Len(a)
           P == WordSums(a)
           Q == WordSums(b)
           d == WordAt(b, w) - WordAt(a, w)
           h == (n + 1) \div 2
           S == {i \in Nat : Q[i] = P[i] + (IF i < w THEN 0 ELSE d)}
<1>1. n \in Nat /\ h \in Nat /\ w <= h
  <2>1. n \in Nat
    OBVIOUS
  <2> QED
    BY <2>1, SMT
<1>2. /\ P \in [Nat -> Nat] /\ P[0] = 0 /\ \A i \in Nat : P[i + 1] = P[i] + WordAt(a, i + 1)
      /\ Q \in [Nat -> Nat] /\ Q[0] = 0 /\ \A i \in Nat : Q[i + 1] = Q[i] + WordAt(b, i + 1)
  BY WordSumsFacts
<1>3. \A i \in Nat : WordAt(a, i + 1) \in Nat /\ WordAt(b, i + 1) \in Nat
  <2> SUFFICES ASSUME NEW i \in Nat PROVE WordAt(a, i + 1) \in Nat /\ WordAt(b, i + 1) \in Nat
    OBVIOUS
  <2>1. i + 1 \in Nat /\ i + 1 >= 1
    BY SMT
  <2>2. WordAt(a, i + 1) \in 0..Ones /\ WordAt(b, i + 1) \in 0..Ones
    BY <2>1, WordAtType
  <2> QED
    BY <2>2, Sizes, SMT
<1>4. ASSUME NEW i \in Nat, i + 1 # w
      PROVE  WordAt(b, i + 1) = WordAt(a, i + 1)
  <2> DEFINE x == 2 * (i + 1) - 1
             y == 2 * (i + 1)
  <2>1. /\ x <= n => x \in 1..n /\ x # 2 * w - 1 /\ x # 2 * w
        /\ y <= n => y \in 1..n /\ y # 2 * w - 1 /\ y # 2 * w
    BY <1>1, <1>4, SMT
  <2>2. ByteAt(a, x) = ByteAt(b, x) /\ ByteAt(a, y) = ByteAt(b, y)
    BY <2>1 DEF ByteAt
  <2> QED
    BY <2>2 DEF WordAt
<1>5. WordAt(a, w) \in Nat /\ WordAt(b, w) \in Nat /\ d \in Int
  <2>1. w - 1 \in Nat /\ (w - 1) + 1 = w
    BY SMT
  <2>2. WordAt(a, w) \in Nat /\ WordAt(b, w) \in Nat
    BY <1>3, <2>1
  <2> QED
    BY <2>2, SMT
<1>6. Total(a) = P[h] /\ Total(b) = Q[h]
  BY DEF Total
<1>7. WordAt(b, w) = WordAt(a, w) + d
  BY <1>5, SMT
<1> HIDE DEF P, Q, d, n, h
<1>8. 0 \in S
  <2>1. 0 < w /\ 0 = 0 + 0
    BY SMT
  <2> QED
    BY <1>2, <2>1
<1>9. ASSUME NEW i \in Nat, i \in S PROVE i + 1 \in S
  <2> DEFINE x == WordAt(a, i + 1)
             y == WordAt(b, i + 1)
             p == P[i]
             q == Q[i]
             pp == P[i + 1]
             qq == Q[i + 1]
  <2>1. x \in Nat /\ y \in Nat /\ p \in Nat /\ q \in Nat /\ pp = p + x /\ qq = q + y
    BY <1>2, <1>3
  <2>2. q = p + (IF i < w THEN 0 ELSE d)
    BY <1>9
  <2>3. i + 1 # w => x = y
    BY <1>4
  <2>4. i + 1 = w => y = x + d
    BY <1>7
  <2> HIDE DEF x, y, p, q, pp, qq
  <2>5. qq = pp + (IF i + 1 < w THEN 0 ELSE d)
    <3>1. CASE i + 1 = w
      <4>1. y = x + d /\ q = p + 0 /\ ~(i + 1 < w)
        BY <2>2, <2>4, <3>1, SMT
      <4> QED
        BY <1>5, <2>1, <4>1, SMT
    <3>2. CASE i + 1 # w /\ i < w
      <4>1. y = x /\ q = p + 0 /\ i + 1 < w
        BY <2>2, <2>3, <3>2, SMT
      <4> QED
        BY <1>5, <2>1, <4>1, SMT
    <3>3. CASE i + 1 # w /\ ~(i < w)
      <4>1. y = x /\ q = p + d /\ ~(i + 1 < w)
        BY <2>2, <2>3, <3>3, SMT
      <4> QED
        BY <1>5, <2>1, <4>1, SMT
    <3> QED
      BY <3>1, <3>2, <3>3
  <2> QED
    BY <2>5 DEF pp, qq
<1>10. h \in S
  <2> HIDE DEF S
  <2> QED
    BY <1>1, <1>8, <1>9, AllNumbers
<1>11. ~(h < w)
  BY <1>1, SMT
<1> QED
  BY <1>6, <1>10, <1>11 DEF d

\* A valid checksum: the sum of the words is Ones or a multiple of it, and not 0.
LEMMA SumsIff ==
    ASSUME NEW data \in Seq(Byte)
    PROVE  Rfc1071(data) = 0 <=> \E k \in Nat : k >= 1 /\ Total(data) = k * Ones
<1> DEFINE t == Total(data)
<1>1. t \in Nat /\ Rfc1071(data) = Ones - Residue(t) /\ Residue(t) \in 0..Ones
  BY TotalFacts, ResidueType
<1> HIDE DEF t
<1>2. Ones \in Nat /\ Ones > 0 /\ t - 1 \in Int
  BY <1>1, Sizes, SMT
<1>3. ASSUME Residue(t) = Ones PROVE \E k \in Nat : k >= 1 /\ t = k * Ones
  <2> DEFINE q == (t - 1) \div Ones
             r == (t - 1) % Ones
  <2>1. t # 0
    BY <1>2, <1>3, SMT DEF Residue
  <2>2. q \in Nat /\ r \in 0..(Ones - 1) /\ t - 1 = q * Ones + r
    <3>1. t - 1 \in Nat
      BY <1>1, <2>1, SMT
    <3> QED
      BY <1>2, <3>1, DivDef, Zenon
  <2>3. r + 1 = Ones
    BY <1>3, <2>1 DEF Residue
  <2> HIDE DEF q, r
  <2>4. t = (q + 1) * Ones /\ q + 1 \in Nat /\ q + 1 >= 1
    BY <1>1, <1>2, <2>2, <2>3, SMT
  <2> QED
    BY <2>4
<1>4. ASSUME NEW k \in Nat, k >= 1, t = k * Ones PROVE Residue(t) = Ones
  <2>1. t = Ones + (k - 1) * Ones /\ k - 1 \in Int /\ Ones # 0
    BY <1>2, <1>4, SMT
  <2>2. t # 0
    <3>1. (k - 1) * Ones \in Nat
      BY <1>2, <1>4, SMT
    <3> QED
      BY <1>2, <2>1, <3>1, SMT
  <2>3. Residue(Ones + (k - 1) * Ones) = Residue(Ones)
    <3>1. Ones + (k - 1) * Ones \in Nat /\ Ones + (k - 1) * Ones # 0
      BY <1>1, <2>1, <2>2, Zenon
    <3> QED
      BY <1>2, <2>1, <3>1, ResidueShift, Zenon
  <2>4. Residue(Ones) = Ones
    <3>1. Ones \in 0..Ones
      BY <1>2, SMT
    <3> QED
      BY <3>1, ResidueSmall
  <2> QED
    BY <2>1, <2>3, <2>4, Zenon
<1>5. Rfc1071(data) = 0 <=> Residue(t) = Ones
  BY <1>1, <1>2, SMT
<1> QED
  BY <1>3, <1>4, <1>5 DEF t

\* A checksum computed with its own field cleared and put there makes the whole valid,
\* and so does all ones in the place of 0.
LEMMA ChecksumInserted ==
    ASSUME NEW a \in Seq(Byte), NEW b \in Seq(Byte), Len(a) = Len(b), NEW w \in Nat,
           w >= 1, 2 * w - 1 <= Len(a),
           \A i \in 1..Len(a) : i # 2 * w - 1 /\ i # 2 * w => a[i] = b[i],
           WordAt(a, w) = 0,
           WordAt(b, w) = Rfc1071(a) \/ (Rfc1071(a) = 0 /\ WordAt(b, w) = Ones)
    PROVE  Rfc1071(b) = 0
<1> DEFINE t == Total(a)
           u == Total(b)
           c == WordAt(b, w)
<1>1. u = t + (c - 0)
  BY WordReplaced
<1>2. t \in Nat /\ Rfc1071(a) = Ones - Residue(t) /\ Residue(t) \in 0..Ones
  BY TotalFacts, ResidueType
<1>3. Ones \in Nat /\ Ones > 0
  BY Sizes, SMT
<1> HIDE DEF t
<1>4. CASE Rfc1071(a) = 0
  <2>1. PICK k \in Nat : k >= 1 /\ t = k * Ones
    BY <1>4, SumsIff DEF t
  <2>2. c = 0 \/ c = Ones
    BY <1>4
  <2>3. t + (0 - 0) = k * Ones /\ t + (Ones - 0) = (k + 1) * Ones /\ k + 1 \in Nat /\ k + 1 >= 1
    BY <1>3, <2>1, SMT
  <2>4. \E m \in Nat : m >= 1 /\ u = m * Ones
    BY <1>1, <2>1, <2>2, <2>3
  <2> QED
    BY <2>4, SumsIff
<1>5. CASE Rfc1071(a) # 0
  <2>1. c = Ones - Residue(t)
    BY <1>2, <1>5
  <2>2. CASE t = 0
    <3>1. Residue(t) = 0
      BY <2>2 DEF Residue
    <3>2. u = 1 * Ones /\ 1 \in Nat /\ 1 >= 1
      BY <1>1, <1>3, <2>1, <2>2, <3>1, SMT
    <3> QED
      BY <3>2, SumsIff
  <2>3. CASE t # 0
    <3> DEFINE q == (t - 1) \div Ones
               r == (t - 1) % Ones
    <3>1. t - 1 \in Nat /\ t - 1 \in Int
      BY <1>2, <2>3, SMT
    <3>2. q \in Nat /\ r \in 0..(Ones - 1) /\ t - 1 = q * Ones + r
      BY <1>3, <3>1, DivDef, Zenon
    <3>3. Residue(t) = r + 1
      BY <2>3 DEF Residue
    <3> HIDE DEF q, r
    <3>4. q + 1 \in Nat /\ q + 1 >= 1 /\ t + ((Ones - (r + 1)) - 0) = (q + 1) * Ones
      BY <1>2, <1>3, <3>2, SMT
    <3>5. u = (q + 1) * Ones
      BY <1>1, <2>1, <3>3, <3>4
    <3> QED
      BY <3>4, <3>5, SumsIff
  <2> QED
    BY <2>2, <2>3
<1> QED
  BY <1>4, <1>5

\* A single byte cannot change without making a valid checksum invalid.
LEMMA DamagedSum ==
    ASSUME NEW a \in Seq(Byte), NEW b \in Seq(Byte), Len(a) = Len(b),
           NEW p \in 1..Len(a), a[p] # b[p],
           \A i \in 1..Len(a) : i # p => a[i] = b[i],
           Rfc1071(a) = 0
    PROVE  Rfc1071(b) # 0
<1> DEFINE w == (p + 1) \div 2
           x == WordAt(a, w)
           y == WordAt(b, w)
           n == Len(a)
<1>1. n \in Nat /\ w \in Nat /\ w >= 1 /\ 2 * w - 1 <= n /\ (p = 2 * w - 1 \/ p = 2 * w)
  <2>1. n \in Nat
    OBVIOUS
  <2> QED
    BY <2>1, SMT
<1> HIDE DEF w
<1>2. \A i \in 1..n : i # 2 * w - 1 /\ i # 2 * w => a[i] = b[i]
  BY <1>1
<1>3. Total(b) = Total(a) + (y - x)
  BY <1>1, <1>2, WordReplaced
<1>4. x \in 0..Ones /\ y \in 0..Ones /\ Ones \in Nat
  BY <1>1, WordAtType, Sizes
<1>5. y # x /\ y - x < Ones /\ y - x > -Ones
  <2> DEFINE s == ByteAt(a, 2 * w - 1)
             t == ByteAt(a, 2 * w)
             s2 == ByteAt(b, 2 * w - 1)
             t2 == ByteAt(b, 2 * w)
  <2>1. x = s * 256 + t /\ y = s2 * 256 + t2 /\ Ones = 65535
    BY Bounds DEF WordAt
  <2>2. 2 * w - 1 \in Nat /\ 2 * w - 1 >= 1 /\ 2 * w \in Nat /\ 2 * w >= 1 /\ 2 * w # 2 * w - 1
    BY <1>1, SMT
  <2>3. s \in Byte /\ t \in Byte /\ s2 \in Byte /\ t2 \in Byte
    BY <2>2, ByteAtType
  <2>4. \/ s # s2 /\ t = t2
        \/ s = s2 /\ t # t2
    <3>1. CASE p = 2 * w - 1
      <4>1. s # s2
        BY <1>1, <3>1 DEF ByteAt
      <4>2. 2 * w <= n => 2 * w \in 1..n
        BY <1>1, SMT
      <4>3. t = t2
        BY <2>2, <3>1, <4>2 DEF ByteAt
      <4> QED
        BY <4>1, <4>3
    <3>2. CASE p = 2 * w
      <4>1. 2 * w <= n /\ 2 * w - 1 <= n /\ 2 * w - 1 \in 1..n
        BY <1>1, <3>2, SMT
      <4>2. t # t2
        BY <3>2, <4>1 DEF ByteAt
      <4>3. s = s2
        BY <2>2, <3>2, <4>1 DEF ByteAt
      <4> QED
        BY <4>2, <4>3
    <3> QED
      BY <1>1, <3>1, <3>2
  <2> HIDE DEF s, t, s2, t2, x, y
  <2>5. /\ s \in Nat /\ t \in Nat /\ s2 \in Nat /\ t2 \in Nat
        /\ s <= 255 /\ t <= 255 /\ s2 <= 255 /\ t2 <= 255
    BY <2>3, ByteNat
  <2> QED
    BY <2>1, <2>4, <2>5, SMT
<1> SUFFICES ASSUME Rfc1071(b) = 0 PROVE FALSE
  OBVIOUS
<1>6. PICK k \in Nat : k >= 1 /\ Total(a) = k * Ones
  BY SumsIff
<1>7. PICK m \in Nat : m >= 1 /\ Total(b) = m * Ones
  BY SumsIff
<1> HIDE DEF x, y
<1>8. (m - k) * Ones = y - x
  BY <1>3, <1>4, <1>6, <1>7, SMT
<1>9. m - k = 0 \/ m - k >= 1 \/ m - k <= -1
  BY SMT
<1>10. CASE m - k = 0
  BY <1>4, <1>5, <1>8, <1>10, SMT
<1>11. CASE m - k >= 1
  <2>1. (m - k) * Ones >= Ones
    BY <1>4, <1>11, SMT
  <2> QED
    BY <1>4, <1>5, <1>8, <2>1, SMT
<1>12. CASE m - k <= -1
  <2>1. (m - k) * Ones <= -Ones
    BY <1>4, <1>12, SMT
  <2> QED
    BY <1>4, <1>5, <1>8, <2>1, SMT
<1> QED
  BY <1>9, <1>10, <1>11, <1>12
-----------------------------------------------------------------------------
(* Writing.                                                                *)

\* Concatenation under a name that the provers do not unfold.
Cat(s, t) == s \o t

\* A concatenation, byte by byte.
LEMMA CatFacts ==
    ASSUME NEW s \in Seq(Byte), NEW t \in Seq(Byte)
    PROVE  /\ Cat(s, t) \in Seq(Byte) /\ Len(Cat(s, t)) = Len(s) + Len(t)
           /\ \A i \in Nat : 1 <= i /\ i <= Len(s) => Cat(s, t)[i] = s[i]
           /\ \A i \in Nat : Len(s) < i /\ i <= Len(s) + Len(t) => Cat(s, t)[i] = t[i - Len(s)]
<1> DEFINE m == Len(s)
           n == Len(t)
<1>1. /\ s \o t \in Seq(Byte) /\ Len(s \o t) = m + n
      /\ \A i \in 1..(m + n) : (s \o t)[i] = IF i <= m THEN s[i] ELSE t[i - m]
  BY ConcatProperties
<1>2. m \in Nat /\ n \in Nat
  OBVIOUS
<1>3. \A i \in Nat : 1 <= i /\ i <= m => i \in 1..(m + n) /\ i <= m
  BY <1>2, SMT
<1>4. \A i \in Nat : m < i /\ i <= m + n => i \in 1..(m + n) /\ ~(i <= m)
  BY <1>2, SMT
<1>5. \A i \in Nat : 1 <= i /\ i <= m => (s \o t)[i] = s[i]
  BY <1>1, <1>3
<1>6. \A i \in Nat : m < i /\ i <= m + n => (s \o t)[i] = t[i - m]
  BY <1>1, <1>4
<1> QED
  BY <1>1, <1>5, <1>6 DEF Cat

\* The length of a concatenation.
LEMMA CatLen ==
    ASSUME NEW s \in Seq(Byte), NEW t \in Seq(Byte)
    PROVE  Cat(s, t) \in Seq(Byte) /\ Len(Cat(s, t)) = Len(s) + Len(t)
BY CatFacts

\* Addresses, and the sequence numbers of TCP: 4 bytes.
Addr == {a \in Seq(Byte) : Len(a) = 4}

\* The fixed bytes of the headers.
LEMMA Tuples ==
    ASSUME NEW p \in Byte
    PROVE  /\ <<69, 0>> \in Seq(Byte) /\ Len(<<69, 0>>) = 2
           /\ <<0, p>> \in Seq(Byte) /\ Len(<<0, p>>) = 2
           /\ <<p, 0>> \in Seq(Byte) /\ Len(<<p, 0>>) = 2
           /\ <<0, 0>> \in Seq(Byte) /\ Len(<<0, 0>>) = 2
           /\ <<80, p>> \in Seq(Byte) /\ Len(<<80, p>>) = 2
           /\ <<0, 0, 64, 0, 64, p, 0, 0>> \in Seq(Byte) /\ Len(<<0, 0, 64, 0, 64, p, 0, 0>>) = 8
<1>1. 69 \in Byte /\ 0 \in Byte /\ 64 \in Byte /\ 80 \in Byte
  BY Bounds, SMT DEF Byte
<1> QED
  BY <1>1

\* The header that is written, its checksum field cleared.
Ipv4Fields(n, p, src, dst) ==
    <<69, 0>> \o BeBytes(n) \o <<0, 0, 64, 0, 64, p, 0, 0>> \o src \o dst

\* The bytes of a header whose checksum is still 0.
IsFields(c, n, p, src, dst) ==
    /\ c \in Seq(Byte) /\ Len(c) = 20
    /\ c[1] = 69 /\ c[10] = p /\ c[11] = 0 /\ c[12] = 0
    /\ c[3] = n \div 256 /\ c[4] = n % 256
    /\ \A i \in Nat : 1 <= i /\ i <= 4 => c[12 + i] = src[i] /\ c[16 + i] = dst[i]

\* The fields of Ipv4Fields are in their places.
LEMMA Ipv4Bytes ==
    ASSUME NEW n \in Word, NEW p \in Byte, NEW src \in Addr, NEW dst \in Addr
    PROVE  IsFields(Ipv4Fields(n, p, src, dst), n, p, src, dst)
<1> DEFINE a == <<69, 0>>
           b == BeBytes(n)
           f == <<0, 0, 64, 0, 64, p, 0, 0>>
           s == Cat(a, b)
           t == Cat(s, f)
           u == Cat(t, src)
           c == Cat(u, dst)
           x == n \div 256
           y == n % 256
<1>1. /\ a \in Seq(Byte) /\ Len(a) = 2 /\ a[1] = 69
      /\ f \in Seq(Byte) /\ Len(f) = 8 /\ f[6] = p /\ f[7] = 0 /\ f[8] = 0
  BY Tuples
<1>2. /\ b \in Seq(Byte) /\ Len(b) = 2 /\ b[1] = x /\ b[2] = y
      /\ src \in Seq(Byte) /\ Len(src) = 4 /\ dst \in Seq(Byte) /\ Len(dst) = 4
  BY BeBytesOf DEF Addr
<1>3. Ipv4Fields(n, p, src, dst) = c
  BY DEF Ipv4Fields, Cat
<1> HIDE DEF a, b, f, x, y
<1>4. s \in Seq(Byte) /\ Len(s) = 4 /\ s[1] = 69 /\ s[3] = x /\ s[4] = y
  <2>1. /\ s \in Seq(Byte) /\ Len(s) = Len(a) + Len(b)
        /\ \A i \in Nat : 1 <= i /\ i <= Len(a) => s[i] = a[i]
        /\ \A i \in Nat : Len(a) < i /\ i <= Len(a) + Len(b) => s[i] = b[i - Len(a)]
    BY <1>1, <1>2, CatFacts, Zenon
  <2> QED
    BY <1>1, <1>2, <2>1, SMT
<1> HIDE DEF s
<1>5. /\ t \in Seq(Byte) /\ Len(t) = 12 /\ t[1] = 69 /\ t[3] = x /\ t[4] = y
      /\ t[10] = p /\ t[11] = 0 /\ t[12] = 0
  <2>1. /\ t \in Seq(Byte) /\ Len(t) = Len(s) + Len(f)
        /\ \A i \in Nat : 1 <= i /\ i <= Len(s) => t[i] = s[i]
        /\ \A i \in Nat : Len(s) < i /\ i <= Len(s) + Len(f) => t[i] = f[i - Len(s)]
    BY <1>1, <1>2, <1>4, CatFacts, Zenon
  <2> QED
    BY <1>1, <1>4, <2>1, SMT
<1> HIDE DEF t
<1>6. /\ u \in Seq(Byte) /\ Len(u) = 16 /\ u[1] = 69 /\ u[3] = x /\ u[4] = y
      /\ u[10] = p /\ u[11] = 0 /\ u[12] = 0
      /\ \A i \in Nat : 1 <= i /\ i <= 4 => u[12 + i] = src[i]
  <2>1. /\ u \in Seq(Byte) /\ Len(u) = Len(t) + Len(src)
        /\ \A i \in Nat : 1 <= i /\ i <= Len(t) => u[i] = t[i]
        /\ \A i \in Nat : Len(t) < i /\ i <= Len(t) + Len(src) => u[i] = src[i - Len(t)]
    BY <1>1, <1>2, <1>5, CatFacts, Zenon
  <2> QED
    BY <1>2, <1>5, <2>1, SMT
<1> HIDE DEF u
<1>7. /\ c \in Seq(Byte) /\ Len(c) = 20 /\ c[1] = 69 /\ c[3] = x /\ c[4] = y
      /\ c[10] = p /\ c[11] = 0 /\ c[12] = 0
      /\ \A i \in Nat : 1 <= i /\ i <= 16 => c[i] = u[i]
      /\ \A i \in Nat : 1 <= i /\ i <= 4 => c[16 + i] = dst[i]
  <2>1. /\ c \in Seq(Byte) /\ Len(c) = Len(u) + Len(dst)
        /\ \A i \in Nat : 1 <= i /\ i <= Len(u) => c[i] = u[i]
        /\ \A i \in Nat : Len(u) < i /\ i <= Len(u) + Len(dst) => c[i] = dst[i - Len(u)]
    BY <1>1, <1>2, <1>6, CatFacts, ZenonT(40)
  <2> QED
    BY <1>2, <1>6, <2>1, SMT
<1> HIDE DEF c
<1>8. \A i \in Nat : 1 <= i /\ i <= 4 => 12 + i \in Nat /\ 1 <= 12 + i /\ 12 + i <= 16
  BY SMT
<1> QED
  BY <1>3, <1>6, <1>7, <1>8 DEF x, y, IsFields
-----------------------------------------------------------------------------
(* Checksum fields in place.                                               *)

\* Sequences with equal bytes are equal.
LEMMA SameBytes ==
    ASSUME NEW a \in Seq(Byte), NEW b \in Seq(Byte), Len(a) = Len(b),
           \A k \in Nat : 1 <= k /\ k <= Len(a) => a[k] = b[k]
    PROVE  a = b
<1> DEFINE n == Len(a)
<1>1. a \in [1..n -> Byte] /\ b \in [1..n -> Byte] /\ n \in Nat
  OBVIOUS
<1>2. \A k \in 1..n : k \in Nat /\ 1 <= k /\ k <= n
  BY <1>1, SMT
<1>3. \A k \in 1..n : a[k] = b[k]
  BY <1>2
<1> QED
  BY <1>1, <1>3, SeqEqual

\* The checksum is that of RFC 1071 and fits its field.
LEMMA CalculateWord ==
    ASSUME NEW data \in Seq(Byte)
    PROVE  Calculate(data) = Rfc1071(data) /\ Rfc1071(data) \in Word
<1>1. Calculate(data) = Rfc1071(data)
  BY CalculateIsRfc1071
<1>2. Rfc1071(data) = Ones - Residue(Total(data)) /\ Residue(Total(data)) \in 0..Ones
  BY TotalFacts, ResidueType
<1> DEFINE r == Residue(Total(data))
<1>3. r \in 0..Ones /\ Ones \in Nat
  BY <1>2, Sizes
<1> HIDE DEF r
<1>4. Ones - r \in 0..Ones
  BY <1>3, SMT
<1> QED
  BY <1>1, <1>2, <1>4 DEF r, Word

\* A word put into a sequence.
LEMMA WordPut ==
    ASSUME NEW a \in Seq(Byte), NEW i \in Nat, i + 2 <= Len(a), NEW v \in Word
    PROVE  LET b == Put(a, i, BeBytes(v))
           IN  /\ b \in Seq(Byte) /\ Len(b) = Len(a) /\ U16(b, i) = v
               /\ \A k \in Nat : 1 <= k /\ k <= Len(a) /\ k # i + 1 /\ k # i + 2 => b[k] = a[k]
<1> DEFINE e == BeBytes(v)
           b == Put(a, i, e)
           n == Len(a)
<1>1. e \in Seq(Byte) /\ Len(e) = 2 /\ e[1] * 256 + e[2] = v
  BY BeBytesOf
<1>2. /\ b \in Seq(Byte) /\ Len(b) = n
      /\ \A k \in Nat : 1 <= k /\ k <= n /\ (k <= i \/ i + Len(e) < k) => b[k] = a[k]
      /\ \A k \in Nat : i < k /\ k <= i + Len(e) => b[k] = e[k - i]
  BY <1>1, PutFacts DEF IsPut
<1> HIDE DEF e, b
<1>3. n \in Nat
  OBVIOUS
<1>4. /\ i + 1 \in Nat /\ i < i + 1 /\ i + 1 <= i + 2 /\ (i + 1) - i = 1
      /\ i + 2 \in Nat /\ i < i + 2 /\ i + 2 <= i + 2 /\ (i + 2) - i = 2
  BY SMT
<1>5. b[i + 1] = e[1] /\ b[i + 2] = e[2]
  BY <1>1, <1>2, <1>4
<1>6. U16(b, i) = v
  BY <1>1, <1>5 DEF U16
<1>7. \A k \in Nat : 1 <= k /\ k <= n /\ k # i + 1 /\ k # i + 2 => k <= i \/ i + 2 < k
  BY <1>3, SMT
<1>8. \A k \in Nat : 1 <= k /\ k <= n /\ k # i + 1 /\ k # i + 2 => b[k] = a[k]
  BY <1>1, <1>2, <1>7
<1> QED
  BY <1>2, <1>6, <1>8 DEF b, e

\* Checksum fields and prefixes are aligned with the words of the sum.
Even(n) == \E m \in Nat : n = 2 * m

\* The offsets that have to be even.
LEMMA EvenNumbers == Even(0) /\ Even(2) /\ Even(6) /\ Even(10) /\ Even(12) /\ Even(16)
<1>1. 0 = 2 * 0 /\ 2 = 2 * 1 /\ 6 = 2 * 3 /\ 10 = 2 * 5 /\ 12 = 2 * 6 /\ 16 = 2 * 8
  BY SMT
<1> QED
  BY <1>1, SMT DEF Even

\* A checksum that was taken over prefix and z, while its field in z was cleared, and then
\* put into the field makes the whole valid.
LEMMA FieldSummed ==
    ASSUME NEW prefix \in Seq(Byte), Even(Len(prefix)),
           NEW z \in Seq(Byte), NEW n \in Nat, n <= Len(z),
           NEW i \in Nat, Even(i), i + 2 <= n, z[i + 1] = 0, z[i + 2] = 0,
           NEW v \in Word,
           \/ v = Rfc1071(Cat(prefix, Slice(z, 0, n)))
           \/ Rfc1071(Cat(prefix, Slice(z, 0, n))) = 0 /\ v = Ones
    PROVE  Rfc1071(Cat(prefix, Slice(Put(z, i, BeBytes(v)), 0, n))) = 0
<1> PICK m \in Nat : Len(prefix) = 2 * m
  BY DEF Even
<1> PICK w \in Nat : i = 2 * w
  BY DEF Even
<1> DEFINE y == Put(z, i, BeBytes(v))
           zn == Slice(z, 0, n)
           yn == Slice(y, 0, n)
           a == Cat(prefix, zn)
           b == Cat(prefix, yn)
           u == m + w + 1
<1>1. Len(z) \in Nat /\ i \in Nat /\ i + 2 <= Len(z) /\ 0 \in Nat /\ 0 <= n
  <2>1. Len(z) \in Nat
    OBVIOUS
  <2> QED
    BY <2>1, SMT
<1>2. /\ y \in Seq(Byte) /\ Len(y) = Len(z) /\ U16(y, i) = v
      /\ \A k \in Nat : 1 <= k /\ k <= Len(z) /\ k # i + 1 /\ k # i + 2 => y[k] = z[k]
  BY <1>1, WordPut
<1> HIDE DEF y
<1>3. /\ zn \in Seq(Byte) /\ Len(zn) = n /\ \A k \in Nat : 1 <= k /\ k <= n => zn[k] = z[k]
      /\ yn \in Seq(Byte) /\ Len(yn) = n /\ \A k \in Nat : 1 <= k /\ k <= n => yn[k] = y[k]
  <2>1. n <= Len(y)
    BY <1>2
  <2> QED
    BY <1>2, <2>1, PrefixFacts, Zenon
<1> HIDE DEF zn, yn
<1>4. /\ a \in Seq(Byte) /\ Len(a) = Len(prefix) + Len(zn)
      /\ \A k \in Nat : 1 <= k /\ k <= Len(prefix) => a[k] = prefix[k]
      /\ \A k \in Nat : Len(prefix) < k /\ k <= Len(prefix) + Len(zn) => a[k] = zn[k - Len(prefix)]
      /\ b \in Seq(Byte) /\ Len(b) = Len(prefix) + Len(yn)
      /\ \A k \in Nat : 1 <= k /\ k <= Len(prefix) => b[k] = prefix[k]
      /\ \A k \in Nat : Len(prefix) < k /\ k <= Len(prefix) + Len(yn) => b[k] = yn[k - Len(prefix)]
  BY <1>3, CatFacts, Zenon
<1> HIDE DEF a, b
<1>5. /\ a \in Seq(Byte) /\ b \in Seq(Byte) /\ Len(a) = 2 * m + n /\ Len(b) = 2 * m + n
      /\ \A k \in Nat : 1 <= k /\ k <= 2 * m => a[k] = b[k]
      /\ \A k \in Nat : 2 * m < k /\ k <= 2 * m + n => a[k] = zn[k - 2 * m] /\ b[k] = yn[k - 2 * m]
  BY <1>3, <1>4, Zenon
<1>6. u \in Nat /\ u >= 1 /\ 2 * u - 1 = 2 * m + (i + 1) /\ 2 * u = 2 * m + (i + 2) /\ 2 * u <= 2 * m + n /\ 2 * u - 1 <= 2 * m + n
  BY SMT
<1>7. ASSUME NEW k \in 1..Len(a), k # 2 * u - 1, k # 2 * u PROVE a[k] = b[k]
  <2>1. CASE k <= 2 * m
    <3>1. k \in Nat /\ 1 <= k
      BY <1>5, SMT
    <3> QED
      BY <1>5, <2>1, <3>1
  <2>2. CASE ~(k <= 2 * m)
    <3> DEFINE j == k - 2 * m
    <3>1. k \in Nat /\ 2 * m < k /\ k <= 2 * m + n /\ j \in Nat /\ 1 <= j /\ j <= n /\ j <= Len(z) /\ j # i + 1 /\ j # i + 2
      BY <1>1, <1>5, <1>6, <1>7, <2>2, SMT
    <3>2. a[k] = zn[j] /\ b[k] = yn[j]
      BY <1>5, <3>1
    <3> HIDE DEF j
    <3> QED
      BY <1>2, <1>3, <3>1, <3>2
  <2> QED
    BY <2>1, <2>2
<1>8. /\ 2 * u - 1 \in Nat /\ 2 * m < 2 * u - 1 /\ (2 * u - 1) - 2 * m = i + 1
      /\ 2 * u \in Nat /\ 2 * m < 2 * u /\ 2 * u - 2 * m = i + 2
      /\ i + 1 \in Nat /\ 1 <= i + 1 /\ i + 1 <= n /\ i + 2 \in Nat /\ 1 <= i + 2 /\ i + 2 <= n
  BY SMT
<1>9. /\ a[2 * u - 1] = 0 /\ a[2 * u] = 0
      /\ b[2 * u - 1] = y[i + 1] /\ b[2 * u] = y[i + 2]
  BY <1>3, <1>5, <1>6, <1>8
<1> HIDE DEF u
<1>10. WordAt(a, u) = 0
  <2>1. ByteAt(a, 2 * u - 1) = 0 /\ ByteAt(a, 2 * u) = 0
    BY <1>5, <1>6, <1>9 DEF ByteAt
  <2>2. WordAt(a, u) = 0 * ByteMod + 0
    BY <2>1 DEF WordAt
  <2> QED
    BY <2>2, Bounds, SMT
<1>11. WordAt(b, u) = v
  <2>1. ByteAt(b, 2 * u - 1) = y[i + 1] /\ ByteAt(b, 2 * u) = y[i + 2]
    BY <1>5, <1>6, <1>9 DEF ByteAt
  <2>2. WordAt(b, u) = y[i + 1] * 256 + y[i + 2]
    BY <2>1, Bounds DEF WordAt
  <2> QED
    BY <1>2, <2>2 DEF U16
<1>12. v = Rfc1071(a) \/ (Rfc1071(a) = 0 /\ v = Ones)
  BY DEF a, zn
<1>13. Rfc1071(b) = 0
  BY <1>5, <1>6, <1>7, <1>10, <1>11, <1>12, ChecksumInserted, ZenonT(40)
<1> QED
  BY <1>13 DEF b, yn, y

\* What the transport checksums are taken over beside the message itself.
Pseudo(src, dst, p, n) == src \o dst \o <<0, p>> \o BeBytes(n)

\* The pseudo-header, byte by byte.
LEMMA PseudoBytes ==
    ASSUME NEW n \in Word, NEW p \in Byte, NEW src \in Addr, NEW dst \in Addr
    PROVE  LET c == Pseudo(src, dst, p, n)
           IN  /\ c \in Seq(Byte) /\ Len(c) = 12
               /\ \A i \in Nat : 1 <= i /\ i <= 4 => c[i] = src[i] /\ c[4 + i] = dst[i]
               /\ c[9] = 0 /\ c[10] = p /\ c[11] = n \div 256 /\ c[12] = n % 256
<1> DEFINE f == <<0, p>>
           b == BeBytes(n)
           s == Cat(src, dst)
           t == Cat(s, f)
           c == Cat(t, b)
           x == n \div 256
           y == n % 256
<1>1. /\ f \in Seq(Byte) /\ Len(f) = 2 /\ f[1] = 0 /\ f[2] = p
  BY Tuples
<1>2. /\ b \in Seq(Byte) /\ Len(b) = 2 /\ b[1] = x /\ b[2] = y
      /\ src \in Seq(Byte) /\ Len(src) = 4 /\ dst \in Seq(Byte) /\ Len(dst) = 4
  BY BeBytesOf DEF Addr
<1>3. Pseudo(src, dst, p, n) = c
  BY DEF Pseudo, Cat
<1> HIDE DEF b, f, x, y
<1>4. /\ s \in Seq(Byte) /\ Len(s) = 8
      /\ \A i \in Nat : 1 <= i /\ i <= 4 => s[i] = src[i] /\ s[4 + i] = dst[i]
  <2>1. /\ s \in Seq(Byte) /\ Len(s) = Len(src) + Len(dst)
        /\ \A i \in Nat : 1 <= i /\ i <= Len(src) => s[i] = src[i]
        /\ \A i \in Nat : Len(src) < i /\ i <= Len(src) + Len(dst) => s[i] = dst[i - Len(src)]
    BY <1>2, CatFacts, Zenon
  <2> QED
    BY <1>2, <2>1, SMT
<1> HIDE DEF s
<1>5. /\ t \in Seq(Byte) /\ Len(t) = 10 /\ t[9] = 0 /\ t[10] = p
      /\ \A i \in Nat : 1 <= i /\ i <= 8 => t[i] = s[i]
  <2>1. /\ t \in Seq(Byte) /\ Len(t) = Len(s) + Len(f)
        /\ \A i \in Nat : 1 <= i /\ i <= Len(s) => t[i] = s[i]
        /\ \A i \in Nat : Len(s) < i /\ i <= Len(s) + Len(f) => t[i] = f[i - Len(s)]
    BY <1>1, <1>4, CatFacts, Zenon
  <2> QED
    BY <1>1, <1>4, <2>1, SMT
<1> HIDE DEF t
<1>6. /\ c \in Seq(Byte) /\ Len(c) = 12 /\ c[11] = x /\ c[12] = y
      /\ \A i \in Nat : 1 <= i /\ i <= 10 => c[i] = t[i]
  <2>1. /\ c \in Seq(Byte) /\ Len(c) = Len(t) + Len(b)
        /\ \A i \in Nat : 1 <= i /\ i <= Len(t) => c[i] = t[i]
        /\ \A i \in Nat : Len(t) < i /\ i <= Len(t) + Len(b) => c[i] = b[i - Len(t)]
    BY <1>2, <1>5, CatFacts, Zenon
  <2> QED
    BY <1>2, <1>5, <2>1, SMT
<1> HIDE DEF c
<1>7. /\ \A i \in Nat : 1 <= i /\ i <= 4 => 1 <= 4 + i /\ 4 + i <= 8 /\ 4 + i \in Nat /\ i <= 8
      /\ \A i \in Nat : 1 <= i /\ i <= 8 => i <= 10
      /\ 9 \in Nat /\ 10 \in Nat /\ 1 <= 9 /\ 1 <= 10 /\ 9 <= 10 /\ 10 <= 10
  BY SMT
<1>8. \A i \in Nat : 1 <= i /\ i <= 8 => c[i] = s[i]
  BY <1>5, <1>6, <1>7
<1>9. \A i \in Nat : 1 <= i /\ i <= 4 => c[i] = src[i] /\ c[4 + i] = dst[i]
  BY <1>4, <1>7, <1>8
<1>10. c[9] = 0 /\ c[10] = p
  BY <1>5, <1>6, <1>7
<1> QED
  BY <1>3, <1>6, <1>9, <1>10 DEF x, y

\* pseudo_hdr_cksum is the checksum of the pseudo-header followed by the message.
LEMMA PseudoCksum ==
    ASSUME NEW data \in Seq(Byte), NEW p \in Byte, NEW src \in Addr, NEW dst \in Addr,
           Len(data) <= Mtu
    PROVE  LET c == Cat(Pseudo(src, dst, p, Len(data)), data)
           IN  /\ c \in Seq(Byte) /\ Rfc1071(c) \in Word
               /\ PseudoHdrCksum(data, src, dst, p) = {Rfc1071(c)}
<1> DEFINE n == Len(data)
           q == Pseudo(src, dst, p, n)
           c == Cat(q, data)
<1>1. n \in Nat
  OBVIOUS
<1>2. n \in Word
  BY <1>1, MtuFacts
<1>3. PseudoHdrCksum(data, src, dst, p) = {Calculate(c)}
  BY DEF PseudoHdrCksum, Pseudo, Cat
<1>4. q \in Seq(Byte)
  BY <1>2, PseudoBytes
<1> HIDE DEF q
<1>5. c \in Seq(Byte)
  BY <1>4, CatFacts
<1> HIDE DEF c
<1>6. Calculate(c) = Rfc1071(c) /\ Rfc1071(c) \in Word
  BY <1>5, CalculateWord
<1> QED
  BY <1>3, <1>5, <1>6 DEF c, q

\* The value of an Ok.
LEMMA OnlyOne == \A x : Only({x}) = x
BY DEF Only

\* A slice of everything, and a concatenation with nothing.
LEMMA Whole ==
    ASSUME NEW data \in Seq(Byte)
    PROVE  Slice(data, 0, Len(data)) = data /\ Cat(<<>>, data) = data
<1> DEFINE n == Len(data)
           s == Slice(data, 0, n)
<1>1. n \in Nat /\ n <= n
  BY SMT
<1>2. s \in Seq(Byte) /\ Len(s) = n /\ \A k \in Nat : 1 <= k /\ k <= n => s[k] = data[k]
  BY <1>1, PrefixFacts
<1>3. s = data
  <2> HIDE DEF s
  <2> QED
    BY <1>2, SameBytes
<1>4. Cat(<<>>, data) = data
  BY DEF Cat
<1> QED
  BY <1>3, <1>4
-----------------------------------------------------------------------------
(* Bytes at an offset.                                                     *)

\* The bytes s are in q from offset i on.
Holds(q, i, s) == \A k \in Nat : 1 <= k /\ k <= Len(s) => q[i + k] = s[k]

\* What has been put is there.
LEMMA PutHolds ==
    ASSUME NEW buf \in Seq(Byte), NEW s \in Seq(Byte), NEW i \in Nat, i + Len(s) <= Len(buf)
    PROVE  /\ Put(buf, i, s) \in Seq(Byte) /\ Len(Put(buf, i, s)) = Len(buf)
           /\ Holds(Put(buf, i, s), i, s)
<1> DEFINE q == Put(buf, i, s)
           n == Len(s)
<1>1. IsPut(q, buf, i, s) /\ n \in Nat
  BY PutFacts
<1> HIDE DEF q
<1>2. /\ q \in Seq(Byte) /\ Len(q) = Len(buf)
      /\ \A k \in Nat : i < k /\ k <= i + n => q[k] = s[k - i]
  BY <1>1 DEF IsPut
<1>3. ASSUME NEW k \in Nat, 1 <= k, k <= n PROVE q[i + k] = s[k]
  <2>1. i + k \in Nat /\ i < i + k /\ i + k <= i + n /\ (i + k) - i = k
    BY <1>1, <1>3, SMT
  <2>2. q[i + k] = s[(i + k) - i]
    BY <1>2, <2>1
  <2> QED
    BY <2>1, <2>2
<1> QED
  BY <1>2, <1>3 DEF Holds, q

\* Writing elsewhere leaves them there.
LEMMA PutKeeps ==
    ASSUME NEW buf \in Seq(Byte), NEW s \in Seq(Byte), NEW i \in Nat, i + Len(s) <= Len(buf),
           NEW t \in Seq(Byte), NEW j \in Nat, j + Len(t) <= Len(buf), Holds(buf, j, t),
           j + Len(t) <= i \/ i + Len(s) <= j
    PROVE  Holds(Put(buf, i, s), j, t)
<1> DEFINE q == Put(buf, i, s)
           n == Len(s)
           m == Len(t)
           b == Len(buf)
<1>1. IsPut(q, buf, i, s) /\ n \in Nat /\ m \in Nat /\ b \in Nat
  BY PutFacts
<1> HIDE DEF q
<1>2. \A k \in Nat : 1 <= k /\ k <= b /\ (k <= i \/ i + n < k) => q[k] = buf[k]
  BY <1>1 DEF IsPut
<1>3. ASSUME NEW k \in Nat, 1 <= k, k <= m PROVE q[j + k] = t[k]
  <2>1. j + k \in Nat /\ 1 <= j + k /\ j + k <= b /\ (j + k <= i \/ i + n < j + k)
    BY <1>1, <1>3, SMT
  <2>2. q[j + k] = buf[j + k]
    BY <1>2, <2>1
  <2>3. buf[j + k] = t[k]
    BY <1>3 DEF Holds
  <2> QED
    BY <2>2, <2>3
<1> QED
  BY <1>3 DEF Holds, q

\* Where a concatenation is, both its parts are.
LEMMA HoldsCat ==
    ASSUME NEW q, NEW i \in Nat, NEW s \in Seq(Byte), NEW t \in Seq(Byte), Holds(q, i, Cat(s, t))
    PROVE  Holds(q, i, s) /\ Holds(q, i + Len(s), t)
<1> DEFINE c == Cat(s, t)
           m == Len(s)
           n == Len(t)
<1>1. /\ c \in Seq(Byte) /\ Len(c) = m + n
      /\ \A k \in Nat : 1 <= k /\ k <= m => c[k] = s[k]
      /\ \A k \in Nat : m < k /\ k <= m + n => c[k] = t[k - m]
      /\ m \in Nat /\ n \in Nat
  <2>1. m \in Nat /\ n \in Nat
    OBVIOUS
  <2> QED
    BY <2>1, CatFacts, Zenon
<1> HIDE DEF c
<1>2. \A k \in Nat : 1 <= k /\ k <= m + n => q[i + k] = c[k]
  BY <1>1 DEF Holds, c
<1>3. ASSUME NEW k \in Nat, 1 <= k, k <= m PROVE q[i + k] = s[k]
  <2>1. k <= m + n
    BY <1>1, <1>3, SMT
  <2> QED
    BY <1>1, <1>2, <1>3, <2>1
<1>4. ASSUME NEW k \in Nat, 1 <= k, k <= n PROVE q[(i + m) + k] = t[k]
  <2>1. m + k \in Nat /\ 1 <= m + k /\ m < m + k /\ m + k <= m + n /\ (m + k) - m = k /\ (i + m) + k = i + (m + k)
    BY <1>1, <1>4, SMT
  <2>2. q[i + (m + k)] = c[m + k]
    BY <1>2, <2>1
  <2>3. c[m + k] = t[(m + k) - m]
    BY <1>1, <2>1
  <2> QED
    BY <2>1, <2>2, <2>3
<1> QED
  BY <1>3, <1>4 DEF Holds

\* The same bytes behind a prefix of another sequence, or at the front of it.
LEMMA CatHolds ==
    ASSUME NEW a \in Seq(Byte), NEW b \in Seq(Byte), NEW s \in Seq(Byte), NEW i \in Nat
    PROVE  /\ i + Len(s) <= Len(a) /\ Holds(a, i, s) => Holds(Cat(a, b), i, s)
           /\ i + Len(s) <= Len(b) /\ Holds(b, i, s) => Holds(Cat(a, b), Len(a) + i, s)
<1> DEFINE c == Cat(a, b)
           m == Len(a)
           n == Len(b)
           l == Len(s)
<1>1. /\ \A k \in Nat : 1 <= k /\ k <= m => c[k] = a[k]
      /\ \A k \in Nat : m < k /\ k <= m + n => c[k] = b[k - m]
      /\ m \in Nat /\ n \in Nat /\ l \in Nat
  <2>1. m \in Nat /\ n \in Nat /\ l \in Nat
    OBVIOUS
  <2> QED
    BY <2>1, CatFacts, Zenon
<1> HIDE DEF c
<1>2. ASSUME i + l <= m, Holds(a, i, s), NEW k \in Nat, 1 <= k, k <= l PROVE c[i + k] = s[k]
  <2>1. i + k \in Nat /\ 1 <= i + k /\ i + k <= m
    BY <1>1, <1>2, SMT
  <2>2. a[i + k] = s[k]
    BY <1>2 DEF Holds
  <2> QED
    BY <1>1, <2>1, <2>2
<1>3. ASSUME i + l <= n, Holds(b, i, s), NEW k \in Nat, 1 <= k, k <= l PROVE c[(m + i) + k] = s[k]
  <2> DEFINE j == (m + i) + k
  <2>1. j \in Nat /\ m < j /\ j <= m + n /\ j - m = i + k
    BY <1>1, <1>3, SMT
  <2>2. b[i + k] = s[k]
    BY <1>3 DEF Holds
  <2> HIDE DEF j
  <2>3. c[j] = b[j - m]
    BY <1>1, <2>1
  <2>4. c[j] = s[k]
    BY <2>1, <2>2, <2>3
  <2> QED
    BY <2>4 DEF j
<1> QED
  BY <1>2, <1>3 DEF Holds, c

\* The bytes of a word read back as the word.
LEMMA HoldsWord ==
    ASSUME NEW q, NEW i \in Nat, NEW v \in Word, Holds(q, i, BeBytes(v))
    PROVE  U16(q, i) = v
<1> DEFINE e == BeBytes(v)
<1>1. e \in Seq(Byte) /\ Len(e) = 2 /\ e[1] * 256 + e[2] = v
  BY BeBytesOf
<1>2. 1 \in Nat /\ 2 \in Nat /\ 1 <= 1 /\ 1 <= 2 /\ 2 <= 2
  BY SMT
<1> HIDE DEF e
<1>3. Holds(q, i, e)
  BY DEF e
<1>4. q[i + 1] = e[1] /\ q[i + 2] = e[2]
  BY <1>1, <1>2, <1>3 DEF Holds
<1> QED
  BY <1>1, <1>4 DEF U16

\* Cutting a sequence behind them leaves them there, and cutting them out returns them.
LEMMA HoldsSlice ==
    ASSUME NEW q \in Seq(Byte), NEW i \in Nat, NEW s \in Seq(Byte), Holds(q, i, s),
           NEW n \in Nat, n <= Len(q), i + Len(s) <= n
    PROVE  Holds(Slice(q, 0, n), i, s)
<1> DEFINE p == Slice(q, 0, n)
           m == Len(s)
<1>1. (\A k \in Nat : 1 <= k /\ k <= n => p[k] = q[k]) /\ m \in Nat
  BY PrefixFacts
<1> HIDE DEF p
<1>2. ASSUME NEW k \in Nat, 1 <= k, k <= m PROVE p[i + k] = s[k]
  <2>1. i + k \in Nat /\ 1 <= i + k /\ i + k <= n
    BY <1>1, <1>2, SMT
  <2>2. q[i + k] = s[k]
    BY <1>2 DEF Holds
  <2> QED
    BY <1>1, <2>1, <2>2
<1> QED
  BY <1>2 DEF Holds, p

\* The slice at which bytes are is these bytes.
LEMMA SliceHolds ==
    ASSUME NEW q \in Seq(Byte), NEW i \in Nat, NEW j \in Nat, NEW s \in Seq(Byte),
           Holds(q, i, s), j = i + Len(s), j <= Len(q)
    PROVE  Slice(q, i, j) = s
<1> DEFINE p == Slice(q, i, j)
           m == Len(s)
<1>1. m \in Nat /\ i <= j /\ j - i = m
  <2>1. m \in Nat
    OBVIOUS
  <2> QED
    BY <2>1, SMT
<1>2. /\ p \in Seq(Byte) /\ Len(p) = j - i
      /\ \A k \in Nat : 1 <= k /\ k <= j - i => p[k] = q[i + k]
  BY <1>1, SliceFacts
<1> HIDE DEF p
<1>3. Len(p) = m /\ \A k \in Nat : 1 <= k /\ k <= m => p[k] = q[i + k]
  BY <1>1, <1>2
<1>4. \A k \in Nat : 1 <= k /\ k <= m => p[k] = s[k]
  BY <1>3 DEF Holds
<1>5. p = s
  BY <1>2, <1>3, <1>4, SameBytes
<1> QED
  BY <1>5 DEF p

-----------------------------------------------------------------------------
(* Headers.                                                                *)

\* A header of 20 bytes that announces n bytes of protocol p from src to dst.
HeaderOf(h, n, p, src, dst) ==
    /\ h \in Seq(Byte) /\ Len(h) = 20 /\ h[1] = 69 /\ U16(h, 2) = n /\ h[10] = p
    /\ Holds(h, 12, src) /\ Holds(h, 16, dst)
    /\ Rfc1071(h) = 0

\* The header that is written is complete and sums to 0.
LEMMA Ipv4Written ==
    ASSUME NEW hdr \in Seq(Byte), Len(hdr) = 20, NEW msg, TotalLen(msg) \in Word,
           msg.proto \in Byte, msg.src \in Addr, msg.dst \in Addr
    PROVE  HeaderOf(WriteIpv4(hdr, msg), TotalLen(msg), msg.proto, msg.src, msg.dst)
<1> DEFINE n == TotalLen(msg)
           p == msg.proto
           src == msg.src
           dst == msg.dst
           c == Ipv4Fields(n, p, src, dst)
           z == Put(hdr, 0, c)
           v == Calculate(z)
           h == Put(z, 10, BeBytes(v))
<1>1. WriteIpv4(hdr, msg) = h
  BY DEF WriteIpv4, Ipv4Fields
<1>2. n \in Word /\ p \in Byte /\ src \in Addr /\ dst \in Addr
  OBVIOUS
<1> HIDE DEF n, p, src, dst
<1>3. /\ c \in Seq(Byte) /\ Len(c) = 20
      /\ c[1] = 69 /\ c[10] = p /\ c[11] = 0 /\ c[12] = 0
      /\ c[3] = n \div 256 /\ c[4] = n % 256
      /\ \A i \in Nat : 1 <= i /\ i <= 4 => c[12 + i] = src[i] /\ c[16 + i] = dst[i]
  <2>1. IsFields(c, n, p, src, dst)
    BY <1>2, Ipv4Bytes
  <2> QED
    BY <2>1 DEF IsFields
<1> HIDE DEF c
<1>4. z = c
  <2>1. 0 \in Nat /\ 0 + Len(c) <= Len(hdr)
    BY <1>3, SMT
  <2>2. IsPut(z, hdr, 0, c)
    BY <1>3, <2>1, PutFacts
  <2> HIDE DEF z
  <2>3. z \in Seq(Byte) /\ Len(z) = Len(c) /\ \A k \in Nat : 0 < k /\ k <= 0 + 20 => z[k] = c[k - 0]
    BY <1>3, <2>2 DEF IsPut
  <2>4. \A k \in Nat : 1 <= k /\ k <= 20 => 0 < k /\ k <= 0 + 20 /\ k - 0 = k
    BY SMT
  <2>5. \A k \in Nat : 1 <= k /\ k <= 20 => z[k] = c[k]
    <3> SUFFICES ASSUME NEW k \in Nat, 1 <= k, k <= 20 PROVE z[k] = c[k]
      OBVIOUS
    <3>1. z[k] = c[k - 0] /\ k - 0 = k
      BY <2>3, <2>4
    <3> QED
      BY <3>1
  <2>6. \A k \in Nat : 1 <= k /\ k <= Len(z) => z[k] = c[k]
    BY <1>3, <2>3, <2>5
  <2> QED
    BY <1>3, <2>3, <2>6, SameBytes, ZenonT(40)
<1> HIDE DEF z
<1>5. v = Rfc1071(z) /\ v \in Word
  BY <1>3, <1>4, CalculateWord
<1> HIDE DEF v
<1>6. /\ h \in Seq(Byte) /\ Len(h) = 20
      /\ \A k \in Nat : 1 <= k /\ k <= 20 /\ k # 11 /\ k # 12 => h[k] = c[k]
  <2>0. Len(z) = 20 /\ z \in Seq(Byte)
    BY <1>3, <1>4
  <2>1. 10 \in Nat /\ 10 + 2 <= Len(z) /\ 10 + 1 = 11 /\ 10 + 2 = 12
    BY <2>0, SMT
  <2>2. /\ h \in Seq(Byte) /\ Len(h) = Len(z)
        /\ \A k \in Nat : 1 <= k /\ k <= Len(z) /\ k # 10 + 1 /\ k # 10 + 2 => h[k] = z[k]
    BY <1>5, <2>0, <2>1, WordPut, ZenonT(40)
  <2> QED
    BY <1>4, <2>0, <2>1, <2>2
<1>7. Rfc1071(h) = 0
  <2> DEFINE e == <<>>
  <2>1. e \in Seq(Byte) /\ Even(Len(e)) /\ Even(10)
    BY EvenNumbers
  <2>9. 10 \in Nat /\ 20 \in Nat /\ 10 + 2 <= 20 /\ 10 + 1 = 11 /\ 10 + 2 = 12 /\ 20 <= 20
    BY SMT
  <2>2. Cat(e, Slice(z, 0, 20)) = z /\ Cat(e, Slice(h, 0, 20)) = h
    BY <1>3, <1>4, <1>6, Whole, ZenonT(40)
  <2>3. z[10 + 1] = 0 /\ z[10 + 2] = 0 /\ z \in Seq(Byte) /\ Len(z) = 20
    BY <1>3, <1>4, <2>9
  <2> HIDE DEF e
  <2>4. v = Rfc1071(Cat(e, Slice(z, 0, 20)))
    BY <1>5, <2>2
  <2>5. Rfc1071(Cat(e, Slice(Put(z, 10, BeBytes(v)), 0, 20))) = 0
    <3>1. 20 <= Len(z)
      BY <2>3, <2>9
    <3> QED
      BY <1>5, <2>1, <2>3, <2>4, <2>9, <3>1, FieldSummed, ZenonT(40)
  <2> QED
    BY <2>2, <2>5
<1> HIDE DEF h
<1>8. h[1] = 69 /\ h[3] = n \div 256 /\ h[4] = n % 256 /\ h[10] = p
  BY <1>3, <1>6, SMT
<1>9. U16(h, 2) = n
  <2>1. U16(h, 2) = h[3] * 256 + h[4]
    BY SMT DEF U16
  <2> QED
    BY <1>2, <1>8, <2>1, BeBytesOf
<1>10. \A i \in Nat : 1 <= i /\ i <= 4 => h[12 + i] = src[i] /\ h[16 + i] = dst[i]
  <2>1. \A i \in Nat : 1 <= i /\ i <= 4 =>
          /\ 12 + i \in Nat /\ 1 <= 12 + i /\ 12 + i <= 20 /\ 12 + i # 11 /\ 12 + i # 12
          /\ 16 + i \in Nat /\ 1 <= 16 + i /\ 16 + i <= 20 /\ 16 + i # 11 /\ 16 + i # 12
    BY SMT
  <2> QED
    BY <1>3, <1>6, <2>1, ZenonT(40)
<1>11. Holds(h, 12, src) /\ Holds(h, 16, dst)
  <2>1. Len(src) = 4 /\ Len(dst) = 4
    BY <1>2 DEF Addr
  <2> QED
    BY <1>10, <2>1 DEF Holds
<1> QED
  BY <1>1, <1>6, <1>7, <1>8, <1>9, <1>11 DEF HeaderOf, n, p, src, dst
-----------------------------------------------------------------------------
(* Messages.                                                               *)

\* The messages that are written, c being all of their bytes.
UdpBody(c, msg) ==
    /\ c \in Seq(Byte) /\ Len(c) = ProtoLen(msg)
    /\ Holds(c, 0, BeBytes(msg.sport)) /\ Holds(c, 2, BeBytes(msg.dport))
    /\ Holds(c, 4, BeBytes(ProtoLen(msg)))
    /\ U16(c, 6) # 0 /\ Holds(c, 8, msg.payload)
    /\ Rfc1071(Cat(Pseudo(msg.src, msg.dst, Udp, ProtoLen(msg)), c)) = 0

IcmpBody(c, msg) ==
    /\ c \in Seq(Byte) /\ Len(c) = ProtoLen(msg)
    /\ Holds(c, 0, <<msg.type, 0>>)
    /\ Holds(c, 4, BeBytes(msg.id)) /\ Holds(c, 6, BeBytes(msg.seq))
    /\ Holds(c, 8, msg.payload)
    /\ Rfc1071(c) = 0

TcpBody(c, msg) ==
    /\ c \in Seq(Byte) /\ Len(c) = ProtoLen(msg)
    /\ Holds(c, 0, BeBytes(msg.sport)) /\ Holds(c, 2, BeBytes(msg.dport))
    /\ Holds(c, 4, msg.seq) /\ Holds(c, 8, msg.ack)
    /\ Holds(c, 12, <<80, msg.flags>>) /\ Holds(c, 14, BeBytes(msg.window))
    /\ Holds(c, 20, msg.payload)
    /\ Rfc1071(Cat(Pseudo(msg.src, msg.dst, Tcp, ProtoLen(msg)), c)) = 0

\* A checksum field before it is filled in.
LEMMA Zeros == <<0, 0>> \in Seq(Byte) /\ Len(<<0, 0>>) = 2
<1>1. 0 \in Byte
  BY Bounds, SMT DEF Byte
<1> QED
  BY <1>1

\* It is two bytes of 0.
LEMMA HoldsZeros ==
    ASSUME NEW q, NEW i \in Nat, Holds(q, i, <<0, 0>>)
    PROVE  q[i + 1] = 0 /\ q[i + 2] = 0
<1> DEFINE e == <<0, 0>>
<1>1. Len(e) = 2 /\ e[1] = 0 /\ e[2] = 0
  OBVIOUS
<1>2. 1 \in Nat /\ 2 \in Nat /\ 1 <= 1 /\ 1 <= 2 /\ 2 <= 2
  BY SMT
<1>3. Holds(q, i, e)
  OBVIOUS
<1> HIDE DEF e
<1> QED
  BY <1>1, <1>2, <1>3 DEF Holds

\* w is z with the word v in the field at offset o, which makes its first n bytes valid.
Completed(w, prefix, z, n, o, v) ==
    LET c == Slice(w, 0, n)
    IN  /\ w \in Seq(Byte) /\ Len(w) = Len(z)
        /\ c \in Seq(Byte) /\ Len(c) = n /\ Holds(c, o, BeBytes(v))
        /\ \A t \in Seq(Byte) : \A j \in Nat :
              (Holds(z, j, t) /\ j + Len(t) <= n /\ (j + Len(t) <= o \/ o + 2 <= j))
                 => Holds(c, j, t)
        /\ Rfc1071(Cat(prefix, c)) = 0

\* The last step of writing a message: the checksum goes into its field at offset o.
LEMMA ChecksumWritten ==
    ASSUME NEW prefix \in Seq(Byte), Even(Len(prefix)),
           NEW z \in Seq(Byte), NEW n \in Nat, n <= Len(z),
           NEW o \in Nat, Even(o), o + 2 <= n, Holds(z, o, <<0, 0>>), NEW v \in Word,
           \/ v = Rfc1071(Cat(prefix, Slice(z, 0, n)))
           \/ Rfc1071(Cat(prefix, Slice(z, 0, n))) = 0 /\ v = Ones
    PROVE  Completed(Put(z, o, BeBytes(v)), prefix, z, n, o, v)
<1> DEFINE e == BeBytes(v)
           w == Put(z, o, e)
           c == Slice(w, 0, n)
<1>1. e \in Seq(Byte) /\ Len(e) = 2
  BY BeBytesOf
<1>2. Len(z) \in Nat /\ o + 2 <= Len(z)
  <2>1. Len(z) \in Nat
    OBVIOUS
  <2> QED
    BY <2>1, SMT
<1>3. Rfc1071(Cat(prefix, c)) = 0
  <2>1. z[o + 1] = 0 /\ z[o + 2] = 0
    BY HoldsZeros
  <2> QED
    BY <2>1, FieldSummed
<1> HIDE DEF e
<1>4. w \in Seq(Byte) /\ Len(w) = Len(z) /\ Holds(w, o, e)
  BY <1>1, <1>2, PutHolds
<1>5. ASSUME NEW t \in Seq(Byte), NEW j \in Nat, Holds(z, j, t), j + Len(t) <= n,
             j + Len(t) <= o \/ o + 2 <= j
      PROVE  Holds(c, j, t)
  <2>1. Len(t) \in Nat /\ j + Len(t) <= Len(z)
    <3>1. Len(t) \in Nat
      OBVIOUS
    <3> QED
      BY <1>2, <1>5, <3>1, SMT
  <2>2. o + Len(e) <= Len(z) /\ (j + Len(t) <= o \/ o + Len(e) <= j)
    BY <1>1, <1>2, <1>5
  <2>3. Holds(w, j, t)
    BY <1>1, <1>5, <2>1, <2>2, PutKeeps
  <2> HIDE DEF w
  <2>4. n <= Len(w)
    BY <1>4
  <2> QED
    BY <1>4, <1>5, <2>3, <2>4, HoldsSlice
<1> HIDE DEF w
<1>6. n <= Len(w) /\ o + Len(e) <= n
  BY <1>1, <1>4
<1>7. c \in Seq(Byte) /\ Len(c) = n
  BY <1>4, <1>6, PrefixFacts
<1>8. Holds(c, o, e)
  BY <1>1, <1>4, <1>6, HoldsSlice
<1> HIDE DEF c
<1> QED
  BY <1>3, <1>4, <1>5, <1>7, <1>8 DEF Completed, c, w, e

\* UdpDatagram::write_into leaves the message and its checksum, and nothing older.
LEMMA UdpWritten ==
    ASSUME NEW body \in Seq(Byte), NEW msg, msg.proto = Udp, msg.payload \in Seq(Byte),
           msg.sport \in Word, msg.dport \in Word, msg.src \in Addr, msg.dst \in Addr,
           ProtoLen(msg) <= Len(body), Len(body) <= Mtu
    PROVE  /\ WriteUdp(body, msg) \in Seq(Byte) /\ Len(WriteUdp(body, msg)) = Len(body)
           /\ UdpBody(Slice(WriteUdp(body, msg), 0, ProtoLen(msg)), msg)
<1> DEFINE n == ProtoLen(msg)
           pl == msg.payload
           src == msg.src
           dst == msg.dst
           l == Len(pl)
           sp == BeBytes(msg.sport)
           dp == BeBytes(msg.dport)
           ln == BeBytes(n)
           f == Cat(Cat(sp, dp), ln)
           b == Put(body, 0, f)
           a == Put(b, 8, pl)
           z == Put(a, 6, <<0, 0>>)
           zn == Slice(z, 0, n)
           q == Pseudo(src, dst, Udp, n)
           ck == Only(PseudoHdrCksum(zn, src, dst, Udp))
           v == IF ck = 0 THEN Ones ELSE ck
           w == Put(z, 6, BeBytes(v))
           c == Slice(w, 0, n)
<1>1. WriteUdp(body, msg) = w
  <2>1. Ones = 65535
    BY Bounds
  <2> QED
    BY <2>1, SMT DEF WriteUdp, Cat
<1>2. /\ l \in Nat /\ Len(body) \in Nat /\ n = 8 + l /\ n \in Nat /\ n <= Len(body) /\ n <= Mtu
      /\ 0 + 6 <= Len(body) /\ 6 + 2 <= Len(body) /\ 8 + l <= Len(body)
  <2>1. l \in Nat /\ Len(body) \in Nat
    OBVIOUS
  <2>2. n = 8 + l
    BY DEF ProtoLen, HdrLen, Udp, Tcp
  <2> QED
    BY <2>1, <2>2, MtuFacts, SMT
<1>3. n \in Word
  BY <1>2, MtuFacts
<1>4. /\ sp \in Seq(Byte) /\ Len(sp) = 2 /\ dp \in Seq(Byte) /\ Len(dp) = 2
      /\ ln \in Seq(Byte) /\ Len(ln) = 2
  BY <1>3, BeBytesOf
<1>5. pl \in Seq(Byte) /\ src \in Addr /\ dst \in Addr
  OBVIOUS
<1> HIDE DEF sp, dp, ln, n, l, pl, src, dst
<1>6. Cat(sp, dp) \in Seq(Byte) /\ Len(Cat(sp, dp)) = 4 /\ f \in Seq(Byte) /\ Len(f) = 6
  <2>1. Cat(sp, dp) \in Seq(Byte) /\ Len(Cat(sp, dp)) = Len(sp) + Len(dp)
    BY <1>4, CatLen
  <2>2. f \in Seq(Byte) /\ Len(f) = Len(Cat(sp, dp)) + Len(ln)
    BY <1>4, <2>1, CatLen
  <2> QED
    BY <1>4, <2>1, <2>2
<1> HIDE DEF f
<1>7. b \in Seq(Byte) /\ Len(b) = Len(body) /\ Holds(b, 0, f)
  BY <1>2, <1>6, PutHolds
<1> HIDE DEF b
<1>8. a \in Seq(Byte) /\ Len(a) = Len(body) /\ Holds(a, 8, pl) /\ Holds(a, 0, f)
  <2>1. 8 + Len(pl) <= Len(b) /\ 0 + Len(f) <= Len(b) /\ 0 + Len(f) <= 8 /\ 0 \in Nat /\ 8 \in Nat
    BY <1>2, <1>6, <1>7 DEF l
  <2> QED
    BY <1>5, <1>6, <1>7, <2>1, PutHolds, PutKeeps
<1> HIDE DEF a
<1>9. z \in Seq(Byte) /\ Len(z) = Len(body) /\ Holds(z, 6, <<0, 0>>) /\ Holds(z, 8, pl) /\ Holds(z, 0, f)
  <2> DEFINE e == <<0, 0>>
  <2>1. e \in Seq(Byte) /\ Len(e) = 2
    BY Zeros
  <2> HIDE DEF e
  <2>2. /\ 8 + Len(pl) <= Len(a) /\ 0 + Len(f) <= Len(a) /\ 0 + Len(f) <= 6 /\ 0 \in Nat /\ 8 \in Nat
        /\ 6 \in Nat /\ 6 + Len(e) <= Len(a) /\ 6 + Len(e) <= 8
    BY <1>2, <1>6, <1>8, <2>1 DEF l
  <2>3. Put(a, 6, e) \in Seq(Byte) /\ Len(Put(a, 6, e)) = Len(a) /\ Holds(Put(a, 6, e), 6, e)
    BY <1>8, <2>1, <2>2, PutHolds
  <2>4. Holds(Put(a, 6, e), 8, pl)
    BY <1>5, <1>8, <2>1, <2>2, PutKeeps
  <2>5. Holds(Put(a, 6, e), 0, f)
    BY <1>6, <1>8, <2>1, <2>2, PutKeeps
  <2> QED
    BY <1>8, <2>3, <2>4, <2>5 DEF e
<1> HIDE DEF z
<1>10. zn \in Seq(Byte) /\ Len(zn) = n
  <2>1. z \in Seq(Byte) /\ n \in Nat /\ n <= Len(z)
    BY <1>2, <1>9
  <2> QED
    BY <2>1, PrefixFacts
<1> HIDE DEF zn
<1>11. Udp \in Byte
  BY ByteNat DEF Udp
<1>12. q \in Seq(Byte) /\ Len(q) = 12
  BY <1>3, <1>5, <1>11, PseudoBytes
<1>13. ck = Rfc1071(Cat(q, zn)) /\ ck \in Word
  <2>1. PseudoHdrCksum(zn, src, dst, Udp) = {Rfc1071(Cat(q, zn))} /\ Rfc1071(Cat(q, zn)) \in Word
    <3>1. Len(zn) <= Mtu
      BY <1>2, <1>10
    <3>2. LET d == Cat(Pseudo(src, dst, Udp, Len(zn)), zn)
          IN  PseudoHdrCksum(zn, src, dst, Udp) = {Rfc1071(d)} /\ Rfc1071(d) \in Word
      BY <1>5, <1>10, <1>11, <3>1, PseudoCksum, ZenonT(40)
    <3> QED
      BY <1>10, <3>2
  <2> QED
    BY <2>1, OnlyOne
<1> HIDE DEF q, ck
<1>14. v \in Word /\ v # 0 /\ (v = Rfc1071(Cat(q, zn)) \/ (Rfc1071(Cat(q, zn)) = 0 /\ v = Ones))
  <2>1. Ones \in Word /\ Ones # 0
    BY Sizes, SMT DEF Word
  <2> QED
    BY <1>13, <2>1
<1> HIDE DEF v
<1>15. Completed(w, q, z, n, 6, v)
  <2>1. Even(Len(q)) /\ Even(6) /\ 6 \in Nat /\ 6 + 2 <= n /\ n <= Len(z)
    BY <1>2, <1>9, <1>12, EvenNumbers
  <2>2. v = Rfc1071(Cat(q, Slice(z, 0, n))) \/ (Rfc1071(Cat(q, Slice(z, 0, n))) = 0 /\ v = Ones)
    BY <1>14 DEF zn
  <2>3. q \in Seq(Byte) /\ z \in Seq(Byte) /\ n \in Nat /\ v \in Word /\ Holds(z, 6, <<0, 0>>)
    BY <1>2, <1>9, <1>12, <1>14
  <2> QED
    BY <2>1, <2>2, <2>3, ChecksumWritten
<1> HIDE DEF w
<1>16. /\ w \in Seq(Byte) /\ Len(w) = Len(body) /\ c \in Seq(Byte) /\ Len(c) = n
       /\ Holds(c, 6, BeBytes(v)) /\ Rfc1071(Cat(q, c)) = 0
       /\ \A t \in Seq(Byte) : \A j \in Nat :
              (Holds(z, j, t) /\ j + Len(t) <= n /\ (j + Len(t) <= 6 \/ 6 + 2 <= j))
                 => Holds(c, j, t)
  BY <1>9, <1>15 DEF Completed
<1> HIDE DEF c
<1>17. Holds(c, 8, pl) /\ Holds(c, 0, f)
  <2>1. /\ 0 \in Nat /\ 8 \in Nat /\ 8 + Len(pl) <= n /\ 6 + 2 <= 8
        /\ 0 + Len(f) <= n /\ 0 + Len(f) <= 6
    BY <1>2, <1>6 DEF l
  <2> QED
    BY <1>5, <1>6, <1>9, <1>16, <2>1
<1>18. Holds(c, 0, sp) /\ Holds(c, 2, dp) /\ Holds(c, 4, ln)
  <2>1. 0 \in Nat /\ 0 + 4 = 4 /\ 0 + 2 = 2
    BY SMT
  <2>2. Holds(c, 0, Cat(Cat(sp, dp), ln))
    BY <1>17 DEF f
  <2>3. Holds(c, 0, Cat(sp, dp)) /\ Holds(c, 0 + Len(Cat(sp, dp)), ln)
    BY <1>4, <1>6, <2>1, <2>2, HoldsCat
  <2>4. Holds(c, 0, sp) /\ Holds(c, 0 + Len(sp), dp)
    BY <1>4, <2>1, <2>3, HoldsCat
  <2> QED
    BY <1>4, <1>6, <2>1, <2>3, <2>4
<1>19. U16(c, 6) # 0
  <2>1. U16(c, 6) = v
    BY <1>14, <1>16, HoldsWord
  <2> QED
    BY <1>14, <2>1
<1> QED
  BY <1>1, <1>16, <1>17, <1>18, <1>19 DEF UdpBody, c, q, sp, dp, ln, n, pl, src, dst

\* So does IcmpEchoMsg::write_into,
LEMMA IcmpWritten ==
    ASSUME NEW body \in Seq(Byte), NEW msg, msg.proto = Icmp, msg.payload \in Seq(Byte),
           msg.type \in Byte, msg.id \in Word, msg.seq \in Word,
           ProtoLen(msg) <= Len(body), Len(body) <= Mtu
    PROVE  /\ WriteIcmp(body, msg) \in Seq(Byte) /\ Len(WriteIcmp(body, msg)) = Len(body)
           /\ IcmpBody(Slice(WriteIcmp(body, msg), 0, ProtoLen(msg)), msg)
<1> DEFINE n == ProtoLen(msg)
           pl == msg.payload
           l == Len(pl)
           ty == <<msg.type, 0>>
           id == BeBytes(msg.id)
           sq == BeBytes(msg.seq)
           o == <<0, 0>>
           f == Cat(id, sq)
           b == Put(body, 8, pl)
           y == Put(b, 0, ty)
           a == Put(y, 2, o)
           z == Put(a, 4, f)
           zn == Slice(z, 0, n)
           v == Calculate(zn)
           w == Put(z, 2, BeBytes(v))
           c == Slice(w, 0, n)
<1>1. WriteIcmp(body, msg) = w
  BY DEF WriteIcmp, Cat
<1>2. /\ l \in Nat /\ Len(body) \in Nat /\ n = 8 + l /\ n \in Nat /\ n <= Len(body)
      /\ 8 <= n /\ 8 <= Len(body) /\ 8 + l <= Len(body)
  <2>1. l \in Nat /\ Len(body) \in Nat
    OBVIOUS
  <2>2. n = 8 + l
    BY DEF ProtoLen, HdrLen, Icmp, Tcp
  <2> QED
    BY <2>1, <2>2, SMT
<1>3. /\ id \in Seq(Byte) /\ Len(id) = 2 /\ sq \in Seq(Byte) /\ Len(sq) = 2
      /\ ty \in Seq(Byte) /\ Len(ty) = 2 /\ o \in Seq(Byte) /\ Len(o) = 2
      /\ pl \in Seq(Byte) /\ Len(pl) = l
  BY BeBytesOf, Tuples
<1> HIDE DEF id, sq, ty, n, l, pl, o
<1>4. f \in Seq(Byte) /\ Len(f) = 4
  <2>1. f \in Seq(Byte) /\ Len(f) = Len(id) + Len(sq)
    BY <1>3, CatLen
  <2> QED
    BY <1>3, <2>1
<1> HIDE DEF f
<1>5. b \in Seq(Byte) /\ Len(b) = Len(body) /\ Holds(b, 8, pl)
  BY <1>2, <1>3, PutHolds
<1> HIDE DEF b
<1>6. y \in Seq(Byte) /\ Len(y) = Len(body) /\ Holds(y, 0, ty) /\ Holds(y, 8, pl)
  <2>1. /\ 0 \in Nat /\ 8 \in Nat /\ 0 + Len(ty) <= Len(b) /\ 8 + Len(pl) <= Len(b) /\ 0 + Len(ty) <= 8
    BY <1>2, <1>3, <1>5
  <2>2. y \in Seq(Byte) /\ Len(y) = Len(b) /\ Holds(y, 0, ty)
    BY <1>3, <1>5, <2>1, PutHolds
  <2>3. Holds(y, 8, pl)
    BY <1>3, <1>5, <2>1, PutKeeps
  <2> QED
    BY <1>5, <2>2, <2>3
<1> HIDE DEF y
<1>7. a \in Seq(Byte) /\ Len(a) = Len(body) /\ Holds(a, 2, o) /\ Holds(a, 0, ty) /\ Holds(a, 8, pl)
  <2>1. /\ 0 \in Nat /\ 2 \in Nat /\ 8 \in Nat /\ 0 + Len(ty) <= Len(y) /\ 8 + Len(pl) <= Len(y)
        /\ 2 + Len(o) <= Len(y) /\ 0 + Len(ty) <= 2 /\ 2 + Len(o) <= 8
    BY <1>2, <1>3, <1>6
  <2>2. a \in Seq(Byte) /\ Len(a) = Len(y) /\ Holds(a, 2, o)
    BY <1>3, <1>6, <2>1, PutHolds
  <2>3. Holds(a, 8, pl)
    BY <1>3, <1>6, <2>1, PutKeeps
  <2>4. Holds(a, 0, ty)
    BY <1>3, <1>6, <2>1, PutKeeps
  <2> QED
    BY <1>6, <2>2, <2>3, <2>4
<1> HIDE DEF a
<1>8. /\ z \in Seq(Byte) /\ Len(z) = Len(body) /\ Holds(z, 4, f)
      /\ Holds(z, 2, o) /\ Holds(z, 0, ty) /\ Holds(z, 8, pl)
  <2>1. /\ 0 \in Nat /\ 2 \in Nat /\ 4 \in Nat /\ 8 \in Nat
        /\ 0 + Len(ty) <= Len(a) /\ 8 + Len(pl) <= Len(a) /\ 2 + Len(o) <= Len(a) /\ 4 + Len(f) <= Len(a)
        /\ 0 + Len(ty) <= 4 /\ 2 + Len(o) <= 4 /\ 4 + Len(f) <= 8
    BY <1>2, <1>3, <1>4, <1>7
  <2>2. z \in Seq(Byte) /\ Len(z) = Len(a) /\ Holds(z, 4, f)
    BY <1>4, <1>7, <2>1, PutHolds
  <2>3. Holds(z, 8, pl)
    BY <1>3, <1>4, <1>7, <2>1, PutKeeps
  <2>4. Holds(z, 0, ty)
    BY <1>3, <1>4, <1>7, <2>1, PutKeeps
  <2>5. Holds(z, 2, o)
    BY <1>3, <1>4, <1>7, <2>1, PutKeeps
  <2> QED
    BY <1>7, <2>2, <2>3, <2>4, <2>5
<1> HIDE DEF z
<1>9. zn \in Seq(Byte) /\ Len(zn) = n
  <2>1. z \in Seq(Byte) /\ n \in Nat /\ n <= Len(z)
    BY <1>2, <1>8
  <2> QED
    BY <2>1, PrefixFacts
<1> HIDE DEF zn
<1>10. v = Rfc1071(zn) /\ v \in Word
  BY <1>9, CalculateWord
<1> HIDE DEF v
<1> DEFINE e == <<>>
<1>11. e \in Seq(Byte) /\ Even(Len(e)) /\ \A s \in Seq(Byte) : Cat(e, s) = s
  BY EvenNumbers, Whole
<1> HIDE DEF e
<1>12. Completed(w, e, z, n, 2, v)
  <2>1. Even(2) /\ 2 \in Nat /\ 2 + 2 <= n /\ n <= Len(z)
    BY <1>2, <1>8, EvenNumbers
  <2>2. v = Rfc1071(Cat(e, Slice(z, 0, n)))
    BY <1>9, <1>10, <1>11 DEF zn
  <2>3. z \in Seq(Byte) /\ n \in Nat /\ Holds(z, 2, <<0, 0>>)
    BY <1>2, <1>8 DEF o
  <2> QED
    BY <1>10, <1>11, <2>1, <2>2, <2>3, ChecksumWritten
<1> HIDE DEF w
<1>13. /\ w \in Seq(Byte) /\ Len(w) = Len(body) /\ c \in Seq(Byte) /\ Len(c) = n
       /\ Rfc1071(Cat(e, c)) = 0
       /\ \A t \in Seq(Byte) : \A j \in Nat :
              (Holds(z, j, t) /\ j + Len(t) <= n /\ (j + Len(t) <= 2 \/ 2 + 2 <= j))
                 => Holds(c, j, t)
  BY <1>8, <1>12 DEF Completed
<1> HIDE DEF c
<1>14. Holds(c, 8, pl) /\ Holds(c, 0, ty) /\ Holds(c, 4, f)
  <2>1. /\ 0 \in Nat /\ 4 \in Nat /\ 8 \in Nat /\ 8 + Len(pl) <= n /\ 2 + 2 <= 8
        /\ 4 + Len(f) <= n /\ 2 + 2 <= 4 /\ 0 + Len(ty) <= n /\ 0 + Len(ty) <= 2
    BY <1>2, <1>3, <1>4
  <2> QED
    BY <1>3, <1>4, <1>8, <1>13, <2>1
<1>15. Holds(c, 4, id) /\ Holds(c, 6, sq)
  <2>1. 4 \in Nat /\ 4 + 2 = 6
    BY SMT
  <2>2. Holds(c, 4, Cat(id, sq))
    BY <1>14 DEF f
  <2>3. Holds(c, 4, id) /\ Holds(c, 4 + Len(id), sq)
    BY <1>3, <2>1, <2>2, HoldsCat
  <2> QED
    BY <1>3, <2>1, <2>3
<1>16. Rfc1071(c) = 0
  BY <1>11, <1>13
<1> QED
  BY <1>1, <1>13, <1>14, <1>15, <1>16 DEF IcmpBody, c, id, sq, ty, n, pl

\* and so does TcpSegment::write_into.
LEMMA TcpWritten ==
    ASSUME NEW body \in Seq(Byte), NEW msg, msg.proto = Tcp, msg.payload \in Seq(Byte),
           msg.sport \in Word, msg.dport \in Word, msg.src \in Addr, msg.dst \in Addr,
           msg.seq \in Addr, msg.ack \in Addr, msg.flags \in Byte, msg.window \in Word,
           ProtoLen(msg) <= Len(body), Len(body) <= Mtu
    PROVE  /\ WriteTcp(body, msg) \in Seq(Byte) /\ Len(WriteTcp(body, msg)) = Len(body)
           /\ TcpBody(Slice(WriteTcp(body, msg), 0, ProtoLen(msg)), msg)
<1> DEFINE n == ProtoLen(msg)
           pl == msg.payload
           src == msg.src
           dst == msg.dst
           l == Len(pl)
           sp == BeBytes(msg.sport)
           dp == BeBytes(msg.dport)
           sq == msg.seq
           ak == msg.ack
           fl == <<80, msg.flags>>
           wn == BeBytes(msg.window)
           o == <<0, 0>>
           f2 == Cat(sp, dp)
           f3 == Cat(f2, sq)
           f4 == Cat(f3, ak)
           f5 == Cat(f4, fl)
           f == Cat(f5, wn)
           a == Put(body, 0, f)
           y == Put(a, 18, o)
           b == Put(y, 20, pl)
           z == Put(b, 16, o)
           zn == Slice(z, 0, n)
           q == Pseudo(src, dst, Tcp, n)
           v == Only(PseudoHdrCksum(zn, src, dst, Tcp))
           w == Put(z, 16, BeBytes(v))
           c == Slice(w, 0, n)
<1>1. WriteTcp(body, msg) = w
  <2>1. (TcpHdrLen \div 4) * 16 = 80 /\ TcpHdrLen = 20
    BY SMT DEF TcpHdrLen
  <2> QED
    BY <2>1 DEF WriteTcp, Cat
<1>2. /\ l \in Nat /\ Len(body) \in Nat /\ n = 20 + l /\ n \in Nat /\ n <= Len(body) /\ n <= Mtu
      /\ 20 <= n /\ 20 <= Len(body) /\ 20 + l <= Len(body)
  <2>1. l \in Nat /\ Len(body) \in Nat
    OBVIOUS
  <2>2. n = 20 + l
    BY DEF ProtoLen, HdrLen, TcpHdrLen
  <2> QED
    BY <2>1, <2>2, MtuFacts, SMT
<1>3. n \in Word
  BY <1>2, MtuFacts
<1>4. /\ sp \in Seq(Byte) /\ Len(sp) = 2 /\ dp \in Seq(Byte) /\ Len(dp) = 2
      /\ sq \in Seq(Byte) /\ Len(sq) = 4 /\ ak \in Seq(Byte) /\ Len(ak) = 4
      /\ fl \in Seq(Byte) /\ Len(fl) = 2 /\ wn \in Seq(Byte) /\ Len(wn) = 2
      /\ o \in Seq(Byte) /\ Len(o) = 2
  BY BeBytesOf, Tuples DEF Addr
<1>5. pl \in Seq(Byte) /\ Len(pl) = l /\ src \in Addr /\ dst \in Addr
  OBVIOUS
<1> HIDE DEF sp, dp, sq, ak, fl, wn, o, n, l, pl, src, dst
<1>6. f2 \in Seq(Byte) /\ Len(f2) = 4
  <2>1. f2 \in Seq(Byte) /\ Len(f2) = Len(sp) + Len(dp)
    BY <1>4, CatLen
  <2> QED
    BY <1>4, <2>1
<1> HIDE DEF f2
<1>7. f3 \in Seq(Byte) /\ Len(f3) = 8
  <2>1. f3 \in Seq(Byte) /\ Len(f3) = Len(f2) + Len(sq)
    BY <1>4, <1>6, CatLen
  <2> QED
    BY <1>4, <1>6, <2>1
<1> HIDE DEF f3
<1>8. f4 \in Seq(Byte) /\ Len(f4) = 12
  <2>1. f4 \in Seq(Byte) /\ Len(f4) = Len(f3) + Len(ak)
    BY <1>4, <1>7, CatLen
  <2> QED
    BY <1>4, <1>7, <2>1
<1> HIDE DEF f4
<1>9. f5 \in Seq(Byte) /\ Len(f5) = 14
  <2>1. f5 \in Seq(Byte) /\ Len(f5) = Len(f4) + Len(fl)
    BY <1>4, <1>8, CatLen
  <2> QED
    BY <1>4, <1>8, <2>1
<1> HIDE DEF f5
<1>10. f \in Seq(Byte) /\ Len(f) = 16
  <2>1. f \in Seq(Byte) /\ Len(f) = Len(f5) + Len(wn)
    BY <1>4, <1>9, CatLen
  <2> QED
    BY <1>4, <1>9, <2>1
<1> HIDE DEF f
<1>11. a \in Seq(Byte) /\ Len(a) = Len(body) /\ Holds(a, 0, f)
  <2>1. 0 \in Nat /\ 0 + Len(f) <= Len(body)
    BY <1>2, <1>10
  <2> QED
    BY <1>10, <2>1, PutHolds
<1> HIDE DEF a
<1>12. y \in Seq(Byte) /\ Len(y) = Len(body) /\ Holds(y, 0, f)
  <2>1. 0 \in Nat /\ 18 \in Nat /\ 0 + Len(f) <= Len(a) /\ 18 + Len(o) <= Len(a) /\ 0 + Len(f) <= 18
    BY <1>2, <1>4, <1>10, <1>11
  <2>2. y \in Seq(Byte) /\ Len(y) = Len(a)
    BY <1>4, <1>11, <2>1, PutHolds
  <2>3. Holds(y, 0, f)
    BY <1>4, <1>10, <1>11, <2>1, PutKeeps
  <2> QED
    BY <1>11, <2>2, <2>3
<1> HIDE DEF y
<1>13. b \in Seq(Byte) /\ Len(b) = Len(body) /\ Holds(b, 20, pl) /\ Holds(b, 0, f)
  <2>1. 0 \in Nat /\ 20 \in Nat /\ 0 + Len(f) <= Len(y) /\ 20 + Len(pl) <= Len(y) /\ 0 + Len(f) <= 20
    BY <1>2, <1>5, <1>10, <1>12
  <2>2. b \in Seq(Byte) /\ Len(b) = Len(y) /\ Holds(b, 20, pl)
    BY <1>5, <1>12, <2>1, PutHolds
  <2>3. Holds(b, 0, f)
    BY <1>5, <1>10, <1>12, <2>1, PutKeeps
  <2> QED
    BY <1>12, <2>2, <2>3
<1> HIDE DEF b
<1>14. z \in Seq(Byte) /\ Len(z) = Len(body) /\ Holds(z, 16, o) /\ Holds(z, 20, pl) /\ Holds(z, 0, f)
  <2>1. /\ 0 \in Nat /\ 20 \in Nat /\ 16 \in Nat /\ 0 + Len(f) <= Len(b) /\ 20 + Len(pl) <= Len(b)
        /\ 16 + Len(o) <= Len(b) /\ 0 + Len(f) <= 16 /\ 16 + Len(o) <= 20
    BY <1>2, <1>4, <1>5, <1>10, <1>13
  <2>2. z \in Seq(Byte) /\ Len(z) = Len(b) /\ Holds(z, 16, o)
    BY <1>4, <1>13, <2>1, PutHolds
  <2>3. Holds(z, 0, f)
    BY <1>4, <1>10, <1>13, <2>1, PutKeeps
  <2>4. Holds(z, 20, pl)
    BY <1>4, <1>5, <1>13, <2>1, PutKeeps
  <2> QED
    BY <1>13, <2>2, <2>3, <2>4
<1> HIDE DEF z
<1>15. zn \in Seq(Byte) /\ Len(zn) = n
  <2>1. z \in Seq(Byte) /\ n \in Nat /\ n <= Len(z)
    BY <1>2, <1>14
  <2> QED
    BY <2>1, PrefixFacts
<1> HIDE DEF zn
<1>16. Tcp \in Byte
  BY ByteNat DEF Tcp
<1>17. q \in Seq(Byte) /\ Len(q) = 12
  BY <1>3, <1>5, <1>16, PseudoBytes
<1>18. v = Rfc1071(Cat(q, zn)) /\ v \in Word
  <2>1. PseudoHdrCksum(zn, src, dst, Tcp) = {Rfc1071(Cat(q, zn))} /\ Rfc1071(Cat(q, zn)) \in Word
    <3>1. Len(zn) <= Mtu
      BY <1>2, <1>15
    <3>2. LET d == Cat(Pseudo(src, dst, Tcp, Len(zn)), zn)
          IN  PseudoHdrCksum(zn, src, dst, Tcp) = {Rfc1071(d)} /\ Rfc1071(d) \in Word
      BY <1>5, <1>15, <1>16, <3>1, PseudoCksum, ZenonT(40)
    <3> QED
      BY <1>15, <3>2
  <2> QED
    BY <2>1, OnlyOne
<1> HIDE DEF q, v
<1>19. Completed(w, q, z, n, 16, v)
  <2>1. Even(Len(q)) /\ Even(16) /\ 16 \in Nat /\ 16 + 2 <= n /\ n <= Len(z)
    BY <1>2, <1>14, <1>17, EvenNumbers
  <2>2. v = Rfc1071(Cat(q, Slice(z, 0, n)))
    BY <1>18 DEF zn
  <2>3. q \in Seq(Byte) /\ z \in Seq(Byte) /\ n \in Nat /\ v \in Word /\ Holds(z, 16, <<0, 0>>)
    BY <1>2, <1>14, <1>17, <1>18 DEF o
  <2> QED
    BY <2>1, <2>2, <2>3, ChecksumWritten
<1> HIDE DEF w
<1>20. /\ w \in Seq(Byte) /\ Len(w) = Len(body) /\ c \in Seq(Byte) /\ Len(c) = n
       /\ Rfc1071(Cat(q, c)) = 0
       /\ \A t \in Seq(Byte) : \A j \in Nat :
              (Holds(z, j, t) /\ j + Len(t) <= n /\ (j + Len(t) <= 16 \/ 16 + 2 <= j))
                 => Holds(c, j, t)
  BY <1>14, <1>19 DEF Completed
<1> HIDE DEF c
<1>21. Holds(c, 20, pl) /\ Holds(c, 0, f)
  <2>1. /\ 0 \in Nat /\ 20 \in Nat /\ 20 + Len(pl) <= n /\ 16 + 2 <= 20
        /\ 0 + Len(f) <= n /\ 0 + Len(f) <= 16
    BY <1>2, <1>5, <1>10
  <2> QED
    BY <1>5, <1>10, <1>14, <1>20, <2>1
<1>22. /\ Holds(c, 0, sp) /\ Holds(c, 2, dp) /\ Holds(c, 4, sq) /\ Holds(c, 8, ak)
       /\ Holds(c, 12, fl) /\ Holds(c, 14, wn)
  <2>1. 0 \in Nat /\ 0 + 14 = 14 /\ 0 + 12 = 12 /\ 0 + 8 = 8 /\ 0 + 4 = 4 /\ 0 + 2 = 2
    BY SMT
  <2>2. Holds(c, 0, f5) /\ Holds(c, 0 + Len(f5), wn)
    BY <1>4, <1>9, <1>21, <2>1, HoldsCat DEF f
  <2>3. Holds(c, 0, f4) /\ Holds(c, 0 + Len(f4), fl)
    BY <1>4, <1>8, <2>1, <2>2, HoldsCat DEF f5
  <2>4. Holds(c, 0, f3) /\ Holds(c, 0 + Len(f3), ak)
    BY <1>4, <1>7, <2>1, <2>3, HoldsCat DEF f4
  <2>5. Holds(c, 0, f2) /\ Holds(c, 0 + Len(f2), sq)
    BY <1>4, <1>6, <2>1, <2>4, HoldsCat DEF f3
  <2>6. Holds(c, 0, sp) /\ Holds(c, 0 + Len(sp), dp)
    BY <1>4, <2>1, <2>5, HoldsCat DEF f2
  <2> QED
    BY <1>4, <1>6, <1>7, <1>8, <1>9, <2>1, <2>2, <2>3, <2>4, <2>5, <2>6
<1> QED
  BY <1>1, <1>20, <1>21, <1>22 DEF TcpBody, c, q, sp, dp, sq, ak, fl, wn, n, pl, src, dst
-----------------------------------------------------------------------------
(* Packets.                                                                *)

\* What a reply has to be for write_into to make a valid packet of it.
Sendable(msg) ==
    /\ msg.src \in Addr /\ msg.dst \in Addr /\ msg.payload \in Seq(Byte)
    /\ \/ msg.proto = Icmp /\ msg.type \in Byte /\ msg.id \in Word /\ msg.seq \in Word
       \/ msg.proto = Udp /\ msg.sport \in Word /\ msg.dport \in Word
       \/ /\ msg.proto = Tcp /\ msg.sport \in Word /\ msg.dport \in Word
          /\ msg.seq \in Addr /\ msg.ack \in Addr /\ msg.flags \in Byte /\ msg.window \in Word

\* c is the message msg of its protocol.
BodyOf(c, msg) ==
    \/ msg.proto = Icmp /\ IcmpBody(c, msg)
    \/ msg.proto = Udp /\ UdpBody(c, msg)
    \/ msg.proto = Tcp /\ TcpBody(c, msg)

\* The protocol numbers are different bytes.
LEMMA Protocols == Icmp # Tcp /\ Icmp # Udp /\ Tcp # Udp /\ {Icmp, Tcp, Udp} \subseteq Byte
<1>1. Icmp # Tcp /\ Icmp # Udp /\ Tcp # Udp
  BY SMT DEF Icmp, Tcp, Udp
<1>2. Icmp \in Nat /\ Icmp <= 255 /\ Tcp \in Nat /\ Tcp <= 255 /\ Udp \in Nat /\ Udp <= 255
  BY SMT DEF Icmp, Tcp, Udp
<1> QED
  BY <1>1, <1>2, ByteNat

\* Whatever the protocol, the message written is the one meant.
LEMMA BodyWritten ==
    ASSUME NEW body \in Seq(Byte), NEW msg, Sendable(msg),
           ProtoLen(msg) <= Len(body), Len(body) <= Mtu
    PROVE  /\ WriteBody(body, msg) \in Seq(Byte) /\ Len(WriteBody(body, msg)) = Len(body)
           /\ BodyOf(Slice(WriteBody(body, msg), 0, ProtoLen(msg)), msg)
<1>1. CASE msg.proto = Icmp
  <2>1. WriteBody(body, msg) = WriteIcmp(body, msg)
    BY <1>1, Protocols DEF WriteBody
  <2>2. msg.payload \in Seq(Byte) /\ msg.type \in Byte /\ msg.id \in Word /\ msg.seq \in Word
    BY <1>1, Protocols DEF Sendable
  <2> QED
    BY <1>1, <2>1, <2>2, IcmpWritten DEF BodyOf
<1>2. CASE msg.proto = Udp
  <2>1. WriteBody(body, msg) = WriteUdp(body, msg)
    BY <1>2, Protocols DEF WriteBody
  <2>2. /\ msg.payload \in Seq(Byte) /\ msg.sport \in Word /\ msg.dport \in Word
        /\ msg.src \in Addr /\ msg.dst \in Addr
    BY <1>2, Protocols DEF Sendable
  <2> QED
    BY <1>2, <2>1, <2>2, UdpWritten DEF BodyOf
<1>3. CASE msg.proto = Tcp
  <2>1. WriteBody(body, msg) = WriteTcp(body, msg)
    BY <1>3, Protocols DEF WriteBody
  <2>2. /\ msg.payload \in Seq(Byte) /\ msg.sport \in Word /\ msg.dport \in Word
        /\ msg.src \in Addr /\ msg.dst \in Addr
        /\ msg.seq \in Addr /\ msg.ack \in Addr /\ msg.flags \in Byte /\ msg.window \in Word
    BY <1>3, Protocols DEF Sendable
  <2> QED
    BY <1>3, <2>1, <2>2, TcpWritten DEF BodyOf
<1> QED
  BY <1>1, <1>2, <1>3 DEF Sendable

\* The lengths of a reply.
LEMMA Lengths ==
    ASSUME NEW msg, msg.payload \in Seq(Byte)
    PROVE  /\ ProtoLen(msg) \in Nat /\ TotalLen(msg) = 20 + ProtoLen(msg)
           /\ ProtoLen(msg) = HdrLen(msg.proto) + Len(msg.payload)
           /\ HdrLen(msg.proto) = IF msg.proto = Tcp THEN 20 ELSE 8
<1> DEFINE h == HdrLen(msg.proto)
           l == Len(msg.payload)
<1>1. l \in Nat
  OBVIOUS
<1>2. h = IF msg.proto = Tcp THEN 20 ELSE 8
  BY DEF HdrLen, TcpHdrLen
<1>3. ProtoLen(msg) = h + l /\ TotalLen(msg) = 20 + ProtoLen(msg)
  BY DEF ProtoLen, TotalLen, Ipv4HdrLen
<1> HIDE DEF h, l
<1>4. h \in Nat
  BY <1>2
<1>5. h + l \in Nat
  BY <1>1, <1>4, SMT
<1> QED
  BY <1>2, <1>3, <1>5 DEF h, l

\* The packet s carries msg.
PacketOf(s, msg) ==
    \E h, c \in Seq(Byte) :
        /\ s = Cat(h, c)
        /\ HeaderOf(h, TotalLen(msg), msg.proto, msg.src, msg.dst)
        /\ BodyOf(c, msg)

\* A prefix beyond the first part of a concatenation.
LEMMA CatPrefix ==
    ASSUME NEW h \in Seq(Byte), NEW w \in Seq(Byte), NEW n \in Nat, n <= Len(w)
    PROVE  Slice(Cat(h, w), 0, Len(h) + n) = Cat(h, Slice(w, 0, n))
<1> DEFINE x == Cat(h, w)
           m == Len(h) + n
           p == Slice(x, 0, m)
           c == Slice(w, 0, n)
           y == Cat(h, c)
           l == Len(h)
           r == Len(w)
<1>1. l \in Nat /\ r \in Nat
  OBVIOUS
<1>0. m \in Nat
  BY <1>1, SMT
<1>2. /\ x \in Seq(Byte) /\ Len(x) = l + r
      /\ \A k \in Nat : 1 <= k /\ k <= l => x[k] = h[k]
      /\ \A k \in Nat : l < k /\ k <= l + r => x[k] = w[k - l]
  BY CatFacts, Zenon
<1>3. c \in Seq(Byte) /\ Len(c) = n /\ \A k \in Nat : 1 <= k /\ k <= n => c[k] = w[k]
  BY PrefixFacts
<1> HIDE DEF x, c
<1>4. /\ y \in Seq(Byte) /\ Len(y) = l + Len(c)
      /\ \A k \in Nat : 1 <= k /\ k <= l => y[k] = h[k]
      /\ \A k \in Nat : l < k /\ k <= l + Len(c) => y[k] = c[k - l]
  BY <1>3, CatFacts, Zenon
<1>5. m <= Len(x)
  BY <1>1, <1>2, SMT
<1>6. p \in Seq(Byte) /\ Len(p) = m /\ \A k \in Nat : 1 <= k /\ k <= m => p[k] = x[k]
  BY <1>0, <1>2, <1>5, PrefixFacts
<1> HIDE DEF p, y
<1>7. ASSUME NEW k \in Nat, 1 <= k, k <= m PROVE p[k] = y[k]
  <2>1. CASE k <= l
    BY <1>2, <1>4, <1>6, <1>7, <2>1
  <2>2. CASE ~(k <= l)
    <3>1. l < k /\ k <= l + r /\ k <= l + n /\ k - l \in Nat /\ 1 <= k - l /\ k - l <= n
      BY <1>1, <1>7, <2>2, SMT
    <3>2. x[k] = w[k - l] /\ c[k - l] = w[k - l]
      BY <1>2, <1>3, <3>1
    <3>3. y[k] = c[k - l]
      BY <1>3, <1>4, <3>1
    <3> QED
      BY <1>6, <1>7, <3>2, <3>3
  <2> QED
    BY <2>1, <2>2
<1>8. Len(y) = Len(p) /\ \A k \in Nat : 1 <= k /\ k <= Len(p) => p[k] = y[k]
  BY <1>3, <1>4, <1>6, <1>7
<1>9. p = y
  BY <1>4, <1>6, <1>8, SameBytes
<1> QED
  BY <1>9 DEF p, x, y, c

\* send_pkt: whatever is in the buffer, the bytes handed to the device carry the reply.
LEMMA PacketWritten ==
    ASSUME NEW buf \in Seq(Byte), Len(buf) = Mtu, NEW msg, Sendable(msg), Writable(msg)
    PROVE  /\ WriteInto(buf, msg) \in Seq(Byte) /\ Len(WriteInto(buf, msg)) = Mtu
           /\ PacketOf(Slice(WriteInto(buf, msg), 0, TotalLen(msg)), msg)
<1> DEFINE n == ProtoLen(msg)
           t == TotalLen(msg)
           front == Slice(buf, 0, 20)
           back == Slice(buf, 20, Mtu)
           h == WriteIpv4(front, msg)
           w == WriteBody(back, msg)
           c == Slice(w, 0, n)
<1>1. WriteInto(buf, msg) = Cat(h, w)
  BY DEF WriteInto, Ipv4HdrLen, Cat
<1>2. n \in Nat /\ t = 20 + n /\ n <= Mtu - 20 /\ Mtu \in Nat /\ Mtu >= 40
  <2>1. n \in Nat /\ t = 20 + n
    BY Lengths DEF Sendable
  <2> QED
    BY <2>1, MtuFacts DEF Writable, Ipv4HdrLen
<1> HIDE DEF n, t
<1>3. /\ t \in Nat /\ t <= Mtu /\ 20 \in Nat /\ 20 <= Mtu /\ Mtu <= Mtu /\ Mtu - 20 <= Mtu
      /\ 20 + (Mtu - 20) = Mtu
  BY <1>2, SMT
<1>4. t \in Word
  BY <1>3, MtuFacts
<1>5. front \in Seq(Byte) /\ Len(front) = 20
  <2>1. 20 <= Len(buf)
    BY <1>3
  <2> QED
    BY <1>3, <2>1, PrefixFacts, Zenon
<1>6. back \in Seq(Byte) /\ Len(back) = Mtu - 20
  <2>1. Mtu <= Len(buf)
    BY <1>3
  <2> QED
    BY <1>2, <1>3, <2>1, SliceFacts, Zenon
<1> HIDE DEF front, back
<1>7. msg.proto \in Byte /\ msg.src \in Addr /\ msg.dst \in Addr
  BY Protocols DEF Sendable
<1>8. HeaderOf(h, t, msg.proto, msg.src, msg.dst)
  BY <1>4, <1>5, <1>7, Ipv4Written DEF t
<1>9. w \in Seq(Byte) /\ Len(w) = Len(back) /\ BodyOf(c, msg)
  <2>1. n <= Len(back) /\ Len(back) <= Mtu
    BY <1>2, <1>3, <1>6
  <2> QED
    BY <1>6, <2>1, BodyWritten DEF n
<1> HIDE DEF h, w
<1>10. h \in Seq(Byte) /\ Len(h) = 20
  BY <1>8 DEF HeaderOf
<1>11. Cat(h, w) \in Seq(Byte) /\ Len(Cat(h, w)) = Mtu
  <2>1. Cat(h, w) \in Seq(Byte) /\ Len(Cat(h, w)) = Len(h) + Len(w)
    BY <1>9, <1>10, CatLen
  <2>2. Len(h) + Len(w) = 20 + (Mtu - 20)
    BY <1>6, <1>9, <1>10
  <2> QED
    BY <1>3, <2>1, <2>2
<1>12. n <= Len(w) /\ t = Len(h) + n
  BY <1>2, <1>6, <1>9, <1>10
<1>13. Slice(Cat(h, w), 0, t) = Cat(h, c)
  <2>1. h \in Seq(Byte) /\ w \in Seq(Byte) /\ n \in Nat /\ t \in Nat
    BY <1>2, <1>3, <1>9, <1>10
  <2> QED
    BY <1>12, <2>1, CatPrefix
<1>14. c \in Seq(Byte)
  BY <1>2, <1>9, <1>12, PrefixFacts
<1> HIDE DEF c
<1>15. PacketOf(Slice(Cat(h, w), 0, t), msg)
  BY <1>8, <1>9, <1>10, <1>13, <1>14 DEF PacketOf, t
<1> QED
  BY <1>1, <1>11, <1>15 DEF t
-----------------------------------------------------------------------------
(* A packet that carries a message is valid.                               *)

\* Adjacent bytes are there as a concatenation.
LEMMA HoldsJoin ==
    ASSUME NEW q, NEW i \in Nat, NEW s \in Seq(Byte), NEW t \in Seq(Byte),
           Holds(q, i, s), Holds(q, i + Len(s), t)
    PROVE  Holds(q, i, Cat(s, t))
<1> DEFINE c == Cat(s, t)
           m == Len(s)
           n == Len(t)
<1>1. m \in Nat /\ n \in Nat
  OBVIOUS
<1>2. /\ Len(c) = m + n
      /\ \A k \in Nat : 1 <= k /\ k <= m => c[k] = s[k]
      /\ \A k \in Nat : m < k /\ k <= m + n => c[k] = t[k - m]
  BY CatFacts, Zenon
<1> HIDE DEF c
<1>3. ASSUME NEW k \in Nat, 1 <= k, k <= m + n PROVE q[i + k] = c[k]
  <2>1. CASE k <= m
    <3>1. q[i + k] = s[k]
      BY <1>3, <2>1 DEF Holds
    <3> QED
      BY <1>2, <1>3, <2>1, <3>1
  <2>2. CASE ~(k <= m)
    <3>1. m < k /\ k - m \in Nat /\ 1 <= k - m /\ k - m <= n /\ (i + m) + (k - m) = i + k
      BY <1>1, <1>3, <2>2, SMT
    <3>2. q[(i + m) + (k - m)] = t[k - m]
      BY <3>1 DEF Holds
    <3>3. c[k] = t[k - m]
      BY <1>2, <1>3, <3>1
    <3> QED
      BY <3>1, <3>2, <3>3
  <2> QED
    BY <2>1, <2>2
<1>4. \A k \in Nat : 1 <= k /\ k <= Len(c) => q[i + k] = c[k]
  BY <1>2, <1>3
<1> QED
  BY <1>4 DEF Holds, c

\* Two bytes at an offset.
LEMMA HoldsPair ==
    ASSUME NEW q, NEW i \in Nat, NEW x, NEW y, Holds(q, i, <<x, y>>)
    PROVE  q[i + 1] = x /\ q[i + 2] = y
<1> DEFINE e == <<x, y>>
<1>1. Len(e) = 2 /\ e[1] = x /\ e[2] = y
  OBVIOUS
<1>2. 1 \in Nat /\ 2 \in Nat /\ 1 <= 1 /\ 1 <= 2 /\ 2 <= 2
  BY SMT
<1>3. Holds(q, i, e)
  OBVIOUS
<1> HIDE DEF e
<1> QED
  BY <1>1, <1>2, <1>3 DEF Holds

\* Where the parts of the packet s are, h being its header and c the rest.
Layout(s, h, c, msg) ==
    /\ s \in Seq(Byte) /\ Len(s) = TotalLen(msg)
    /\ c \in Seq(Byte) /\ Len(c) = ProtoLen(msg)
    /\ Slice(s, 0, 20) = h /\ Slice(s, 20, Len(s)) = c
    /\ s[1] = 69 /\ s[10] = msg.proto /\ U16(s, 2) = TotalLen(msg)
    /\ Slice(s, 12, 16) = msg.src /\ Slice(s, 16, 20) = msg.dst
    /\ Slice(s, 12, 20) = Cat(msg.src, msg.dst)
    /\ \A t \in Seq(Byte) : \A j \in Nat :
          Holds(c, j, t) /\ j + Len(t) <= Len(c) => Holds(s, 20 + j, t)

\* A packet is laid out as Layout says.
LEMMA PacketLayout ==
    ASSUME NEW h \in Seq(Byte), NEW c \in Seq(Byte), NEW msg, Sendable(msg),
           HeaderOf(h, TotalLen(msg), msg.proto, msg.src, msg.dst), BodyOf(c, msg)
    PROVE  Layout(Cat(h, c), h, c, msg)
<1> DEFINE s == Cat(h, c)
           n == ProtoLen(msg)
           t == TotalLen(msg)
           src == msg.src
           dst == msg.dst
<1>1. /\ Len(h) = 20 /\ h[1] = 69 /\ U16(h, 2) = t /\ h[10] = msg.proto
      /\ Holds(h, 12, src) /\ Holds(h, 16, dst)
  BY DEF HeaderOf
<1>2. Len(c) = n
  BY DEF BodyOf, IcmpBody, UdpBody, TcpBody
<1>3. n \in Nat /\ t = 20 + n
  BY Lengths DEF Sendable
<1>4. src \in Seq(Byte) /\ Len(src) = 4 /\ dst \in Seq(Byte) /\ Len(dst) = 4
  BY DEF Sendable, Addr
<1> HIDE DEF n, t, src, dst
<1>5. /\ s \in Seq(Byte) /\ Len(s) = Len(h) + Len(c)
      /\ \A k \in Nat : 1 <= k /\ k <= Len(h) => s[k] = h[k]
  BY CatFacts, Zenon
<1>6. Len(s) = t /\ \A k \in Nat : 1 <= k /\ k <= 20 => s[k] = h[k]
  BY <1>1, <1>2, <1>3, <1>5
<1>7. /\ 0 \in Nat /\ 20 \in Nat /\ 0 + 20 <= 20 /\ 20 = 0 + 20 /\ 20 <= t
      /\ t = 20 + n /\ t \in Nat /\ 0 + n <= n /\ t <= t /\ 20 + 0 = 20
      /\ 12 \in Nat /\ 16 \in Nat /\ 12 + 4 <= 20 /\ 16 + 4 <= 20 /\ 16 = 12 + 4 /\ 20 = 16 + 4
      /\ 20 = 12 + 8 /\ 16 <= t /\ 4 + 4 = 8
  BY <1>3, SMT
<1>8. Holds(h, 0, h) /\ Holds(c, 0, c)
  BY SMT DEF Holds
<1>9. Holds(s, 0, h) /\ Holds(s, 20, c) /\ Holds(s, 12, src) /\ Holds(s, 16, dst)
  <2>1. Holds(s, 0, h)
    BY <1>1, <1>7, <1>8, CatHolds
  <2>2. Holds(s, Len(h) + 0, c)
    BY <1>2, <1>7, <1>8, CatHolds
  <2>3. Holds(s, 12, src)
    BY <1>1, <1>4, <1>7, CatHolds, ZenonT(40)
  <2>4. Holds(s, 16, dst)
    BY <1>1, <1>4, <1>7, CatHolds, ZenonT(40)
  <2> QED
    BY <1>1, <1>7, <2>1, <2>2, <2>3, <2>4
<1>10. \A b \in Seq(Byte) : \A j \in Nat : Holds(c, j, b) /\ j + Len(b) <= Len(c) => Holds(s, 20 + j, b)
  BY <1>1, CatHolds
<1> HIDE DEF s
<1>11. Slice(s, 0, 20) = h
  <2>1. 20 = 0 + Len(h) /\ 20 <= Len(s)
    BY <1>1, <1>6, <1>7
  <2> QED
    BY <1>5, <1>7, <1>9, <2>1, SliceHolds
<1>12. Slice(s, 20, Len(s)) = c
  <2>1. t = 20 + Len(c) /\ t <= Len(s)
    BY <1>2, <1>6, <1>7
  <2>2. Slice(s, 20, t) = c
    BY <1>5, <1>7, <1>9, <2>1, SliceHolds
  <2> QED
    BY <1>6, <2>2
<1>13. Slice(s, 12, 16) = src
  <2>1. 16 = 12 + Len(src) /\ 16 <= Len(s)
    BY <1>4, <1>6, <1>7
  <2> QED
    BY <1>4, <1>5, <1>7, <1>9, <2>1, SliceHolds
<1>14. Slice(s, 16, 20) = dst
  <2>1. 20 = 16 + Len(dst) /\ 20 <= Len(s)
    BY <1>4, <1>6, <1>7
  <2> QED
    BY <1>4, <1>5, <1>7, <1>9, <2>1, SliceHolds
<1>15. Slice(s, 12, 20) = Cat(src, dst)
  <2>1. Cat(src, dst) \in Seq(Byte) /\ Len(Cat(src, dst)) = Len(src) + Len(dst)
    BY <1>4, CatLen
  <2>2. Holds(s, 12, Cat(src, dst))
    BY <1>4, <1>7, <1>9, HoldsJoin
  <2>3. 20 = 12 + Len(Cat(src, dst)) /\ 20 <= Len(s)
    BY <1>4, <1>6, <1>7, <2>1
  <2> QED
    BY <1>5, <1>7, <2>1, <2>2, <2>3, SliceHolds
<1>16. s[1] = 69 /\ s[10] = msg.proto /\ U16(s, 2) = t
  <2>1. 1 <= 1 /\ 1 <= 20 /\ 1 <= 10 /\ 10 <= 20 /\ 2 + 1 = 3 /\ 2 + 2 = 4 /\ 1 <= 3 /\ 3 <= 20 /\ 1 <= 4 /\ 4 <= 20
        /\ 1 \in Nat /\ 3 \in Nat /\ 4 \in Nat /\ 10 \in Nat
    BY SMT
  <2>2. s[1] = h[1] /\ s[10] = h[10] /\ s[2 + 1] = h[2 + 1] /\ s[2 + 2] = h[2 + 2]
    BY <1>6, <2>1
  <2>3. U16(s, 2) = U16(h, 2)
    BY <2>2 DEF U16
  <2> QED
    BY <1>1, <2>2, <2>3
<1> QED
  BY <1>2, <1>5, <1>6, <1>10, <1>11, <1>12, <1>13, <1>14, <1>15, <1>16 DEF Layout, s, t, n, src, dst

\* A packet that carries a reply is valid by the RFCs' definition.
LEMMA PacketValid ==
    ASSUME NEW s, NEW msg, Sendable(msg), PacketOf(s, msg)
    PROVE  ValidPacket(s)
<1>1. PICK h, c \in Seq(Byte) :
        /\ s = Cat(h, c)
        /\ HeaderOf(h, TotalLen(msg), msg.proto, msg.src, msg.dst)
        /\ BodyOf(c, msg)
  BY DEF PacketOf
<1>2. Layout(s, h, c, msg)
  BY <1>1, PacketLayout
<1> DEFINE n == ProtoLen(msg)
           p == msg.proto
           src == msg.src
           dst == msg.dst
           l == Len(msg.payload)
           k == HdrLen(p)
<1>3. /\ n \in Nat /\ Len(s) = 20 + n /\ n = k + l /\ l \in Nat
      /\ k = IF p = Tcp THEN 20 ELSE 8
  BY <1>2, Lengths DEF Layout, Sendable
<1>4. /\ c \in Seq(Byte) /\ Len(c) = n /\ Slice(s, 0, 20) = h /\ Slice(s, 20, Len(s)) = c
      /\ s[1] = 69 /\ s[10] = p /\ U16(s, 2) = Len(s) /\ Slice(s, 12, 20) = Cat(src, dst)
  BY <1>2 DEF Layout
<1>5. Rfc1071(h) = 0
  BY <1>1 DEF HeaderOf
<1>6. BodyOf(c, msg)
  BY <1>1
<1>7. PseudoHdr(s, c) \o c = Cat(Pseudo(src, dst, p, n), c)
  BY <1>4 DEF PseudoHdr, Pseudo, Cat
<1>10. p = Icmp \/ p = Udp \/ p = Tcp
  BY DEF Sendable
<1> HIDE DEF n, p, src, dst, l, k
<1>8. ValidTransport(s, c)
  <2>1. CASE p = Icmp
    <3>1. n >= 8
      BY <1>3, <2>1, Protocols, SMT
    <3>2. Rfc1071(c) = 0
      BY <1>6, <2>1, Protocols DEF BodyOf, IcmpBody, p
    <3> QED
      BY <1>4, <2>1, <3>1, <3>2, Protocols DEF ValidTransport, Sums
  <2>2. CASE p = Udp
    <3>1. n >= 8
      BY <1>3, <2>2, Protocols, SMT
    <3>2. UdpBody(c, msg)
      BY <1>6, <2>2, Protocols DEF BodyOf, p
    <3>3. Rfc1071(Cat(Pseudo(src, dst, Udp, n), c)) = 0 /\ Holds(c, 4, BeBytes(n))
      BY <3>2 DEF UdpBody, n, src, dst
    <3>4. n \in Word
      <4>1. U16(s, 2) = Len(s)
        BY <1>4
      <4>2. U16(s, 2) \in Word
        <5>1. 2 \in Nat /\ 2 + 2 <= Len(s)
          BY <1>3, SMT
        <5> QED
          BY <1>2, <5>1, U16Type DEF Layout
      <4>3. Len(s) \in Nat /\ Len(s) <= 65535
        BY <4>1, <4>2, WordNat
      <4>4. n <= 65535
        BY <1>3, <4>3, SMT
      <4> QED
        BY <1>3, <4>4, WordNat
    <3>5. U16(c, 4) = n
      BY <3>3, <3>4, HoldsWord
    <3>6. Sums(PseudoHdr(s, c) \o c)
      BY <1>7, <2>2, <3>3 DEF Sums
    <3> QED
      BY <1>4, <2>2, <3>1, <3>5, <3>6, Protocols DEF ValidTransport
  <2>3. CASE p = Tcp
    <3>1. n >= 20
      BY <1>3, <2>3, SMT
    <3>2. TcpBody(c, msg)
      BY <1>6, <2>3, Protocols DEF BodyOf, p
    <3>3. Rfc1071(Cat(Pseudo(src, dst, Tcp, n), c)) = 0
      BY <3>2 DEF TcpBody, n, src, dst
    <3>4. Sums(PseudoHdr(s, c) \o c)
      BY <1>7, <2>3, <3>3 DEF Sums
    <3> QED
      BY <1>4, <2>3, <3>1, <3>4, Protocols DEF ValidTransport
  <2> QED
    BY <1>10, <2>1, <2>2, <2>3
<1>9. Len(s) >= 20
  BY <1>3, SMT
<1> QED
  BY <1>4, <1>5, <1>8, <1>9 DEF ValidPacket, Sums
-----------------------------------------------------------------------------
(* Parsing.                                                                *)

\* The parts of a packet that has been read.
Src(data) == Slice(data, 12, 16)
Dst(data) == Slice(data, 16, 20)
Body(data) == Slice(data, IhlBytes(data), Len(data))

\* The header of data is accepted.
HeaderOk(data) ==
    /\ Len(data) >= 20 /\ data[1] \div 16 = 4 /\ Calculate(Slice(data, 0, 20)) = 0
    /\ data[10] \in Protocol /\ IhlBytes(data) <= Len(data)

\* What the header yields for the parsers of the protocols.
Hdr(data) == [proto |-> data[10], src |-> Src(data), dst |-> Dst(data), payload |-> Body(data)]

\* What Parse returns, by protocol.
LEMMA Parsed ==
    ASSUME NEW data
    PROVE  Parse(data) = IF ~HeaderOk(data) THEN {}
                         ELSE IF data[10] = Icmp THEN ParseIcmp(Body(data), Hdr(data))
                         ELSE IF data[10] = Tcp THEN ParseTcp(Body(data), Hdr(data))
                         ELSE ParseUdp(Body(data), Hdr(data))
<1> DEFINE h == Hdr(data)
           G(x) == CASE x.proto = Icmp -> ParseIcmp(x.payload, x)
                     [] x.proto = Tcp  -> ParseTcp(x.payload, x)
                     [] x.proto = Udp  -> ParseUdp(x.payload, x)
<1>1. ParseIpv4(data) = IF HeaderOk(data) THEN {h} ELSE {}
  BY DEF ParseIpv4, HeaderOk, Hdr, Src, Dst, Body, Ipv4HdrLen
<1>2. Parse(data) = UNION {G(x) : x \in ParseIpv4(data)}
  BY DEF Parse
<1>3. h.proto = data[10] /\ h.payload = Body(data)
  BY DEF Hdr
<1> HIDE DEF h, G
<1>4. CASE ~HeaderOk(data)
  BY <1>1, <1>2, <1>4
<1>5. CASE HeaderOk(data)
  <2>1. Parse(data) = G(h)
    BY <1>1, <1>2, <1>5
  <2>2. data[10] = Icmp \/ data[10] = Tcp \/ data[10] = Udp
    BY <1>5 DEF HeaderOk, Protocol
  <2>3. CASE data[10] = Icmp
    <3>1. G(h) = ParseIcmp(h.payload, h)
      BY <1>3, <2>3, Protocols DEF G
    <3> QED
      BY <1>3, <1>5, <2>1, <2>3, <3>1 DEF h
  <2>4. CASE data[10] = Tcp
    <3>1. G(h) = ParseTcp(h.payload, h)
      BY <1>3, <2>4, Protocols DEF G
    <3> QED
      BY <1>3, <1>5, <2>1, <2>4, <3>1, Protocols DEF h
  <2>5. CASE data[10] = Udp
    <3>1. G(h) = ParseUdp(h.payload, h)
      BY <1>3, <2>5, Protocols DEF G
    <3> QED
      BY <1>3, <1>5, <2>1, <2>5, <3>1, Protocols DEF h
  <2> QED
    BY <2>2, <2>3, <2>4, <2>5
<1> QED
  BY <1>4, <1>5

\* What fits the read buffer.
Packet == {data \in Seq(Byte) : Len(data) <= Mtu}

\* The types of the parts of a packet whose header is accepted.
LEMMA ReadFacts ==
    ASSUME NEW data \in Packet, HeaderOk(data)
    PROVE  /\ IhlBytes(data) \in Nat /\ IhlBytes(data) <= Len(data)
           /\ Len(data) \in Nat /\ Len(data) >= 20 /\ Len(data) <= Mtu /\ Mtu \in Nat
           /\ Src(data) \in Addr /\ Dst(data) \in Addr
           /\ Body(data) \in Seq(Byte) /\ Len(Body(data)) = Len(data) - IhlBytes(data)
           /\ Len(Body(data)) \in Nat /\ Len(Body(data)) <= Mtu
           /\ data[10] \in Byte
<1> DEFINE n == Len(data)
           i == IhlBytes(data)
           b == Body(data)
<1>1. data \in Seq(Byte) /\ n \in Nat /\ n <= Mtu /\ n >= 20 /\ i <= n /\ Mtu \in Nat
  BY MtuFacts DEF Packet, HeaderOk
<1>2. i \in Nat
  <2>1. 1 \in 1..n
    BY <1>1, SMT
  <2>2. data[1] \in Nat
    BY <1>1, <2>1, ByteNat
  <2> QED
    BY <2>2, SMT DEF IhlBytes
<1> HIDE DEF i
<1>3. n - i \in Nat /\ n - i <= Mtu /\ n <= n /\ 12 <= 16 /\ 16 <= 20 /\ 16 <= n /\ 20 <= n /\ 16 - 12 = 4 /\ 20 - 16 = 4
      /\ 12 \in Nat /\ 16 \in Nat /\ 20 \in Nat
  BY <1>1, <1>2, SMT
<1>4. b \in Seq(Byte) /\ Len(b) = n - i
  <2>1. Slice(data, i, n) \in Seq(Byte) /\ Len(Slice(data, i, n)) = n - i
    BY <1>1, <1>2, <1>3, SliceFacts
  <2> QED
    BY <2>1 DEF Body, i
<1>5. Src(data) \in Addr
  <2>1. Slice(data, 12, 16) \in Seq(Byte) /\ Len(Slice(data, 12, 16)) = 16 - 12
    BY <1>1, <1>3, SliceFacts, ZenonT(40)
  <2> QED
    BY <1>3, <2>1 DEF Src, Addr
<1>6. Dst(data) \in Addr
  <2>1. Slice(data, 16, 20) \in Seq(Byte) /\ Len(Slice(data, 16, 20)) = 20 - 16
    BY <1>1, <1>3, SliceFacts, ZenonT(40)
  <2> QED
    BY <1>3, <2>1 DEF Dst, Addr
<1>7. data[10] \in Byte
  BY Protocols DEF HeaderOk, Protocol
<1> HIDE DEF b, n
<1>8. Len(b) \in Nat /\ Len(b) <= Mtu
  BY <1>3, <1>4
<1> QED
  BY <1>1, <1>2, <1>4, <1>5, <1>6, <1>7, <1>8 DEF b, n, i

\* The payload behind a header of k bytes; an offset past the end leaves none.
LEMMA RestFacts ==
    ASSUME NEW body \in Seq(Byte), NEW k \in Nat
    PROVE  /\ Slice(body, k, Len(body)) \in Seq(Byte)
           /\ Len(Slice(body, k, Len(body))) = IF k <= Len(body) THEN Len(body) - k ELSE 0
<1> DEFINE n == Len(body)
<1>1. n \in Nat /\ n <= n
  <2>1. n \in Nat
    OBVIOUS
  <2> QED
    BY <2>1, SMT
<1>2. CASE k <= n
  BY <1>1, <1>2, SliceFacts
<1>3. CASE ~(k <= n)
  <2>1. n <= k
    BY <1>1, <1>3, SMT
  <2>2. Slice(body, k, n) = <<>>
    BY <1>1, <2>1, SliceEmpty
  <2> QED
    BY <1>3, <2>2
<1> QED
  BY <1>2, <1>3

\* The messages that are accepted.
IcmpOk(body) == Len(body) >= 8 /\ Calculate(body) = 0 /\ body[1] = 8 /\ body[2] = 0

UdpOk(body, src, dst) ==
    Len(body) >= 8 /\ (U16(body, 6) # 0 => PseudoHdrCksum(body, src, dst, Udp) = {0})

TcpOk(body, src, dst) ==
    /\ Len(body) >= 20 /\ PseudoHdrCksum(body, src, dst, Tcp) = {0}
    /\ MaskedFlags(body[14]) \in FlagBytes

\* The packets that are accepted, and what they are parsed into.
Accepted(data) ==
    /\ HeaderOk(data)
    /\ \/ data[10] = Icmp /\ IcmpOk(Body(data))
       \/ data[10] = Tcp /\ TcpOk(Body(data), Src(data), Dst(data))
       \/ data[10] = Udp /\ UdpOk(Body(data), Src(data), Dst(data))

IcmpMsg(data) ==
    [proto |-> Icmp, src |-> Src(data), dst |-> Dst(data), type |-> Body(data)[1],
     id |-> U16(Body(data), 4), seq |-> U16(Body(data), 6),
     payload |-> Slice(Body(data), 8, Len(Body(data)))]

UdpMsg(data) ==
    [proto |-> Udp, src |-> Src(data), dst |-> Dst(data),
     sport |-> U16(Body(data), 0), dport |-> U16(Body(data), 2),
     payload |-> Slice(Body(data), 8, Len(Body(data)))]

TcpMsg(data) ==
    [proto |-> Tcp, src |-> Src(data), dst |-> Dst(data),
     sport |-> U16(Body(data), 0), dport |-> U16(Body(data), 2),
     seq |-> Slice(Body(data), 4, 8), ack |-> Slice(Body(data), 8, 12),
     flags |-> MaskedFlags(Body(data)[14]), window |-> U16(Body(data), 14),
     payload |-> Slice(Body(data), (Body(data)[13] \div 16) * 4, Len(Body(data)))]

\* Parsing yields the message of an accepted packet and fails for all others.
LEMMA ParsedMsg ==
    ASSUME NEW data
    PROVE  /\ ~Accepted(data) => Parse(data) = {}
           /\ Accepted(data) /\ data[10] = Icmp => Parse(data) = {IcmpMsg(data)}
           /\ Accepted(data) /\ data[10] = Udp => Parse(data) = {UdpMsg(data)}
           /\ Accepted(data) /\ data[10] = Tcp => Parse(data) = {TcpMsg(data)}
<1> DEFINE h == Hdr(data)
           b == Body(data)
<1>1. h.src = Src(data) /\ h.dst = Dst(data)
  BY DEF Hdr
<1>2. ParseIcmp(b, h) = IF IcmpOk(b) THEN {IcmpMsg(data)} ELSE {}
  BY <1>1 DEF ParseIcmp, IcmpOk, IcmpMsg
<1>3. ParseUdp(b, h) = IF UdpOk(b, Src(data), Dst(data)) THEN {UdpMsg(data)} ELSE {}
  BY <1>1 DEF ParseUdp, UdpOk, UdpMsg
<1>4. ParseTcp(b, h) = IF TcpOk(b, Src(data), Dst(data)) THEN {TcpMsg(data)} ELSE {}
  BY <1>1 DEF ParseTcp, TcpOk, TcpMsg, TcpHdrLen
<1> HIDE DEF h, b
<1>5. Parse(data) = IF ~HeaderOk(data) THEN {}
                    ELSE IF data[10] = Icmp THEN ParseIcmp(b, h)
                    ELSE IF data[10] = Tcp THEN ParseTcp(b, h)
                    ELSE ParseUdp(b, h)
  BY Parsed DEF h, b
<1>6. HeaderOk(data) => data[10] \in {Icmp, Tcp, Udp}
  BY DEF HeaderOk, Protocol
<1>7. Accepted(data) <=> /\ HeaderOk(data)
                         /\ \/ data[10] = Icmp /\ IcmpOk(b)
                            \/ data[10] = Tcp /\ TcpOk(b, Src(data), Dst(data))
                            \/ data[10] = Udp /\ UdpOk(b, Src(data), Dst(data))
  BY DEF Accepted, b
<1> QED
  BY <1>2, <1>3, <1>4, <1>5, <1>6, <1>7, Protocols

\* What is answered to the packet data.
IcmpAnswer(data, r) ==
    /\ data[10] = Icmp /\ r.proto = Icmp /\ r.src = Dst(data) /\ r.dst = Src(data)
    /\ r.type = 0 /\ r.id = U16(Body(data), 4) /\ r.seq = U16(Body(data), 6)
    /\ r.payload = Slice(Body(data), 8, Len(Body(data)))

UdpAnswer(data, r) ==
    /\ data[10] = Udp /\ r.proto = Udp /\ r.src = Dst(data) /\ r.dst = Src(data)
    /\ r.sport = U16(Body(data), 2) /\ r.dport = U16(Body(data), 0)
    /\ r.payload = HandleUdp(Slice(Body(data), 8, Len(Body(data))))

TcpAnswer(data, r, info) ==
    /\ data[10] = Tcp /\ r.proto = Tcp /\ r.src = Dst(data) /\ r.dst = Src(data)
    /\ r.sport = U16(Body(data), 2) /\ r.dport = U16(Body(data), 0)
    /\ r.seq = info.seq /\ r.ack = info.ack /\ r.flags = info.flags
    /\ r.window = Ones /\ r.payload = info.payload

\* r is one of the replies to the packet data.
ReplyTo(data, r) ==
    \/ IcmpAnswer(data, r)
    \/ UdpAnswer(data, r)
    \/ \E info \in TcpReplies : TcpAnswer(data, r, info)

\* Every reply that create_reply returns is one.
LEMMA Replied ==
    ASSUME NEW data, NEW msg \in Parse(data), NEW replies \in CreateReply(msg),
           NEW reply \in replies
    PROVE  Accepted(data) /\ ReplyTo(data, reply)
<1>1. Accepted(data)
  BY ParsedMsg
<1>2. data[10] = Icmp \/ data[10] = Tcp \/ data[10] = Udp
  BY <1>1 DEF Accepted
<1>3. CASE data[10] = Icmp
  <2>1. msg = IcmpMsg(data)
    BY <1>1, <1>3, ParsedMsg
  <2>2. msg.proto = Icmp
    BY <2>1 DEF IcmpMsg
  <2>3. reply = IcmpReply(msg)
    BY <2>2, Protocols DEF CreateReply
  <2>4. IcmpAnswer(data, reply)
    BY <1>3, <2>1, <2>3 DEF IcmpAnswer, IcmpReply, Swapped, IcmpMsg
  <2> QED
    BY <1>1, <2>4 DEF ReplyTo
<1>4. CASE data[10] = Udp
  <2>1. msg = UdpMsg(data)
    BY <1>1, <1>4, ParsedMsg
  <2>2. msg.proto = Udp
    BY <2>1 DEF UdpMsg
  <2>3. reply = UdpReply(msg)
    BY <2>2, Protocols DEF CreateReply
  <2>4. UdpAnswer(data, reply)
    BY <1>4, <2>1, <2>3 DEF UdpAnswer, UdpReply, SwappedPorts, Swapped, UdpMsg
  <2> QED
    BY <1>1, <2>4 DEF ReplyTo
<1>5. CASE data[10] = Tcp
  <2>1. msg = TcpMsg(data)
    BY <1>1, <1>5, ParsedMsg
  <2>2. msg.proto = Tcp
    BY <2>1 DEF TcpMsg
  <2>3. PICK info \in TcpReplies : reply = TcpReply(msg, info)
    <3>1. replies \in {{}} \cup {{TcpReply(msg, info)} : info \in TcpReplies}
      BY <2>2, Protocols DEF CreateReply
    <3> QED
      BY <3>1
  <2>4. TcpAnswer(data, reply, info)
    <3>1. Ones = 65535
      BY Bounds
    <3> QED
      BY <1>5, <2>1, <2>3, <3>1 DEF TcpAnswer, TcpReply, SwappedPorts, Swapped, TcpMsg
  <2> QED
    BY <1>1, <2>4 DEF ReplyTo
<1> QED
  BY <1>2, <1>3, <1>4, <1>5

\* to_ascii_uppercase changes exactly the lowercase letters.
LEMMA UpperFacts ==
    ASSUME NEW b \in Byte
    PROVE  Upper(b) \in Byte /\ UppercaseOf(b, Upper(b))
<1>1. b \in Nat /\ b <= 255
  BY ByteNat
<1>2. Upper(b) \in Nat /\ Upper(b) <= 255
  BY <1>1, SMT DEF Upper
<1>3. UppercaseOf(b, Upper(b))
  BY DEF Upper, UppercaseOf
<1> QED
  BY <1>2, <1>3, ByteNat

\* The application answers byte by byte.
LEMMA HandleUdpFacts ==
    ASSUME NEW s \in Seq(Byte)
    PROVE  /\ HandleUdp(s) \in Seq(Byte) /\ Len(HandleUdp(s)) = Len(s)
           /\ \A k \in Nat : 1 <= k /\ k <= Len(s) =>
                 IF App = "Shout" THEN UppercaseOf(s[k], HandleUdp(s)[k])
                 ELSE HandleUdp(s)[k] = s[k]
<1> DEFINE n == Len(s)
           u == [i \in 1..n |-> Upper(s[i])]
<1>1. App = "Echo" \/ App = "Shout"
  BY PacketAssumption
<1>2. CASE App = "Echo"
  <2>1. HandleUdp(s) = s /\ App # "Shout"
    BY <1>2 DEF HandleUdp
  <2> QED
    BY <2>1
<1>3. CASE App = "Shout"
  <2>1. HandleUdp(s) = u
    BY <1>3 DEF HandleUdp
  <2>2. n \in Nat /\ \A i \in 1..n : s[i] \in Byte
    OBVIOUS
  <2>3. \A i \in 1..n : u[i] = Upper(s[i])
    OBVIOUS
  <2>4. u \in [1..n -> Byte]
    BY <2>2, UpperFacts
  <2> HIDE DEF u
  <2>5. u \in Seq(Byte) /\ Len(u) = n
    BY <2>2, <2>4, SeqDef, LenProperties
  <2>6. \A k \in Nat : 1 <= k /\ k <= n => k \in 1..n
    BY <2>2, SMT
  <2>7. \A k \in Nat : 1 <= k /\ k <= n => UppercaseOf(s[k], u[k])
    BY <2>2, <2>3, <2>6, UpperFacts
  <2> QED
    BY <1>3, <2>1, <2>5, <2>7
<1> QED
  BY <1>1, <1>2, <1>3

\* Every reply can be written, and fits if the request's header is whole.
LEMMA ReplySendable ==
    ASSUME NEW data \in Packet, Accepted(data), NEW r, ReplyTo(data, r)
    PROVE  Sendable(r) /\ (IhlBytes(data) >= 20 => Writable(r))
<1> DEFINE b == Body(data)
           i == IhlBytes(data)
           n == Len(b)
           rest == Slice(b, 8, n)
<1>1. HeaderOk(data)
  BY DEF Accepted
<1>2. /\ i \in Nat /\ Len(data) \in Nat /\ Len(data) <= Mtu /\ Mtu \in Nat /\ Mtu >= 40
      /\ Src(data) \in Addr /\ Dst(data) \in Addr
      /\ b \in Seq(Byte) /\ n = Len(data) - i /\ n \in Nat
  BY <1>1, ReadFacts, MtuFacts
<1> HIDE DEF b, i
<1>3. r.src \in Addr /\ r.dst \in Addr
  BY <1>2 DEF ReplyTo, IcmpAnswer, UdpAnswer, TcpAnswer
<1>4. n >= 8 => rest \in Seq(Byte) /\ Len(rest) = n - 8
  <2>1. /\ 8 \in Nat /\ (n >= 8 <=> 8 <= n)
    BY <1>2, SMT
  <2> QED
    BY <1>2, <2>1, RestFacts
<1>5. n >= 8 => U16(b, 0) \in Word /\ U16(b, 2) \in Word /\ U16(b, 4) \in Word /\ U16(b, 6) \in Word
  <2>1. n >= 8 => 0 + 2 <= n /\ 2 + 2 <= n /\ 4 + 2 <= n /\ 6 + 2 <= n
    BY <1>2, SMT
  <2>2. 0 \in Nat /\ 2 \in Nat /\ 4 \in Nat /\ 6 \in Nat
    OBVIOUS
  <2> QED
    BY <1>2, <2>1, <2>2, U16Type
<1>6. Writable(r) <=> ProtoLen(r) <= Mtu - 20
  BY DEF Writable, Ipv4HdrLen
<1>7. CASE IcmpAnswer(data, r)
  <2>1. r.proto = Icmp /\ r.payload = rest /\ r.type = 0 /\ r.id = U16(b, 4) /\ r.seq = U16(b, 6)
    BY <1>7 DEF IcmpAnswer, b
  <2>2. n >= 8
    BY <1>7, Protocols DEF IcmpAnswer, Accepted, IcmpOk, b
  <2>3. 0 \in Byte
    BY ByteNat
  <2>4. Sendable(r)
    BY <1>3, <1>4, <1>5, <2>1, <2>2, <2>3 DEF Sendable
  <2>5. ProtoLen(r) = 8 + (n - 8)
    BY <1>4, <2>1, <2>2, Lengths, Protocols
  <2>6. i >= 20 => 8 + (n - 8) <= Mtu - 20
    BY <1>2, SMT
  <2> QED
    BY <1>6, <2>4, <2>5, <2>6 DEF i
<1>8. CASE UdpAnswer(data, r)
  <2> DEFINE pl == HandleUdp(rest)
  <2>1. r.proto = Udp /\ r.payload = pl /\ r.sport = U16(b, 2) /\ r.dport = U16(b, 0)
    BY <1>8 DEF UdpAnswer, b
  <2>2. n >= 8
    BY <1>8, Protocols DEF UdpAnswer, Accepted, UdpOk, b
  <2>3. pl \in Seq(Byte) /\ Len(pl) = n - 8
    BY <1>4, <2>2, HandleUdpFacts
  <2> HIDE DEF pl
  <2>4. Sendable(r)
    BY <1>3, <1>5, <2>1, <2>2, <2>3 DEF Sendable
  <2>5. ProtoLen(r) = 8 + (n - 8)
    BY <2>1, <2>3, Lengths, Protocols
  <2>6. i >= 20 => 8 + (n - 8) <= Mtu - 20
    BY <1>2, SMT
  <2> QED
    BY <1>6, <2>4, <2>5, <2>6 DEF i
<1>9. CASE \E info \in TcpReplies : TcpAnswer(data, r, info)
  <2>1. PICK info \in TcpReplies : TcpAnswer(data, r, info)
    BY <1>9
  <2>2. /\ r.proto = Tcp /\ r.payload = info.payload /\ r.sport = U16(b, 2) /\ r.dport = U16(b, 0)
        /\ r.seq = info.seq /\ r.ack = info.ack /\ r.flags = info.flags /\ r.window = Ones
    BY <2>1 DEF TcpAnswer, b
  <2>3. n >= 8
    <3>1. n >= 20
      BY <2>1, Protocols DEF TcpAnswer, Accepted, TcpOk, b
    <3> QED
      BY <1>2, <3>1, SMT
  <2>4. /\ info.seq \in Addr /\ info.ack \in Addr /\ info.flags \in Byte
        /\ info.payload \in Seq(Byte) /\ Len(info.payload) <= Mtu - 40
    BY ReplyAssumption, ByteIs DEF Addr
  <2>5. Ones \in Word
    BY Sizes, SMT DEF Word
  <2>6. Sendable(r)
    BY <1>3, <1>5, <2>2, <2>3, <2>4, <2>5 DEF Sendable
  <2>7. ProtoLen(r) = 20 + Len(info.payload) /\ Len(info.payload) \in Nat
    BY <2>2, <2>4, Lengths
  <2>8. 20 + Len(info.payload) <= Mtu - 20
    BY <1>2, <2>4, <2>7, SMT
  <2> QED
    BY <1>6, <2>6, <2>7, <2>8
<1> QED
  BY <1>7, <1>8, <1>9 DEF ReplyTo

\* The size of a packet written: the headers, and no more than the buffer.
LEMMA PacketSize ==
    ASSUME NEW s, NEW msg, Sendable(msg), Writable(msg), PacketOf(s, msg)
    PROVE  s \in Seq(Byte) /\ Len(s) \in (Ipv4HdrLen + 8)..Mtu
<1>1. PICK h, c \in Seq(Byte) :
        /\ s = Cat(h, c)
        /\ HeaderOf(h, TotalLen(msg), msg.proto, msg.src, msg.dst)
        /\ BodyOf(c, msg)
  BY DEF PacketOf
<1>2. s \in Seq(Byte)
  BY <1>1, CatLen
<1> DEFINE n == ProtoLen(msg)
           l == Len(msg.payload)
           k == HdrLen(msg.proto)
<1>3. Layout(s, h, c, msg)
  BY <1>1, PacketLayout
<1>4. /\ n \in Nat /\ Len(s) = 20 + n /\ n = k + l /\ l \in Nat
      /\ k = IF msg.proto = Tcp THEN 20 ELSE 8
  BY <1>3, Lengths DEF Layout, Sendable
<1>5. n <= Mtu - 20 /\ Ipv4HdrLen = 20 /\ Mtu \in Nat
  BY MtuFacts DEF Writable, Ipv4HdrLen
<1> HIDE DEF n, l, k
<1>6. Len(s) \in (Ipv4HdrLen + 8)..Mtu
  BY <1>4, <1>5, SMT
<1> QED
  BY <1>2, <1>6
-----------------------------------------------------------------------------
(* The worker.                                                             *)

\* What the status says about the packet read and the bytes sent.
Settled ==
    /\ status # "poll" => read_buf \in Wire
    /\ status = "skipped" => ~Accepted(read_buf)
    /\ status \in {"noReply", "sent", "failed"} => Accepted(read_buf)
    /\ status = "noReply" => read_buf[10] = Tcp
    /\ status = "failed" => IhlBytes(read_buf) < 20
    /\ status = "sent" =>
          \E reply : ReplyTo(read_buf, reply) /\ Sendable(reply) /\ PacketOf(sent, reply)

\* The inductive invariant.
PacketInv == TypeOK /\ Settled

\* What is read from the device fits the buffer.
LEMMA WireFacts == \A data \in Wire : data \in Packet
BY WireAssumption, ByteIs DEF Packet

\* Parsing succeeds for the accepted packets only.
LEMMA ParsedIff ==
    ASSUME NEW data
    PROVE  Parse(data) # {} <=> Accepted(data)
<1>1. Accepted(data) => data[10] \in {Icmp, Tcp, Udp}
  BY DEF Accepted
<1> QED
  BY <1>1, ParsedMsg

\* The invariant holds in the beginning,
LEMMA PacketInit == Init => PacketInv
<1> SUFFICES ASSUME Init PROVE PacketInv
  OBVIOUS
<1> DEFINE w == [i \in 1..Mtu |-> 0]
<1>1. Mtu \in Nat /\ 0 \in 0..255
  BY MtuFacts
<1>2. w \in [1..Mtu -> 0..255]
  BY <1>1
<1> HIDE DEF w
<1>3. w \in Seq(0..255) /\ Len(w) = Mtu
  BY <1>1, <1>2, SeqDef, LenProperties
<1>4. write_buf = w /\ read_buf = <<>> /\ sent = <<>> /\ status = "poll"
  BY DEF Init, w
<1>5. <<>> \in Seq(0..255)
  OBVIOUS
<1> QED
  BY <1>3, <1>4, <1>5, Zenon DEF PacketInv, TypeOK, Settled

\* is preserved by every step
LEMMA PacketStep == PacketInv /\ [Next]_vars => PacketInv'
<1> SUFFICES ASSUME PacketInv, [Next]_vars PROVE PacketInv'
  OBVIOUS
<1>1. /\ status \in {"poll", "read", "skipped", "noReply", "sent", "failed"}
      /\ read_buf \in Wire \cup {<<>>}
      /\ write_buf \in Seq(Byte) /\ Len(write_buf) = Mtu /\ sent \in Seq(Byte)
      /\ IF status = "sent" THEN Len(sent) \in (Ipv4HdrLen + 8)..Mtu ELSE sent = <<>>
  BY ByteIs DEF PacketInv, TypeOK
<1>2. Settled
  BY DEF PacketInv
<1>3. ASSUME NEW data \in Wire, Read(data) PROVE PacketInv'
  <2>1. /\ status = "poll" /\ status' = "read" /\ read_buf' = data
        /\ write_buf' = write_buf /\ sent' = sent
    BY <1>3 DEF Read
  <2>2. TypeOK'
    BY <1>1, <2>1, ByteIs DEF TypeOK
  <2>3. Settled'
    BY <2>1, Zenon DEF Settled
  <2> QED
    BY <2>2, <2>3 DEF PacketInv
<1>4. ASSUME Skip PROVE PacketInv'
  <2>1. /\ status = "read" /\ Parse(read_buf) = {} /\ status' = "skipped"
        /\ read_buf' = read_buf /\ write_buf' = write_buf /\ sent' = sent
    BY <1>4 DEF Skip
  <2>2. TypeOK'
    BY <1>1, <2>1, ByteIs DEF TypeOK
  <2>3. read_buf \in Wire /\ ~Accepted(read_buf)
    BY <1>2, <2>1, ParsedIff, Zenon DEF Settled
  <2>4. Settled'
    BY <2>1, <2>3, Zenon DEF Settled
  <2> QED
    BY <2>2, <2>4 DEF PacketInv
<1>5. ASSUME NoReply PROVE PacketInv'
  <2>1. /\ status = "read" /\ status' = "noReply"
        /\ read_buf' = read_buf /\ write_buf' = write_buf /\ sent' = sent
    BY <1>5 DEF NoReply
  <2>2. PICK msg \in Parse(read_buf) : {} \in CreateReply(msg)
    BY <1>5 DEF NoReply
  <2>3. TypeOK'
    BY <1>1, <2>1, ByteIs DEF TypeOK
  <2>4. read_buf \in Wire /\ Accepted(read_buf)
    BY <1>2, <2>1, <2>2, ParsedIff, Zenon DEF Settled
  <2>5. read_buf[10] = Tcp
    <3>1. CASE read_buf[10] = Icmp
      <4>1. msg = IcmpMsg(read_buf)
        BY <2>2, <2>4, <3>1, ParsedMsg
      <4>2. msg.proto = Icmp
        BY <4>1 DEF IcmpMsg
      <4> QED
        BY <2>2, <4>2, Protocols DEF CreateReply
    <3>2. CASE read_buf[10] = Udp
      <4>1. msg = UdpMsg(read_buf)
        BY <2>2, <2>4, <3>2, ParsedMsg
      <4>2. msg.proto = Udp
        BY <4>1 DEF UdpMsg
      <4> QED
        BY <2>2, <4>2, Protocols DEF CreateReply
    <3> QED
      BY <2>4, <3>1, <3>2 DEF Accepted
  <2>6. Settled'
    BY <2>1, <2>4, <2>5, Zenon DEF Settled
  <2> QED
    BY <2>3, <2>6 DEF PacketInv
<1>6. ASSUME SendPkt PROVE PacketInv'
  <2>1. status = "read" /\ status' = "sent" /\ read_buf' = read_buf
    BY <1>6 DEF SendPkt
  <2>2. PICK msg \in Parse(read_buf) : \E replies \in CreateReply(msg) : \E reply \in replies :
          /\ Writable(reply) /\ write_buf' = WriteInto(write_buf, reply)
          /\ sent' = Slice(write_buf', 0, TotalLen(reply))
    BY <1>6 DEF SendPkt
  <2>3. PICK replies \in CreateReply(msg) : \E reply \in replies :
          /\ Writable(reply) /\ write_buf' = WriteInto(write_buf, reply)
          /\ sent' = Slice(write_buf', 0, TotalLen(reply))
    BY <2>2
  <2>4. PICK reply \in replies :
          /\ Writable(reply) /\ write_buf' = WriteInto(write_buf, reply)
          /\ sent' = Slice(write_buf', 0, TotalLen(reply))
    BY <2>3
  <2>5. read_buf \in Wire
    BY <1>2, <2>1, Zenon DEF Settled
  <2>6. Accepted(read_buf) /\ ReplyTo(read_buf, reply)
    BY <2>2, <2>3, <2>4, Replied
  <2>7. Sendable(reply)
    BY <2>5, <2>6, WireFacts, ReplySendable
  <2>8. /\ write_buf' \in Seq(Byte) /\ Len(write_buf') = Mtu /\ PacketOf(sent', reply)
    BY <1>1, <2>4, <2>7, PacketWritten
  <2>9. sent' \in Seq(Byte) /\ Len(sent') \in (Ipv4HdrLen + 8)..Mtu
    BY <2>4, <2>7, <2>8, PacketSize
  <2>10. TypeOK'
    BY <1>1, <2>1, <2>8, <2>9, ByteIs DEF TypeOK
  <2>11. Settled'
    BY <2>1, <2>5, <2>6, <2>7, <2>8, Zenon DEF Settled
  <2> QED
    BY <2>10, <2>11 DEF PacketInv
<1>7. ASSUME SendPktFails PROVE PacketInv'
  <2>1. /\ status = "read" /\ status' = "failed"
        /\ read_buf' = read_buf /\ write_buf' = write_buf /\ sent' = sent
    BY <1>7 DEF SendPktFails
  <2>2. PICK msg \in Parse(read_buf) : \E replies \in CreateReply(msg) : \E reply \in replies :
          ~Writable(reply)
    BY <1>7 DEF SendPktFails
  <2>3. PICK replies \in CreateReply(msg) : \E reply \in replies : ~Writable(reply)
    BY <2>2
  <2>4. PICK reply \in replies : ~Writable(reply)
    BY <2>3
  <2>5. read_buf \in Wire
    BY <1>2, <2>1, Zenon DEF Settled
  <2>6. Accepted(read_buf) /\ ReplyTo(read_buf, reply)
    BY <2>2, <2>3, <2>4, Replied
  <2>7. ~(IhlBytes(read_buf) >= 20)
    BY <2>4, <2>5, <2>6, WireFacts, ReplySendable
  <2>8. IhlBytes(read_buf) < 20
    <3>1. IhlBytes(read_buf) \in Nat
      BY <2>5, <2>6, WireFacts, ReadFacts DEF Accepted
    <3> QED
      BY <2>7, <3>1, SMT
  <2>9. TypeOK'
    BY <1>1, <2>1, ByteIs DEF TypeOK
  <2>10. Settled'
    BY <2>1, <2>5, <2>6, <2>8, Zenon DEF Settled
  <2> QED
    BY <2>9, <2>10 DEF PacketInv
<1>8. ASSUME Poll PROVE PacketInv'
  <2>1. status' = "poll" /\ read_buf' = <<>> /\ sent' = <<>> /\ write_buf' = write_buf
    BY <1>8 DEF Poll
  <2>2. <<>> \in Seq(Byte)
    OBVIOUS
  <2>3. TypeOK'
    BY <1>1, <2>1, <2>2, ByteIs DEF TypeOK
  <2>4. Settled'
    BY <2>1, Zenon DEF Settled
  <2> QED
    BY <2>3, <2>4 DEF PacketInv
<1>9. ASSUME UNCHANGED vars PROVE PacketInv'
  <2>1. status' = status /\ read_buf' = read_buf /\ write_buf' = write_buf /\ sent' = sent
    BY <1>9 DEF vars
  <2>2. TypeOK'
    BY <1>1, <2>1, ByteIs DEF TypeOK
  <2>3. Settled'
    BY <1>2, <2>1, Zenon DEF Settled
  <2> QED
    BY <2>2, <2>3 DEF PacketInv
<1> QED
  BY <1>3, <1>4, <1>5, <1>6, <1>7, <1>8, <1>9 DEF Next

\* and so holds always.
LEMMA PacketInvariant == Spec => []PacketInv
BY PacketInit, PacketStep, PTL DEF Spec

\* The buffers keep their type, and what is handed to the device has room for its headers
\* and comes from within the write buffer.
THEOREM PacketTypeCorrect == Spec => []TypeOK
<1>1. PacketInv => TypeOK
  BY DEF PacketInv
<1> QED
  BY <1>1, PacketInvariant, PTL

\* write_into fails only for a packet whose header length field is less than the header.
THEOREM RepliesFitTheBuffer == Spec => []RepliesFit
<1>1. PacketInv => RepliesFit
  BY DEF PacketInv, Settled, RepliesFit, Ipv4HdrLen
<1> QED
  BY <1>1, PacketInvariant, PTL

\* Every packet handed to the device is valid by the RFCs' definition, whatever earlier
\* replies left in the buffer and however odd the packet it answers is.
THEOREM EveryReplyIsValid == Spec => []RepliesAreValid
<1>1. PacketInv => RepliesAreValid
  <2> SUFFICES ASSUME PacketInv, status = "sent" PROVE ValidPacket(sent)
    BY DEF RepliesAreValid
  <2>1. PICK reply : Sendable(reply) /\ PacketOf(sent, reply)
    BY DEF PacketInv, Settled
  <2> QED
    BY <2>1, PacketValid
<1> QED
  BY <1>1, PacketInvariant, PTL
-----------------------------------------------------------------------------
(* Valid packets are accepted.                                             *)

\* A slice is at its offset.
LEMMA SliceIsThere ==
    ASSUME NEW data \in Seq(Byte), NEW i \in Nat, NEW j \in Nat, i <= j, j <= Len(data)
    PROVE  Holds(data, i, Slice(data, i, j))
<1> DEFINE s == Slice(data, i, j)
<1>1. /\ Len(s) = j - i
      /\ \A k \in Nat : 1 <= k /\ k <= j - i => s[k] = data[i + k]
  BY SliceFacts, Zenon
<1> HIDE DEF s
<1> QED
  BY <1>1 DEF Holds, s

\* The addresses of a packet are in its pseudo header.
LEMMA PseudoOf ==
    ASSUME NEW data \in Packet, HeaderOk(data), NEW body
    PROVE  PseudoHdr(data, body) \o body
             = Cat(Pseudo(Src(data), Dst(data), data[10], Len(body)), body)
<1> DEFINE src == Src(data)
           dst == Dst(data)
<1>1. /\ src \in Seq(Byte) /\ Len(src) = 4 /\ dst \in Seq(Byte) /\ Len(dst) = 4
      /\ data \in Seq(Byte) /\ Len(data) \in Nat /\ Len(data) >= 20
  BY ReadFacts DEF Addr, Packet
<1>2. /\ 12 \in Nat /\ 16 \in Nat /\ 20 \in Nat /\ 12 <= 16 /\ 16 <= 20
      /\ 16 <= Len(data) /\ 20 <= Len(data) /\ 16 = 12 + 4 /\ 4 + 4 = 8 /\ 20 = 12 + 8
  BY <1>1, SMT
<1>3. Holds(data, 12, src) /\ Holds(data, 16, dst)
  BY <1>1, <1>2, SliceIsThere DEF Src, Dst
<1> HIDE DEF src, dst
<1>4. Cat(src, dst) \in Seq(Byte) /\ Len(Cat(src, dst)) = Len(src) + Len(dst)
  BY <1>1, CatLen
<1>5. Holds(data, 12, Cat(src, dst))
  <2>1. Holds(data, 12 + Len(src), dst)
    BY <1>1, <1>2, <1>3
  <2> QED
    BY <1>1, <1>2, <1>3, <2>1, HoldsJoin
<1>6. 20 = 12 + Len(Cat(src, dst))
  BY <1>1, <1>2, <1>4
<1>7. Slice(data, 12, 20) = Cat(src, dst)
  BY <1>1, <1>2, <1>4, <1>5, <1>6, SliceHolds
<1> QED
  BY <1>7 DEF PseudoHdr, Pseudo, Cat, src, dst

\* What makes the rest of a valid packet valid, in the terms of the parsers.
BodyOk(data) ==
    LET b == Body(data)
        s == Src(data)
        d == Dst(data)
    IN  /\ data[10] = Icmp => Len(b) >= 8 /\ Calculate(b) = 0
        /\ data[10] = Udp =>
              /\ Len(b) >= 8 /\ U16(b, 4) = Len(b)
              /\ U16(b, 6) # 0 => PseudoHdrCksum(b, s, d, Udp) = {0}
        /\ data[10] = Tcp => Len(b) >= 20 /\ PseudoHdrCksum(b, s, d, Tcp) = {0}

\* A valid packet has a header that is accepted and a valid rest.
LEMMA ValidParts ==
    ASSUME NEW data \in Packet, ValidPacket(data)
    PROVE  HeaderOk(data) /\ IhlBytes(data) = 20 /\ BodyOk(data)
<1> DEFINE n == Len(data)
           h == Slice(data, 0, 20)
           x == Slice(data, 20, n)
<1>1. /\ data \in Seq(Byte) /\ n \in Nat /\ n >= 20 /\ n <= Mtu /\ data[1] = 69
      /\ Rfc1071(h) = 0 /\ ValidTransport(data, x)
  BY DEF Packet, ValidPacket, Sums
<1>2. IhlBytes(data) = 20 /\ data[1] \div 16 = 4
  <2>1. IhlBytes(data) = (69 % 16) * 4 /\ data[1] \div 16 = 69 \div 16
    BY <1>1 DEF IhlBytes
  <2> QED
    BY <2>1, SMT
<1>3. 20 <= n /\ 20 \in Nat /\ n <= n
  BY <1>1, SMT
<1>4. Calculate(h) = 0
  <2>1. h \in Seq(Byte)
    BY <1>1, <1>3, PrefixFacts
  <2> QED
    BY <1>1, <2>1, CalculateWord
<1>5. data[10] \in Protocol
  BY <1>1 DEF ValidTransport, Protocol
<1>6. HeaderOk(data)
  BY <1>1, <1>2, <1>3, <1>4, <1>5 DEF HeaderOk
<1>7. Body(data) = x
  BY <1>2 DEF Body
<1>8. /\ x \in Seq(Byte) /\ Len(x) <= Mtu /\ Src(data) \in Addr /\ Dst(data) \in Addr
      /\ data[10] \in Byte
  BY <1>6, <1>7, ReadFacts
<1> HIDE DEF x, h, n
<1> DEFINE q == Cat(Pseudo(Src(data), Dst(data), data[10], Len(x)), x)
<1>9. PseudoHdrCksum(x, Src(data), Dst(data), data[10]) = {Rfc1071(q)}
  BY <1>8, PseudoCksum
<1>10. Sums(PseudoHdr(data, x) \o x) <=> Rfc1071(q) = 0
  BY <1>6, PseudoOf DEF Sums
<1> HIDE DEF q
<1>11. data[10] = Icmp => Len(x) >= 8 /\ Calculate(x) = 0
  <2>1. data[10] = Icmp => Len(x) >= 8 /\ Rfc1071(x) = 0
    BY <1>1, Protocols DEF ValidTransport, Sums
  <2>2. Calculate(x) = Rfc1071(x)
    BY <1>8, CalculateWord
  <2> QED
    BY <2>1, <2>2
<1>12. data[10] = Udp =>
          /\ Len(x) >= 8 /\ U16(x, 4) = Len(x)
          /\ U16(x, 6) # 0 => PseudoHdrCksum(x, Src(data), Dst(data), Udp) = {0}
  <2> SUFFICES ASSUME data[10] = Udp
               PROVE  /\ Len(x) >= 8 /\ U16(x, 4) = Len(x)
                      /\ U16(x, 6) # 0 => PseudoHdrCksum(x, Src(data), Dst(data), Udp) = {0}
    OBVIOUS
  <2>1. Len(x) >= 8 /\ U16(x, 4) = Len(x) /\ (U16(x, 6) = 0 \/ Sums(PseudoHdr(data, x) \o x))
    BY <1>1, Protocols DEF ValidTransport
  <2> QED
    BY <1>9, <1>10, <2>1
<1>13. data[10] = Tcp => Len(x) >= 20 /\ PseudoHdrCksum(x, Src(data), Dst(data), Tcp) = {0}
  <2> SUFFICES ASSUME data[10] = Tcp
               PROVE  Len(x) >= 20 /\ PseudoHdrCksum(x, Src(data), Dst(data), Tcp) = {0}
    OBVIOUS
  <2>1. Len(x) >= 20 /\ Sums(PseudoHdr(data, x) \o x)
    BY <1>1, Protocols DEF ValidTransport
  <2> QED
    BY <1>9, <1>10, <2>1
<1> QED
  BY <1>2, <1>6, <1>7, <1>11, <1>12, <1>13 DEF BodyOk
-----------------------------------------------------------------------------
(* Damage is detected.                                                     *)

\* a and b differ in byte p and nowhere else.
ApartAt(a, b, p) ==
    /\ Len(a) = Len(b) /\ p \in 1..Len(a) /\ a[p] # b[p]
    /\ \A i \in 1..Len(a) : i # p => a[i] = b[i]

\* Sequences that are one byte apart differ at some place and nowhere else.
LEMMA OneApart ==
    ASSUME NEW a \in Seq(Byte), NEW b \in Seq(Byte), OneByteApart(a, b)
    PROVE  \E p : ApartAt(a, b, p)
<1> DEFINE n == Len(a)
           S == {i \in 1..n : a[i] # b[i]}
<1>1. n \in Nat /\ Len(a) = Len(b) /\ Cardinality(S) = 1
  BY DEF OneByteApart
<1>2. IsFiniteSet(S)
  <2>1. 1 \in Int /\ n \in Int
    BY <1>1, SMT
  <2>2. IsFiniteSet(1..n)
    BY <2>1, FS_Interval
  <2>3. S \in SUBSET (1..n)
    OBVIOUS
  <2> QED
    BY <2>2, <2>3, FS_Subset
<1>3. PICK p : S = {p}
  BY <1>1, <1>2, FS_Singleton
<1>4. ApartAt(a, b, p)
  BY <1>1, <1>3 DEF ApartAt
<1> QED
  BY <1>4

\* They cannot both sum to 0.
LEMMA ApartSums ==
    ASSUME NEW a \in Seq(Byte), NEW b \in Seq(Byte), NEW p, ApartAt(a, b, p)
    PROVE  ~(Rfc1071(a) = 0 /\ Rfc1071(b) = 0)
BY DamagedSum DEF ApartAt

\* Slices outside of the damage are the same, and those around it differ there.
LEMMA SliceSame ==
    ASSUME NEW a \in Seq(Byte), NEW b \in Seq(Byte), NEW p, ApartAt(a, b, p),
           NEW i \in Nat, NEW j \in Nat, i <= j, j <= Len(a), p <= i \/ j < p
    PROVE  Slice(a, i, j) = Slice(b, i, j)
<1> DEFINE x == Slice(a, i, j)
           y == Slice(b, i, j)
           n == Len(a)
<1>1. n \in Nat /\ Len(b) = n /\ p \in 1..n /\ j <= Len(b)
  BY DEF ApartAt
<1>2. /\ x \in Seq(Byte) /\ Len(x) = j - i /\ \A k \in Nat : 1 <= k /\ k <= j - i => x[k] = a[i + k]
      /\ y \in Seq(Byte) /\ Len(y) = j - i /\ \A k \in Nat : 1 <= k /\ k <= j - i => y[k] = b[i + k]
  BY <1>1, SliceFacts, ZenonT(40)
<1> HIDE DEF x, y
<1>3. ASSUME NEW k \in Nat, 1 <= k, k <= j - i PROVE x[k] = y[k]
  <2>1. i + k \in 1..n /\ i + k # p
    BY <1>1, <1>3, SMT
  <2>2. a[i + k] = b[i + k]
    BY <2>1 DEF ApartAt
  <2> QED
    BY <1>2, <1>3, <2>2
<1>4. Len(x) = Len(y) /\ \A k \in Nat : 1 <= k /\ k <= Len(x) => x[k] = y[k]
  BY <1>2, <1>3
<1>5. x = y
  BY <1>2, <1>4, SameBytes
<1> QED
  BY <1>5 DEF x, y

\* Slices around the place are apart, too,
LEMMA SliceApart ==
    ASSUME NEW a \in Seq(Byte), NEW b \in Seq(Byte), NEW p, ApartAt(a, b, p),
           NEW i \in Nat, NEW j \in Nat, i <= j, j <= Len(a), i < p, p <= j
    PROVE  ApartAt(Slice(a, i, j), Slice(b, i, j), p - i)
<1> DEFINE x == Slice(a, i, j)
           y == Slice(b, i, j)
           n == Len(a)
           m == j - i
           r == p - i
<1>1. n \in Nat /\ Len(b) = n /\ p \in 1..n /\ j <= Len(b) /\ a[p] # b[p]
  BY DEF ApartAt
<1>2. /\ x \in Seq(Byte) /\ Len(x) = m /\ \A k \in Nat : 1 <= k /\ k <= m => x[k] = a[i + k]
      /\ y \in Seq(Byte) /\ Len(y) = m /\ \A k \in Nat : 1 <= k /\ k <= m => y[k] = b[i + k]
  BY <1>1, SliceFacts, Zenon
<1>3. m \in Nat /\ r \in 1..m /\ r \in Nat /\ 1 <= r /\ r <= m /\ i + r = p
  BY <1>1, SMT
<1> HIDE DEF x, y
<1>4. ASSUME NEW k \in 1..m, k # r PROVE x[k] = y[k]
  <2>1. i + k \in 1..n /\ i + k # p /\ k \in Nat /\ 1 <= k /\ k <= m
    BY <1>1, <1>3, <1>4, SMT
  <2>2. a[i + k] = b[i + k]
    BY <2>1 DEF ApartAt
  <2> QED
    BY <1>2, <2>1, <2>2
<1> HIDE DEF r, m
<1>5. x[r] = a[p] /\ y[r] = b[p]
  BY <1>2, <1>3
<1>6. ApartAt(x, y, r)
  BY <1>1, <1>2, <1>3, <1>4, <1>5 DEF ApartAt
<1> QED
  BY <1>6 DEF x, y, r

\* and so are concatenations with the same bytes in front.
LEMMA CatApart ==
    ASSUME NEW q \in Seq(Byte), NEW a \in Seq(Byte), NEW b \in Seq(Byte), NEW p, ApartAt(a, b, p)
    PROVE  ApartAt(Cat(q, a), Cat(q, b), Len(q) + p)
<1> DEFINE x == Cat(q, a)
           y == Cat(q, b)
           m == Len(q)
           n == Len(a)
<1>1. m \in Nat /\ n \in Nat /\ Len(b) = n /\ p \in 1..n /\ a[p] # b[p]
  BY DEF ApartAt
<1>2. /\ Len(x) = m + n
      /\ \A k \in Nat : 1 <= k /\ k <= m => x[k] = q[k]
      /\ \A k \in Nat : m < k /\ k <= m + n => x[k] = a[k - m]
  BY CatFacts, Zenon
<1>3. /\ Len(y) = m + Len(b)
      /\ \A k \in Nat : 1 <= k /\ k <= m => y[k] = q[k]
      /\ \A k \in Nat : m < k /\ k <= m + Len(b) => y[k] = b[k - m]
  BY CatFacts, Zenon
<1> HIDE DEF x, y
<1>4. ASSUME NEW k \in 1..(m + n), k # m + p PROVE x[k] = y[k]
  <2>1. CASE k <= m
    <3>1. k \in Nat /\ 1 <= k
      BY <1>1, SMT
    <3> QED
      BY <1>2, <1>3, <2>1, <3>1
  <2>2. CASE ~(k <= m)
    <3>1. k \in Nat /\ m < k /\ k <= m + n /\ k - m \in 1..n /\ k - m # p
      BY <1>1, <1>4, <2>2, SMT
    <3>2. x[k] = a[k - m] /\ y[k] = b[k - m]
      BY <1>1, <1>2, <1>3, <3>1
    <3>3. a[k - m] = b[k - m]
      BY <3>1 DEF ApartAt
    <3> QED
      BY <3>2, <3>3
  <2> QED
    BY <2>1, <2>2
<1>5. x[m + p] = a[p] /\ y[m + p] = b[p] /\ m + p \in 1..(m + n)
  <2>1. m + p \in Nat /\ m < m + p /\ m + p <= m + n /\ (m + p) - m = p /\ m + p \in 1..(m + n)
    BY <1>1, SMT
  <2>2. x[m + p] = a[(m + p) - m] /\ y[m + p] = b[(m + p) - m]
    BY <1>1, <1>2, <1>3, <2>1
  <2> QED
    BY <2>1, <2>2
<1>6. ApartAt(x, y, m + p)
  BY <1>1, <1>2, <1>3, <1>4, <1>5 DEF ApartAt
<1> QED
  BY <1>6 DEF x, y

\* A packet one byte apart from a valid one is not accepted: a change in the header
\* shows in the header's checksum, any other in that of the message.
LEMMA DamagedRejected ==
    ASSUME NEW a \in Packet, NEW b \in Packet, OneByteApart(a, b),
           ValidPacket(a), Accepted(b),
           a[10] = Udp => U16(a, 26) # 0 /\ U16(b, 26) # 0
    PROVE  FALSE
<1> DEFINE n == Len(a)
<1>1. /\ a \in Seq(Byte) /\ b \in Seq(Byte) /\ n \in Nat /\ Len(b) = n
      /\ HeaderOk(a) /\ IhlBytes(a) = 20 /\ BodyOk(a) /\ HeaderOk(b)
  BY ValidParts DEF Packet, OneByteApart, Accepted
<1>2. PICK p : ApartAt(a, b, p)
  BY <1>1, OneApart
<1>3. n >= 20 /\ p \in 1..n
  BY <1>1, <1>2 DEF HeaderOk, ApartAt
<1>4. /\ 0 \in Nat /\ 12 \in Nat /\ 16 \in Nat /\ 20 \in Nat /\ 0 <= 20 /\ 12 <= 16 /\ 16 <= 20
      /\ 16 <= n /\ 20 <= n /\ n <= n
  BY <1>1, <1>3, SMT
<1>5. CASE p <= 20
  <2> DEFINE x == Slice(a, 0, 20)
             y == Slice(b, 0, 20)
  <2>1. 0 < p
    BY <1>3, SMT
  <2>2. ApartAt(x, y, p - 0)
    BY <1>1, <1>2, <1>4, <1>5, <2>1, SliceApart
  <2>3. x \in Seq(Byte) /\ y \in Seq(Byte)
    BY <1>1, <1>4, PrefixFacts
  <2>4. Calculate(x) = 0 /\ Calculate(y) = 0
    BY <1>1 DEF HeaderOk
  <2> HIDE DEF x, y
  <2>5. Rfc1071(x) = 0 /\ Rfc1071(y) = 0
    BY <2>3, <2>4, CalculateWord
  <2> QED
    BY <2>2, <2>3, <2>5, ApartSums
<1>6. CASE ~(p <= 20)
  <2>1. 20 < p /\ p <= n /\ 16 < p
    BY <1>3, <1>6, SMT
  <2>2. Src(a) = Src(b)
    BY <1>1, <1>2, <1>4, <2>1, SliceSame DEF Src
  <2>3. Dst(a) = Dst(b)
    BY <1>1, <1>2, <1>4, <2>1, SliceSame DEF Dst
  <2>4. a[1] = b[1] /\ a[10] = b[10]
    <3>1. 1 \in 1..n /\ 10 \in 1..n /\ 1 # p /\ 10 # p
      BY <1>1, <1>3, <1>6, SMT
    <3> QED
      BY <1>2, <3>1 DEF ApartAt
  <2>5. IhlBytes(b) = 20
    BY <1>1, <2>4 DEF IhlBytes
  <2> DEFINE x == Slice(a, 20, n)
             y == Slice(b, 20, n)
             src == Src(a)
             dst == Dst(a)
  <2>6. Body(a) = x /\ Body(b) = y
    BY <1>1, <2>5 DEF Body
  <2>7. ApartAt(x, y, p - 20)
    BY <1>1, <1>2, <1>4, <2>1, SliceApart
  <2>8. /\ x \in Seq(Byte) /\ y \in Seq(Byte) /\ Len(x) <= Mtu /\ Len(y) <= Mtu
        /\ src \in Addr /\ dst \in Addr
    BY <1>1, <2>6, ReadFacts
  <2> HIDE DEF x, y
  <2>9. Len(x) = Len(y) /\ Len(x) \in Word
    <3>1. Len(x) \in Nat
      BY <2>8
    <3> QED
      BY <2>7, <2>8, <3>1, MtuFacts DEF ApartAt
  <2>10. a[10] # Icmp
    <3> SUFFICES ASSUME a[10] = Icmp PROVE FALSE
      OBVIOUS
    <3>1. Calculate(x) = 0
      BY <1>1, <2>6 DEF BodyOk
    <3>2. Calculate(y) = 0
      BY <2>4, <2>6, Protocols DEF Accepted, IcmpOk
    <3>3. Rfc1071(x) = 0 /\ Rfc1071(y) = 0
      BY <2>8, <3>1, <3>2, CalculateWord
    <3> QED
      BY <2>7, <2>8, <3>3, ApartSums
  <2>11. ASSUME NEW proto \in Byte
         PROVE  ~(PseudoHdrCksum(x, src, dst, proto) = {0} /\ PseudoHdrCksum(y, src, dst, proto) = {0})
    <3> DEFINE q == Pseudo(src, dst, proto, Len(x))
    <3>1. q \in Seq(Byte)
      BY <2>8, <2>9, PseudoBytes
    <3>2. /\ PseudoHdrCksum(x, src, dst, proto) = {Rfc1071(Cat(q, x))} /\ Cat(q, x) \in Seq(Byte)
      BY <2>8, PseudoCksum
    <3>3. /\ PseudoHdrCksum(y, src, dst, proto) = {Rfc1071(Cat(q, y))} /\ Cat(q, y) \in Seq(Byte)
      BY <2>8, <2>9, PseudoCksum
    <3> HIDE DEF q
    <3>4. ApartAt(Cat(q, x), Cat(q, y), Len(q) + (p - 20))
      BY <2>7, <2>8, <3>1, CatApart
    <3>5. ~(Rfc1071(Cat(q, x)) = 0 /\ Rfc1071(Cat(q, y)) = 0)
      BY <3>2, <3>3, <3>4, ApartSums
    <3> QED
      BY <3>2, <3>3, <3>5
  <2>12. a[10] # Tcp
    <3> SUFFICES ASSUME a[10] = Tcp PROVE FALSE
      OBVIOUS
    <3>1. PseudoHdrCksum(x, src, dst, Tcp) = {0}
      BY <1>1, <2>6 DEF BodyOk
    <3>2. PseudoHdrCksum(y, src, dst, Tcp) = {0}
      BY <2>2, <2>3, <2>4, <2>6, Protocols DEF Accepted, TcpOk
    <3> QED
      BY <2>11, <3>1, <3>2, Protocols
  <2>13. a[10] # Udp
    <3> SUFFICES ASSUME a[10] = Udp PROVE FALSE
      OBVIOUS
    <3>1. Len(x) >= 8 /\ (U16(x, 6) # 0 => PseudoHdrCksum(x, src, dst, Udp) = {0})
      BY <1>1, <2>6 DEF BodyOk
    <3>2. Len(y) >= 8 /\ (U16(y, 6) # 0 => PseudoHdrCksum(y, src, dst, Udp) = {0})
      BY <2>2, <2>3, <2>4, <2>6, Protocols DEF Accepted, UdpOk
    <3>3. U16(x, 6) = U16(a, 26) /\ U16(y, 6) = U16(b, 26)
      <4>1. /\ \A k \in Nat : 1 <= k /\ k <= n - 20 => x[k] = a[20 + k]
            /\ \A k \in Nat : 1 <= k /\ k <= n - 20 => y[k] = b[20 + k]
            /\ Len(x) = n - 20
        <5>1. n <= Len(a) /\ n <= Len(b)
          BY <1>1, <1>4
        <5>2. Len(x) = n - 20
          BY <1>1, <1>4, <5>1, SliceFacts, ZenonT(40) DEF x
        <5>4. \A k \in Nat : 1 <= k /\ k <= n - 20 => x[k] = a[20 + k]
          BY <1>1, <1>4, <5>1, SliceFacts, ZenonT(40) DEF x
        <5>3. \A k \in Nat : 1 <= k /\ k <= n - 20 => y[k] = b[20 + k]
          BY <1>1, <1>4, <5>1, SliceFacts, ZenonT(40) DEF y
        <5> QED
          BY <5>2, <5>3, <5>4
      <4>2. /\ 6 + 1 \in Nat /\ 1 <= 6 + 1 /\ 6 + 1 <= n - 20 /\ 20 + (6 + 1) = 26 + 1
            /\ 6 + 2 \in Nat /\ 1 <= 6 + 2 /\ 6 + 2 <= n - 20 /\ 20 + (6 + 2) = 26 + 2
        BY <1>1, <3>1, <4>1, SMT
      <4>3. x[6 + 1] = a[26 + 1] /\ x[6 + 2] = a[26 + 2] /\ y[6 + 1] = b[26 + 1] /\ y[6 + 2] = b[26 + 2]
        BY <4>1, <4>2
      <4> QED
        BY <4>3 DEF U16
    <3>4. U16(x, 6) # 0 /\ U16(y, 6) # 0
      BY <3>3
    <3> QED
      BY <2>11, <3>1, <3>2, <3>4, Protocols
  <2>14. a[10] \in {Icmp, Tcp, Udp}
    BY <1>1 DEF HeaderOk, Protocol
  <2> QED
    BY <2>10, <2>12, <2>13, <2>14
<1> QED
  BY <1>5, <1>6

\* No packet of which one byte was damaged is accepted, unless the UDP checksum was
\* switched off by the sender or by the damage.
THEOREM SingleByteDamageIsDetected == Spec => []DamageIsDetected
<1>1. PacketInv => DamageIsDetected
  <2> SUFFICES ASSUME PacketInv, status \in {"noReply", "sent", "failed"}, NEW orig \in Wire,
                      OneByteApart(orig, read_buf), ValidPacket(orig),
                      ~(orig[10] = Udp /\ 0 \in {U16(orig, 26), U16(read_buf, 26)})
               PROVE  FALSE
    BY DEF DamageIsDetected
  <2>1. read_buf \in Wire /\ Accepted(read_buf)
    BY DEF PacketInv, Settled
  <2> QED
    BY <2>1, WireFacts, DamagedRejected
<1> QED
  BY <1>1, PacketInvariant, PTL
-----------------------------------------------------------------------------
(* Valid requests are answered in full.                                    *)

\* A word that is read is there.
LEMMA WordIsThere ==
    ASSUME NEW data \in Seq(Byte), NEW i \in Nat, i + 2 <= Len(data)
    PROVE  Holds(data, i, BeBytes(U16(data, i)))
<1> DEFINE x == data[i + 1]
           y == data[i + 2]
           v == x * 256 + y
           e == BeBytes(v)
<1>1. x \in Byte /\ y \in Byte
  <2>1. Len(data) \in Nat
    OBVIOUS
  <2>2. i + 1 \in 1..Len(data) /\ i + 2 \in 1..Len(data)
    BY <2>1, SMT
  <2> QED
    BY <2>2
<1>2. U16(data, i) = v
  BY DEF U16
<1> HIDE DEF x, y
<1>3. v \in Word
  BY <1>1, BytePair
<1>4. v \div 256 = x /\ v % 256 = y
  <2>1. x \in Nat /\ x <= 255 /\ y \in Nat /\ y <= 255
    BY <1>1, ByteNat
  <2> QED
    BY <2>1, SMT
<1>5. Len(e) = 2 /\ e[1] = x /\ e[2] = y
  BY <1>3, <1>4, BeBytesOf
<1> HIDE DEF e, v
<1>6. ASSUME NEW k \in Nat, 1 <= k, k <= 2 PROVE data[i + k] = e[k]
  <2>1. k = 1 \/ k = 2
    BY <1>6, SMT
  <2> QED
    BY <1>5, <2>1 DEF x, y
<1>7. Holds(data, i, e)
  BY <1>5, <1>6 DEF Holds
<1> QED
  BY <1>2, <1>7 DEF e

\* Offsets in the rest of a packet and in the whole of it.
LEMMA RestAt ==
    ASSUME NEW data \in Seq(Byte), Len(data) >= 20
    PROVE  LET b == Slice(data, 20, Len(data))
           IN  /\ b \in Seq(Byte) /\ Len(b) = Len(data) - 20 /\ Len(b) \in Nat
               /\ \A k \in Nat : 1 <= k /\ k <= Len(b) => b[k] = data[20 + k]
               /\ \A i \in Nat : i + 2 <= Len(b) => U16(b, i) = U16(data, 20 + i)
<1> DEFINE n == Len(data)
           b == Slice(data, 20, n)
<1>1. n \in Nat /\ 20 \in Nat /\ 20 <= n /\ n <= n /\ n - 20 \in Nat
  <2>1. n \in Nat
    OBVIOUS
  <2> QED
    BY <2>1, SMT
<1>2. b \in Seq(Byte) /\ Len(b) = n - 20 /\ \A k \in Nat : 1 <= k /\ k <= n - 20 => b[k] = data[20 + k]
  BY <1>1, SliceFacts, ZenonT(40)
<1> HIDE DEF b
<1>3. ASSUME NEW i \in Nat, i + 2 <= n - 20 PROVE U16(b, i) = U16(data, 20 + i)
  <2>1. /\ i + 1 \in Nat /\ 1 <= i + 1 /\ i + 1 <= n - 20 /\ 20 + (i + 1) = (20 + i) + 1
        /\ i + 2 \in Nat /\ 1 <= i + 2 /\ i + 2 <= n - 20 /\ 20 + (i + 2) = (20 + i) + 2
    BY <1>1, <1>3, SMT
  <2>2. b[i + 1] = data[(20 + i) + 1] /\ b[i + 2] = data[(20 + i) + 2]
    <3>1. b[i + 1] = data[20 + (i + 1)] /\ b[i + 2] = data[20 + (i + 2)]
      BY <1>2, <2>1, Zenon
    <3> QED
      BY <2>1, <3>1, Zenon
  <2> QED
    BY <2>2 DEF U16
<1> QED
  BY <1>1, <1>2, <1>3 DEF b

\* A slice of the rest is a slice of the packet.
LEMMA RestOfRest ==
    ASSUME NEW data \in Seq(Byte), NEW m \in Nat, NEW k \in Nat, m + k <= Len(data)
    PROVE  Slice(Slice(data, m, Len(data)), k, Len(Slice(data, m, Len(data))))
             = Slice(data, m + k, Len(data))
<1> DEFINE n == Len(data)
           b == Slice(data, m, n)
           c == Slice(b, k, Len(b))
           d == Slice(data, m + k, n)
<1>1. n \in Nat /\ m <= n /\ n <= n /\ k <= n - m /\ n - m \in Nat /\ m + k \in Nat
  <2>1. n \in Nat
    OBVIOUS
  <2> QED
    BY <2>1, SMT
<1>2. b \in Seq(Byte) /\ Len(b) = n - m /\ \A i \in Nat : 1 <= i /\ i <= n - m => b[i] = data[m + i]
  BY <1>1, SliceFacts, Zenon
<1> HIDE DEF b
<1>3. Len(b) \in Nat /\ k <= Len(b) /\ Len(b) <= Len(b)
  BY <1>1, <1>2, SMT
<1>4. /\ c \in Seq(Byte) /\ Len(c) = Len(b) - k
      /\ \A i \in Nat : 1 <= i /\ i <= Len(b) - k => c[i] = b[k + i]
  BY <1>2, <1>3, SliceFacts, Zenon
<1>5. /\ d \in Seq(Byte) /\ Len(d) = n - (m + k)
      /\ \A i \in Nat : 1 <= i /\ i <= n - (m + k) => d[i] = data[(m + k) + i]
  BY <1>1, SliceFacts, Zenon
<1> HIDE DEF c, d
<1>6. Len(c) = n - (m + k)
  BY <1>1, <1>2, <1>4, SMT
<1>7. ASSUME NEW i \in Nat, 1 <= i, i <= Len(c) PROVE c[i] = d[i]
  <2>1. /\ i <= Len(b) - k /\ i <= n - (m + k) /\ k + i \in Nat /\ 1 <= k + i /\ k + i <= n - m
        /\ m + (k + i) = (m + k) + i
    BY <1>1, <1>2, <1>6, <1>7, SMT
  <2>2. c[i] = b[k + i]
    BY <1>4, <1>7, <2>1
  <2>3. b[k + i] = data[m + (k + i)]
    BY <1>2, <2>1
  <2>4. d[i] = data[(m + k) + i]
    BY <1>5, <1>7, <2>1
  <2> QED
    BY <2>1, <2>2, <2>3, <2>4
<1>8. c = d
  BY <1>4, <1>5, <1>6, <1>7, SameBytes, ZenonT(40)
<1> QED
  BY <1>8 DEF b, c, d

\* A valid request is accepted, except for TCP flags that have no name.
LEMMA ValidAccepted ==
    ASSUME NEW data \in Packet, ValidPacket(data), EchoRequest(data)
    PROVE  Accepted(data) \/ (data[10] = Tcp /\ MaskedFlags(data[34]) \notin FlagBytes)
<1> DEFINE b == Body(data)
<1>1. /\ HeaderOk(data) /\ IhlBytes(data) = 20 /\ BodyOk(data)
      /\ data \in Seq(Byte) /\ Len(data) >= 20
  BY ValidParts DEF HeaderOk, Packet
<1>2. b = Slice(data, 20, Len(data))
  BY <1>1 DEF Body
<1>3. Len(b) \in Nat /\ \A k \in Nat : 1 <= k /\ k <= Len(b) => b[k] = data[20 + k]
  BY <1>1, <1>2, RestAt
<1> HIDE DEF b
<1>4. CASE data[10] = Icmp
  <2>1. Len(b) >= 8 /\ Calculate(b) = 0
    BY <1>1, <1>4 DEF BodyOk, b
  <2>2. 1 <= Len(b) /\ 2 <= Len(b) /\ 1 <= 1 /\ 1 <= 2 /\ 20 + 1 = 21 /\ 20 + 2 = 22
    BY <1>3, <2>1, SMT
  <2>3. b[1] = data[21] /\ b[2] = data[22]
    BY <1>3, <2>2
  <2>4. data[21] = 8 /\ data[22] = 0
    BY <1>4 DEF EchoRequest
  <2>5. IcmpOk(b)
    BY <2>1, <2>3, <2>4 DEF IcmpOk
  <2> QED
    BY <1>1, <1>4, <2>5 DEF Accepted, b
<1>5. CASE data[10] = Udp
  <2>1. UdpOk(b, Src(data), Dst(data))
    BY <1>1, <1>5 DEF BodyOk, UdpOk, b
  <2> QED
    BY <1>1, <1>5, <2>1 DEF Accepted, b
<1>6. CASE data[10] = Tcp
  <2>1. Len(b) >= 20 /\ PseudoHdrCksum(b, Src(data), Dst(data), Tcp) = {0}
    BY <1>1, <1>6 DEF BodyOk, b
  <2>2. 14 \in Nat /\ 1 <= 14 /\ 14 <= Len(b) /\ 20 + 14 = 34
    BY <1>3, <2>1, SMT
  <2>3. b[14] = data[34]
    BY <1>3, <2>2
  <2>4. MaskedFlags(data[34]) \in FlagBytes => TcpOk(b, Src(data), Dst(data))
    BY <2>1, <2>3 DEF TcpOk
  <2> QED
    BY <1>1, <1>6, <2>4 DEF Accepted, b
<1>7. data[10] \in {Icmp, Tcp, Udp}
  BY <1>1 DEF HeaderOk, Protocol
<1> QED
  BY <1>4, <1>5, <1>6, <1>7

\* The reply goes back to where the request came from and says what it has to say.
LEMMA ReplyAnswers ==
    ASSUME NEW req \in Packet, ValidPacket(req), Accepted(req),
           NEW rep, NEW r, ReplyTo(req, r), Sendable(r), PacketOf(rep, r)
    PROVE  Returned(req, rep) /\ Answers(req, rep)
<1>1. PICK h, c \in Seq(Byte) :
        /\ rep = Cat(h, c)
        /\ HeaderOf(h, TotalLen(r), r.proto, r.src, r.dst)
        /\ BodyOf(c, r)
  BY DEF PacketOf
<1>2. Layout(rep, h, c, r)
  BY <1>1, PacketLayout
<1> DEFINE n == Len(req)
           b == Slice(req, 20, n)
           m == Len(b)
           l == Len(r.payload)
<1>3. req \in Seq(Byte) /\ HeaderOk(req) /\ IhlBytes(req) = 20 /\ BodyOk(req) /\ n >= 20 /\ n \in Nat
  BY ValidParts DEF Packet, HeaderOk
<1>4. Body(req) = b
  BY <1>3 DEF Body
<1>5. /\ b \in Seq(Byte) /\ m = n - 20 /\ m \in Nat
      /\ \A k \in Nat : 1 <= k /\ k <= m => b[k] = req[20 + k]
      /\ \A i \in Nat : i + 2 <= m => U16(b, i) = U16(req, 20 + i)
  BY <1>3, RestAt, Zenon
<1>6. /\ rep \in Seq(Byte) /\ Len(rep) = TotalLen(r) /\ c \in Seq(Byte) /\ Len(c) = ProtoLen(r)
      /\ Slice(rep, 20, Len(rep)) = c /\ rep[10] = r.proto
      /\ Slice(rep, 12, 16) = r.src /\ Slice(rep, 16, 20) = r.dst
      /\ \A t \in Seq(Byte) : \A j \in Nat :
            Holds(c, j, t) /\ j + Len(t) <= Len(c) => Holds(rep, 20 + j, t)
  BY <1>2 DEF Layout
<1>7. /\ r.payload \in Seq(Byte) /\ l \in Nat /\ TotalLen(r) = 20 + ProtoLen(r)
      /\ ProtoLen(r) = HdrLen(r.proto) + l
      /\ HdrLen(r.proto) = IF r.proto = Tcp THEN 20 ELSE 8
  BY Lengths DEF Sendable
<1>8. /\ r.src = Slice(req, 16, 20) /\ r.dst = Slice(req, 12, 16) /\ r.proto = req[10]
  BY DEF ReplyTo, IcmpAnswer, UdpAnswer, TcpAnswer, Src, Dst
<1> HIDE DEF b
<1>9. CASE IcmpAnswer(req, r)
  <2> DEFINE id == BeBytes(r.id)
             sq == BeBytes(r.seq)
             pl == r.payload
             f == Cat(Cat(id, sq), pl)
  <2>1. /\ req[10] = Icmp /\ r.proto = Icmp /\ r.type = 0 /\ r.id = U16(b, 4) /\ r.seq = U16(b, 6)
        /\ pl = Slice(b, 8, m)
    BY <1>4, <1>9 DEF IcmpAnswer
  <2>2. m >= 8
    BY <1>3, <1>4, <2>1 DEF BodyOk
  <2>3. /\ 4 + 2 <= m /\ 6 + 2 <= m /\ 20 + 4 = 24 /\ 20 + 6 = 26 /\ 20 + 8 = 28 /\ 28 <= n
        /\ 24 + 2 <= n /\ 26 + 2 <= n /\ 4 \in Nat /\ 6 \in Nat /\ 8 \in Nat /\ 8 <= m
        /\ 20 \in Nat /\ 24 \in Nat /\ 26 \in Nat /\ 28 \in Nat /\ 20 + 8 <= n /\ n <= n
        /\ 24 + 2 = 26 /\ 24 + 4 = 28 /\ 0 \in Nat /\ 20 + 0 = 20 /\ 0 + 2 <= 8 + l
    BY <1>3, <1>5, <1>7, <2>2, SMT
  <2>4. r.id = U16(req, 24) /\ r.seq = U16(req, 26)
    BY <1>5, <2>1, <2>3
  <2>5. pl = Slice(req, 28, n) /\ l = n - 28
    <3>1. Slice(b, 8, m) = Slice(req, 20 + 8, n)
      BY <1>3, <2>3, RestOfRest DEF b
    <3>2. req \in Seq(Byte) /\ 28 \in Nat /\ n \in Nat /\ 28 <= n /\ n <= Len(req)
      BY <1>3, <2>3
    <3>3. Len(Slice(req, 28, n)) = n - 28
      BY <3>2, SliceFacts, ZenonT(40)
    <3> QED
      BY <2>1, <2>3, <3>1, <3>3
  <2>6. Len(c) = 8 + l /\ Len(rep) = n
    <3>1. ProtoLen(r) = 8 + l
      BY <1>7, <2>1, Protocols
    <3>2. 20 + (8 + (n - 28)) = n
      BY <1>3, SMT
    <3> QED
      BY <1>6, <1>7, <2>5, <3>1, <3>2
  <2>7. /\ id \in Seq(Byte) /\ Len(id) = 2 /\ sq \in Seq(Byte) /\ Len(sq) = 2
    BY <2>1, Protocols, BeBytesOf DEF Sendable
  <2>8. /\ Holds(c, 0, <<r.type, 0>>) /\ Holds(c, 4, id) /\ Holds(c, 6, sq) /\ Holds(c, 8, pl)
    BY <1>1, <2>1, Protocols DEF BodyOf, IcmpBody
  <2>9. Holds(req, 24, id) /\ Holds(req, 26, sq) /\ Holds(req, 28, pl)
    BY <1>3, <2>3, <2>4, <2>5, WordIsThere, SliceIsThere
  <2> HIDE DEF id, sq, pl
  <2>10. pl \in Seq(Byte) /\ Len(pl) = l
    BY <1>7 DEF pl
  <2>11. Holds(rep, 24, id) /\ Holds(rep, 26, sq) /\ Holds(rep, 28, pl)
    <3>1. 4 + Len(id) <= Len(c) /\ 6 + Len(sq) <= Len(c) /\ 8 + Len(pl) <= Len(c)
      BY <1>7, <2>6, <2>7, <2>10, SMT
    <3>2. Holds(rep, 20 + 4, id) /\ Holds(rep, 20 + 6, sq) /\ Holds(rep, 20 + 8, pl)
      BY <1>6, <2>3, <2>7, <2>8, <2>10, <3>1, Zenon
    <3> QED
      BY <2>3, <3>2
  <2>12. Cat(id, sq) \in Seq(Byte) /\ Len(Cat(id, sq)) = 4 /\ f \in Seq(Byte) /\ Len(f) = 4 + l
    <3>1. Cat(id, sq) \in Seq(Byte) /\ Len(Cat(id, sq)) = Len(id) + Len(sq)
      BY <2>7, CatLen
    <3>2. f \in Seq(Byte) /\ Len(f) = Len(Cat(id, sq)) + Len(pl)
      BY <2>10, <3>1, CatLen
    <3> QED
      BY <2>7, <2>10, <3>1, <3>2
  <2>13. ASSUME NEW q, Holds(q, 24, id), Holds(q, 26, sq), Holds(q, 28, pl) PROVE Holds(q, 24, f)
    <3>1. Holds(q, 24 + Len(id), sq)
      BY <2>3, <2>7, <2>13
    <3>2. Holds(q, 24, Cat(id, sq))
      BY <2>3, <2>7, <2>13, <3>1, HoldsJoin
    <3>3. Holds(q, 24 + Len(Cat(id, sq)), pl)
      BY <2>3, <2>12, <2>13
    <3> QED
      BY <2>3, <2>10, <2>12, <3>2, <3>3, HoldsJoin
  <2>14. Holds(req, 24, f) /\ Holds(rep, 24, f)
    BY <2>9, <2>11, <2>13
  <2> HIDE DEF f
  <2>15. n = 24 + Len(f)
    BY <1>3, <2>5, <2>12, SMT
  <2>16. Slice(req, 24, n) = f
    BY <1>3, <2>3, <2>12, <2>14, <2>15, SliceHolds
  <2>17. Slice(rep, 24, n) = f
    <3>1. n <= Len(rep)
      BY <2>3, <2>6
    <3> QED
      BY <1>3, <1>6, <2>3, <2>12, <2>14, <2>15, <3>1, SliceHolds
  <2>18. rep[21] = 0 /\ rep[22] = 0
    <3> DEFINE e == <<r.type, 0>>
    <3>1. e \in Seq(Byte) /\ Len(e) = 2
      BY <2>1, Zeros
    <3>2. Holds(c, 0, e)
      BY <2>8
    <3> HIDE DEF e
    <3>3. 0 + Len(e) <= Len(c)
      BY <2>3, <2>6, <3>1
    <3>4. Holds(rep, 20 + 0, e)
      BY <1>6, <2>3, <3>1, <3>2, <3>3
    <3>5. Holds(rep, 20, <<r.type, 0>>)
      BY <2>3, <3>4 DEF e
    <3>6. rep[20 + 1] = r.type /\ rep[20 + 2] = 0
      BY <2>3, <3>5, HoldsPair
    <3>7. 20 + 1 = 21 /\ 20 + 2 = 22
      BY SMT
    <3> QED
      BY <2>1, <3>6, <3>7
  <2>19. Slice(rep, 24, Len(rep)) = Slice(req, 24, Len(req))
    BY <2>6, <2>16, <2>17
  <2>20. Answers(req, rep)
    BY <2>1, <2>18, <2>19, Protocols DEF Answers
  <2>21. Returned(req, rep)
    BY <1>6, <1>8, <2>1 DEF Returned
  <2> QED
    BY <2>20, <2>21
<1>10. ASSUME r.sport \in Word, r.dport \in Word, r.sport = U16(b, 2), r.dport = U16(b, 0),
              Holds(c, 0, BeBytes(r.sport)), Holds(c, 2, BeBytes(r.dport)),
              m >= 8, Len(c) >= 8
       PROVE  Returned(req, rep)
  <2> DEFINE sp == BeBytes(r.sport)
             dp == BeBytes(r.dport)
  <2>1. /\ sp \in Seq(Byte) /\ Len(sp) = 2 /\ dp \in Seq(Byte) /\ Len(dp) = 2
    BY <1>10, BeBytesOf
  <2>2. Holds(c, 0, sp) /\ Holds(c, 2, dp)
    BY <1>10
  <2> HIDE DEF sp, dp
  <2>3. Len(c) \in Nat
    BY <1>6
  <2>4. /\ 0 \in Nat /\ 2 \in Nat /\ 20 \in Nat /\ 22 \in Nat /\ 20 + 0 = 20 /\ 20 + 2 = 22
        /\ 0 + 2 <= m /\ 2 + 2 <= m /\ 0 + 2 <= Len(c) /\ 2 + 2 <= Len(c)
    BY <1>5, <1>10, <2>3, SMT
  <2>5. Holds(rep, 20, sp) /\ Holds(rep, 22, dp)
    <3>1. Holds(rep, 20 + 0, sp) /\ Holds(rep, 20 + 2, dp)
      BY <1>6, <2>1, <2>2, <2>4
    <3> QED
      BY <2>4, <3>1
  <2>6. U16(rep, 20) = r.sport /\ U16(rep, 22) = r.dport
    BY <1>10, <2>4, <2>5, HoldsWord DEF sp, dp
  <2>7. U16(b, 2) = U16(req, 22) /\ U16(b, 0) = U16(req, 20)
    BY <1>5, <2>4
  <2> QED
    BY <1>6, <1>8, <1>10, <2>6, <2>7 DEF Returned
<1>11. CASE UdpAnswer(req, r)
  <2> DEFINE rest == Slice(b, 8, m)
             pl == r.payload
  <2>1. /\ req[10] = Udp /\ r.proto = Udp /\ r.sport = U16(b, 2) /\ r.dport = U16(b, 0)
        /\ pl = HandleUdp(rest)
    BY <1>4, <1>11 DEF UdpAnswer
  <2>2. m >= 8
    BY <1>3, <1>4, <2>1 DEF BodyOk
  <2>3. /\ 20 + 6 = 26 /\ 20 + 8 = 28 /\ 28 <= n /\ 6 \in Nat /\ 8 \in Nat /\ 8 <= m /\ m <= m
        /\ 20 \in Nat /\ 28 \in Nat /\ 20 + 8 <= n /\ n <= n
    BY <1>3, <1>5, <2>2, SMT
  <2>4. /\ rest \in Seq(Byte) /\ Len(rest) = m - 8
        /\ \A k \in Nat : 1 <= k /\ k <= m - 8 => rest[k] = b[8 + k]
    <3>1. b \in Seq(Byte) /\ 8 \in Nat /\ m \in Nat /\ 8 <= m /\ m <= Len(b)
      BY <1>5, <2>3
    <3> QED
      BY <3>1, SliceFacts, ZenonT(40)
  <2> HIDE DEF rest
  <2>5. /\ pl \in Seq(Byte) /\ Len(pl) = m - 8
        /\ \A k \in Nat : 1 <= k /\ k <= m - 8 =>
              IF App = "Shout" THEN UppercaseOf(rest[k], pl[k]) ELSE pl[k] = rest[k]
    BY <2>1, <2>4, HandleUdpFacts
  <2>6. Len(c) = 8 + (m - 8) /\ Len(rep) = n /\ Len(c) \in Nat /\ Len(c) >= 8 /\ 6 + 2 <= Len(c)
    <3>1. ProtoLen(r) = 8 + (m - 8)
      BY <1>7, <2>1, <2>5, Protocols
    <3>2. /\ 20 + (8 + (m - 8)) = n /\ 8 + (m - 8) \in Nat /\ 8 + (m - 8) >= 8 /\ 6 + 2 <= 8 + (m - 8)
      BY <1>3, <1>5, <2>2, SMT
    <3> QED
      BY <1>6, <1>7, <3>1, <3>2
  <2>7. UdpBody(c, r)
    BY <1>1, <2>1, Protocols DEF BodyOf
  <2>8. /\ Holds(c, 0, BeBytes(r.sport)) /\ Holds(c, 2, BeBytes(r.dport))
        /\ U16(c, 6) # 0 /\ Holds(c, 8, pl)
    BY <2>7 DEF UdpBody
  <2> HIDE DEF pl
  <2>9. r.sport \in Word /\ r.dport \in Word
    BY <2>1, Protocols DEF Sendable
  <2>10. Returned(req, rep)
    BY <1>10, <2>1, <2>2, <2>6, <2>8, <2>9
  <2>11. U16(rep, 26) # 0
    <3>1. \A i \in Nat : i + 2 <= Len(c) => U16(c, i) = U16(rep, 20 + i)
      BY <1>3, <1>6, <2>6, RestAt
    <3> QED
      BY <2>3, <2>6, <2>8, <3>1
  <2>12. Holds(rep, 28, pl)
    <3>1. 8 + Len(pl) <= Len(c)
      BY <1>5, <2>5, <2>6, SMT
    <3>2. Holds(rep, 20 + 8, pl)
      BY <1>6, <2>3, <2>5, <2>8, <3>1
    <3> QED
      BY <2>3, <3>2
  <2>13. ASSUME NEW i \in 29..n
         PROVE  IF App = "Shout" THEN UppercaseOf(req[i], rep[i]) ELSE rep[i] = req[i]
    <3> DEFINE k == i - 28
    <3>1. /\ k \in Nat /\ 1 <= k /\ k <= m - 8 /\ 28 + k = i /\ 20 + (8 + k) = i
          /\ 8 + k \in Nat /\ 1 <= 8 + k /\ 8 + k <= m
      BY <1>3, <1>5, SMT
    <3> HIDE DEF k
    <3>2. rep[28 + k] = pl[k]
      BY <2>5, <2>12, <3>1 DEF Holds
    <3>3. rest[k] = b[8 + k]
      BY <2>4, <3>1
    <3>4. b[8 + k] = req[20 + (8 + k)]
      BY <1>5, <3>1
    <3>5. rep[i] = pl[k] /\ rest[k] = req[i]
      BY <3>1, <3>2, <3>3, <3>4
    <3>6. IF App = "Shout" THEN UppercaseOf(rest[k], pl[k]) ELSE pl[k] = rest[k]
      BY <2>5, <3>1
    <3> QED
      BY <3>5, <3>6
  <2>14. Answers(req, rep)
    <3>1. \A i \in 29..Len(req) : IF App = "Shout" THEN UppercaseOf(req[i], rep[i]) ELSE rep[i] = req[i]
      BY <1>3, <2>13
    <3>2. Len(rep) = Len(req) /\ req[10] = Udp /\ req[10] # Icmp /\ req[10] # Tcp
      BY <1>3, <2>1, <2>6, Protocols
    <3> QED
      BY <2>11, <3>1, <3>2, SMT DEF Answers
  <2> QED
    BY <2>10, <2>14
<1>12. CASE \E info \in TcpReplies : TcpAnswer(req, r, info)
  <2>1. PICK info \in TcpReplies : TcpAnswer(req, r, info)
    BY <1>12
  <2> DEFINE pl == r.payload
             wn == BeBytes(r.window)
             fl == <<80, r.flags>>
             sq == r.seq
             ak == r.ack
  <2>2. /\ req[10] = Tcp /\ r.proto = Tcp /\ r.sport = U16(b, 2) /\ r.dport = U16(b, 0)
        /\ sq = info.seq /\ ak = info.ack /\ r.flags = info.flags /\ r.window = Ones
        /\ pl = info.payload
    BY <1>4, <2>1 DEF TcpAnswer
  <2>3. /\ r.sport \in Word /\ r.dport \in Word /\ r.window \in Word /\ r.flags \in Byte
        /\ sq \in Seq(Byte) /\ Len(sq) = 4 /\ ak \in Seq(Byte) /\ Len(ak) = 4
    BY <2>2, Protocols DEF Sendable, Addr
  <2>4. /\ wn \in Seq(Byte) /\ Len(wn) = 2 /\ fl \in Seq(Byte) /\ Len(fl) = 2
    BY <2>3, BeBytesOf, Tuples
  <2>5. m >= 8
    <3>1. m >= 20
      BY <1>3, <1>4, <2>2 DEF BodyOk
    <3> QED
      BY <1>5, <3>1, SMT
  <2>6. TcpBody(c, r)
    BY <1>1, <2>2, Protocols DEF BodyOf
  <2>7. /\ Holds(c, 0, BeBytes(r.sport)) /\ Holds(c, 2, BeBytes(r.dport))
        /\ Holds(c, 4, sq) /\ Holds(c, 8, ak) /\ Holds(c, 12, fl) /\ Holds(c, 14, wn)
        /\ Holds(c, 20, pl)
    BY <2>6 DEF TcpBody
  <2>8. pl \in Seq(Byte) /\ Len(pl) = l
    BY <1>7
  <2> HIDE DEF pl, wn, fl, sq, ak
  <2>9. Len(c) = 20 + l /\ Len(rep) = 20 + (20 + l)
    BY <1>6, <1>7, <2>2
  <2>10. /\ Len(c) >= 8 /\ 4 + 4 <= Len(c) /\ 8 + 4 <= Len(c) /\ 12 + 2 <= Len(c) /\ 14 + 2 <= Len(c)
         /\ 20 + l <= Len(c) /\ Len(rep) = 40 + l /\ 28 <= Len(rep) /\ 32 <= Len(rep) /\ Len(rep) <= Len(rep)
         /\ 20 + 4 = 24 /\ 20 + 8 = 28 /\ 20 + 12 = 32 /\ 20 + 14 = 34 /\ 20 + 20 = 40
         /\ 28 = 24 + 4 /\ 32 = 28 + 4 /\ 32 + 1 = 33 /\ 32 + 2 = 34
         /\ Len(rep) \in Nat
    BY <1>7, <2>9, SMT
  <2>11. 4 \in Nat /\ 8 \in Nat /\ 12 \in Nat /\ 14 \in Nat /\ 20 \in Nat /\ 24 \in Nat /\ 28 \in Nat /\ 32 \in Nat
         /\ 34 \in Nat /\ 40 \in Nat
    BY SMT
  <2>12. Returned(req, rep)
    BY <1>10, <2>2, <2>3, <2>5, <2>7, <2>10
  <2>13. Holds(rep, 24, sq) /\ Holds(rep, 28, ak) /\ Holds(rep, 32, fl) /\ Holds(rep, 34, wn) /\ Holds(rep, 40, pl)
    <3>1. /\ 4 + Len(sq) <= Len(c) /\ 8 + Len(ak) <= Len(c) /\ 12 + Len(fl) <= Len(c)
          /\ 14 + Len(wn) <= Len(c) /\ 20 + Len(pl) <= Len(c)
      BY <2>3, <2>4, <2>8, <2>10
    <3>2. /\ Holds(rep, 20 + 4, sq) /\ Holds(rep, 20 + 8, ak) /\ Holds(rep, 20 + 12, fl)
          /\ Holds(rep, 20 + 14, wn) /\ Holds(rep, 20 + 20, pl)
      BY <1>6, <2>3, <2>4, <2>7, <2>8, <2>11, <3>1
    <3> QED
      BY <2>10, <3>2
  <2>14. Slice(rep, 24, 28) = info.seq
    <3>1. 28 = 24 + Len(sq)
      BY <2>3, <2>10
    <3>2. rep \in Seq(Byte) /\ 24 \in Nat /\ 28 \in Nat /\ sq \in Seq(Byte) /\ Holds(rep, 24, sq)
          /\ 28 <= Len(rep)
      BY <1>6, <2>3, <2>10, <2>11, <2>13
    <3>3. Slice(rep, 24, 28) = sq
      BY <3>1, <3>2, SliceHolds, Zenon
    <3> QED
      BY <2>2, <3>3
  <2>15. Slice(rep, 28, 32) = info.ack
    <3>1. 32 = 28 + Len(ak)
      BY <2>3, <2>10
    <3>2. rep \in Seq(Byte) /\ 28 \in Nat /\ 32 \in Nat /\ ak \in Seq(Byte) /\ Holds(rep, 28, ak)
          /\ 32 <= Len(rep)
      BY <1>6, <2>3, <2>10, <2>11, <2>13
    <3>3. Slice(rep, 28, 32) = ak
      BY <3>1, <3>2, SliceHolds, Zenon
    <3> QED
      BY <2>2, <3>3
  <2>16. Slice(rep, 40, Len(rep)) = info.payload
    <3>1. Len(rep) = 40 + Len(pl)
      BY <2>8, <2>10
    <3> QED
      BY <1>6, <2>2, <2>8, <2>10, <2>11, <2>13, <3>1, SliceHolds, ZenonT(40)
  <2>17. rep[33] = 80 /\ rep[34] = info.flags
    <3>1. Holds(rep, 32, <<80, r.flags>>)
      BY <2>13 DEF fl
    <3>2. rep[32 + 1] = 80 /\ rep[32 + 2] = r.flags
      BY <2>11, <3>1, HoldsPair
    <3> QED
      BY <2>2, <2>10, <3>2
  <2>18. U16(rep, 34) = 65535
    <3>1. Holds(rep, 34, BeBytes(r.window))
      BY <2>13 DEF wn
    <3>2. U16(rep, 34) = r.window
      BY <2>3, <2>11, <3>1, HoldsWord
    <3> QED
      BY <2>2, <3>2, Bounds, SMT
  <2>19. \E i \in TcpReplies :
            /\ Slice(rep, 24, 28) = i.seq /\ Slice(rep, 28, 32) = i.ack
            /\ rep[33] = 80 /\ rep[34] = i.flags
            /\ U16(rep, 34) = 65535 /\ Slice(rep, 40, Len(rep)) = i.payload
    BY <2>14, <2>15, <2>16, <2>17, <2>18, SMT
  <2>20. Answers(req, rep)
    BY <2>2, <2>19, Protocols, SMT DEF Answers
  <2> QED
    BY <2>12, <2>20
<1> QED
  BY <1>9, <1>11, <1>12 DEF ReplyTo

\* A valid request is understood, and its reply is a valid packet that goes back to where
\* the request came from and has the right content, whatever the write buffer holds of
\* earlier and longer replies.
THEOREM RequestsAreAnswered == Spec => []AnsweredInFull
<1>1. PacketInv => AnsweredInFull
  <2> SUFFICES ASSUME PacketInv, status \in {"skipped", "noReply", "sent", "failed"},
                      ValidPacket(read_buf), EchoRequest(read_buf)
               PROVE  \/ status = "sent" /\ ValidPacket(sent) /\ Returned(read_buf, sent)
                                         /\ Answers(read_buf, sent)
                      \/ status = "noReply" /\ read_buf[10] = Tcp
                      \/ /\ status = "skipped" /\ read_buf[10] = Tcp
                         /\ MaskedFlags(read_buf[34]) \notin FlagBytes
    BY DEF AnsweredInFull
  <2>1. Settled /\ read_buf \in Packet
    <3>1. read_buf \in Wire
      BY DEF PacketInv, Settled
    <3> QED
      BY <3>1, WireFacts DEF PacketInv
  <2>2. CASE status = "skipped"
    <3>1. ~Accepted(read_buf)
      BY <2>1, <2>2 DEF Settled
    <3> QED
      BY <2>1, <2>2, <3>1, ValidAccepted
  <2>3. CASE status = "noReply"
    BY <2>1, <2>3 DEF Settled
  <2>4. CASE status = "failed"
    <3>1. IhlBytes(read_buf) < 20 /\ IhlBytes(read_buf) = 20
      BY <2>1, <2>4, ValidParts DEF Settled
    <3> QED
      BY <3>1, SMT
  <2>5. CASE status = "sent"
    <3>1. Accepted(read_buf)
      BY <2>1, <2>5 DEF Settled
    <3>2. PICK reply : ReplyTo(read_buf, reply) /\ Sendable(reply) /\ PacketOf(sent, reply)
      BY <2>1, <2>5 DEF Settled
    <3>3. ValidPacket(sent)
      BY <3>2, PacketValid
    <3>4. Returned(read_buf, sent) /\ Answers(read_buf, sent)
      BY <2>1, <3>1, <3>2, ReplyAnswers
    <3> QED
      BY <2>5, <3>3, <3>4
  <2> QED
    BY <2>2, <2>3, <2>4, <2>5
<1> QED
  BY <1>1, PacketInvariant, PTL
=============================================================================
