--------------------------- MODULE ChecksumProofs ---------------------------
(***************************************************************************)
(* The implementations of the checksum compute the one's complement sum of *)
(* RFC 1071 for every input, every number of lanes in an addend and every  *)
(* size of a byte.                                                         *)
(***************************************************************************)
EXTENDS MCChecksum, TLAPS, WellFoundedInduction, SequenceTheorems

-----------------------------------------------------------------------------
(* Residues.  One's complement arithmetic is arithmetic modulo Ones, with  *)
(* two representations of zero: 0 and Ones.                                *)

\* The largest lane, which is congruent to 0.
Ones == LaneMod - 1

\* The one's complement sum, in a lane, of words whose plain sum is x.
Residue(x) == IF x = 0 THEN 0 ELSE ((x - 1) % Ones) + 1

\* x and t have the same one's complement sum.
Same(x, t) ==
    /\ x \in Nat /\ t \in Nat
    /\ x = 0 <=> t = 0
    /\ \E k \in Int : x = t + k * Ones

\* The sizes of bytes, lanes and chunks.
LEMMA Sizes ==
    /\ ByteMod \in Nat /\ ByteMod >= 2
    /\ LaneMod \in Nat /\ LaneMod >= 4 /\ LaneMod >= 2 * ByteMod
    /\ Ones \in Nat /\ Ones >= 3 /\ LaneMod = Ones + 1
    /\ ChunkLanes \in Nat /\ ChunkLanes >= 1
<1>1. ByteMod \in Nat /\ ByteMod >= 2 /\ ChunkLanes \in Nat /\ ChunkLanes >= 1
  BY ChecksumAssumption, SMT
<1>2. ByteMod * ByteMod >= 2 * ByteMod /\ ByteMod * ByteMod \in Nat
  BY <1>1, SMT
<1> QED
  BY <1>1, <1>2, SMT DEF LaneMod, Ones

\* Division with remainder is unique.
LEMMA DivUnique ==
    ASSUME NEW n \in Nat, n > 0, NEW q \in Int, NEW r \in 0..(n - 1)
    PROVE  (q * n + r) % n = r /\ (q * n + r) \div n = q
<1> DEFINE x == q * n + r
           p == x \div n
           s == x % n
<1>1. x \in Int /\ p \in Int /\ s \in 0..(n - 1) /\ x = n * p + s
  BY SMT
<1> SUFFICES s = r /\ p = q
  OBVIOUS
<1>2. x = q * n + r
  OBVIOUS
<1> HIDE DEF x, p, s
<1>3. n * (p - q) = r - s
  BY <1>1, <1>2, SMT
<1>4. p - q < 1
  <2> SUFFICES ASSUME p - q >= 1 PROVE FALSE
    BY <1>1, SMT
  <2>1. n * (p - q) >= n
    BY <1>1, SMT
  <2> QED
    BY <1>1, <1>3, <2>1, SMT
<1>5. p - q > -1
  <2> SUFFICES ASSUME p - q <= -1 PROVE FALSE
    BY <1>1, SMT
  <2>1. n * (p - q) <= -n
    BY <1>1, SMT
  <2> QED
    BY <1>1, <1>3, <2>1, SMT
<1>6. p = q
  BY <1>1, <1>4, <1>5, SMT
<1> QED
  BY <1>1, <1>2, <1>6, SMT

\* Division with remainder.
LEMMA DivDef ==
    ASSUME NEW n \in Nat, n > 0, NEW x \in Int
    PROVE  /\ x \div n \in Int /\ x % n \in 0..(n - 1)
           /\ x = (x \div n) * n + (x % n)
           /\ x \in Nat => x \div n \in Nat
<1>1. x \div n \in Int /\ x % n \in 0..(n - 1) /\ x = n * (x \div n) + (x % n)
  BY SMT
<1> DEFINE q == x \div n
           r == x % n
<1> HIDE DEF q, r
<1>2. q \in Int /\ r \in 0..(n - 1) /\ x = n * q + r
  BY <1>1 DEF q, r
<1>3. x = q * n + r
  BY <1>2, SMT
<1>4. x \in Nat => q \in Nat
  <2> SUFFICES ASSUME x \in Nat, q <= -1 PROVE FALSE
    BY <1>2, SMT
  <2>1. n * q <= -n
    BY <1>2, SMT
  <2> QED
    BY <1>2, <2>1, SMT
<1> QED
  BY <1>1, <1>3, <1>4 DEF q, r

\* A multiple of Ones does not change the residue of what is not 0.
LEMMA ResidueShift ==
    ASSUME NEW t \in Nat, NEW k \in Int, t # 0, t + k * Ones \in Nat, t + k * Ones # 0
    PROVE  Residue(t + k * Ones) = Residue(t)
<1> DEFINE q == (t - 1) \div Ones
           r == (t - 1) % Ones
<1>1. Ones \in Nat /\ Ones > 0 /\ t - 1 \in Int
  BY Sizes, SMT
<1>2. q \in Int /\ r \in 0..(Ones - 1) /\ t - 1 = q * Ones + r
  BY <1>1, DivDef, Zenon
<1> HIDE DEF q, r
<1>3. (t + k * Ones) - 1 = (q + k) * Ones + r /\ q + k \in Int
  BY <1>1, <1>2, SMT
<1>4. ((q + k) * Ones + r) % Ones = r
  BY <1>1, <1>2, <1>3, DivUnique, Zenon
<1> QED
  BY <1>3, <1>4 DEF Residue, r

\* Numbers with the same sum have the same residue.
LEMMA SameResidue ==
    ASSUME NEW x, NEW t, Same(x, t)
    PROVE  Residue(x) = Residue(t)
<1>1. x \in Nat /\ t \in Nat /\ (x = 0 <=> t = 0)
  BY DEF Same
<1>2. PICK k \in Int : x = t + k * Ones
  BY DEF Same
<1>3. CASE t = 0
  BY <1>1, <1>3
<1>4. CASE t # 0
  BY <1>1, <1>2, <1>4, ResidueShift, Zenon
<1> QED
  BY <1>3, <1>4

\* Up to Ones a number is its own residue.
LEMMA ResidueSmall ==
    ASSUME NEW x \in 0..Ones
    PROVE  Residue(x) = x
<1>1. CASE x = 0
  BY <1>1 DEF Residue
<1>2. CASE x # 0
  <2>1. 0 \in Int /\ x - 1 \in 0..(Ones - 1) /\ Ones \in Nat /\ Ones > 0
    BY <1>2, Sizes, SMT
  <2>2. (0 * Ones + (x - 1)) % Ones = x - 1
    BY <2>1, DivUnique, Zenon
  <2>3. 0 * Ones + (x - 1) = x - 1 /\ (x - 1) + 1 = x
    BY <2>1, Sizes, SMT
  <2> QED
    BY <1>2, <2>2, <2>3 DEF Residue
<1> QED
  BY <1>1, <1>2

\* A residue fits a lane.
LEMMA ResidueType ==
    ASSUME NEW x \in Nat
    PROVE  Residue(x) \in 0..Ones
<1>1. Ones \in Nat /\ Ones > 0 /\ x - 1 \in Int
  BY Sizes, SMT
<1>2. (x - 1) % Ones \in 0..(Ones - 1)
  BY <1>1, DivDef, Zenon
<1>3. ((x - 1) % Ones) + 1 \in 0..Ones /\ 0 \in 0..Ones
  BY <1>1, <1>2, SMT
<1> QED
  BY <1>3 DEF Residue

\* Same is reflexive,
LEMMA SameRefl ==
    ASSUME NEW x \in Nat
    PROVE  Same(x, x)
<1>1. 0 \in Int /\ x = x + 0 * Ones
  BY Sizes, SMT
<1> QED
  BY <1>1 DEF Same

\* transitive
LEMMA SameTrans ==
    ASSUME NEW x, NEW y, NEW z, Same(x, y), Same(y, z)
    PROVE  Same(x, z)
<1>1. PICK k \in Int : x = y + k * Ones
  BY DEF Same
<1>2. PICK m \in Int : y = z + m * Ones
  BY DEF Same
<1>3. x \in Nat /\ y \in Nat /\ z \in Nat /\ (x = 0 <=> z = 0)
  BY DEF Same
<1>4. k + m \in Int /\ x = z + (k + m) * Ones
  BY <1>1, <1>2, <1>3, Sizes, SMT
<1> QED
  BY <1>3, <1>4 DEF Same

\* and preserved by addition.
LEMMA SameAdd ==
    ASSUME NEW x, NEW t, NEW y, NEW u, Same(x, t), Same(y, u)
    PROVE  Same(x + y, t + u)
<1>1. PICK k \in Int : x = t + k * Ones
  BY DEF Same
<1>2. PICK m \in Int : y = u + m * Ones
  BY DEF Same
<1>3. /\ x \in Nat /\ t \in Nat /\ y \in Nat /\ u \in Nat
      /\ (x = 0 <=> t = 0) /\ (y = 0 <=> u = 0)
  BY DEF Same
<1>4. k + m \in Int /\ x + y = (t + u) + (k + m) * Ones
  BY <1>1, <1>2, <1>3, Sizes, SMT
<1>5. x + y \in Nat /\ t + u \in Nat /\ (x + y = 0 <=> t + u = 0)
  BY <1>3, SMT
<1> QED
  BY <1>4, <1>5 DEF Same

\* A lane's carry counts as one.
LEMMA SameLane ==
    ASSUME NEW v \in Nat
    PROVE  Same(v * LaneMod, v)
<1>1. v * LaneMod = v + v * Ones /\ v \in Int /\ v * LaneMod \in Nat
  BY Sizes, SMT
<1>2. v * LaneMod = 0 <=> v = 0
  BY Sizes, SMT
<1> QED
  BY <1>1, <1>2 DEF Same

\* Folding keeps the residue, and makes a number that has anything to fold smaller.
LEMMA FoldFacts ==
    ASSUME NEW y \in Nat
    PROVE  /\ Fold(y) \in Nat
           /\ Same(Fold(y), y)
           /\ y >= LaneMod => Fold(y) < y
           /\ y < LaneMod => Fold(y) = y
<1> DEFINE q == y \div LaneMod
           r == y % LaneMod
<1>1. q \in Nat /\ r \in 0..(LaneMod - 1) /\ y = q * LaneMod + r
  <2>1. LaneMod \in Nat /\ LaneMod > 0 /\ y \in Int
    BY Sizes, SMT
  <2> QED
    BY <2>1, DivDef, Zenon
<1>2. Fold(y) = r + q
  BY DEF Fold
<1> HIDE DEF q, r
<1>3. Same(r, r) /\ Same(q * LaneMod, q)
  BY <1>1, SameRefl, SameLane, Sizes, SMT
<1>4. q + r \in Nat /\ q + r = r + q
  BY <1>1, Sizes, SMT
<1>5. Same(r + q, y)
  <2>1. PICK k \in Int : q * LaneMod = q + k * Ones
    BY <1>3 DEF Same
  <2>2. -k \in Int /\ r + q = y + (-k) * Ones
    BY <1>1, <2>1, Sizes, SMT
  <2>3. r + q = 0 <=> y = 0
    <3>1. (q * LaneMod = 0 <=> q = 0) /\ q * LaneMod \in Nat
      BY <1>3 DEF Same
    <3> QED
      BY <1>1, <3>1, Sizes, SMT
  <2> QED
    BY <1>4, <2>2, <2>3 DEF Same
<1>6. y < LaneMod => q = 0
  <2> SUFFICES ASSUME y < LaneMod, q >= 1 PROVE FALSE
    BY <1>1, SMT
  <2>1. q * LaneMod >= LaneMod
    BY <1>1, Sizes, SMT
  <2> QED
    BY <1>1, <2>1, Sizes, SMT
<1>7. y >= LaneMod => r + q < y
  <2> SUFFICES ASSUME y >= LaneMod PROVE r + q < y
    OBVIOUS
  <2>1. q # 0
    BY <1>1, Sizes, SMT
  <2>2. q * LaneMod = q * Ones + q /\ q * Ones >= 1 /\ q * Ones \in Nat
    BY <1>1, <2>1, Sizes, SMT
  <2> QED
    BY <1>1, <2>2, Sizes, SMT
<1>8. y < LaneMod => r + q = y
  BY <1>1, <1>6, Sizes, SMT
<1> QED
  BY <1>2, <1>4, <1>5, <1>7, <1>8

\* A set of naturals that holds a number whenever it holds all smaller ones holds them all.
LEMMA AllByLess ==
    ASSUME NEW S, \A n \in Nat : (\A m \in Nat : m < n => m \in S) => n \in S
    PROVE  Nat \subseteq S
<1> DEFINE T == Nat \ S
           R == OpToRel(<, Nat)
<1> SUFFICES ASSUME T # {} PROVE FALSE
  OBVIOUS
<1>1. PICK x \in T : \A y \in T : ~(<<y, x>> \in R)
  BY WFMin, NatLessThanWellFounded, Zenon
<1>2. \A y \in T : ~(y < x)
  BY <1>1 DEF OpToRel
<1>3. \A m \in Nat : m < x => m \in S
  BY <1>2
<1> QED
  BY <1>3

\* However often it takes to fold a sum into a lane, the result is the residue's complement.
LEMMA FoldAndFlipResidue ==
    ASSUME NEW x \in Nat
    PROVE  FoldAndFlip[x] = Ones - Residue(x)
<1> DEFINE Def(f) == [y \in Nat |-> IF y >= LaneMod THEN f[Fold(y)] ELSE LaneMod - 1 - y]
           g == [y \in Nat |-> Ones - Residue(y)]
<1>1. ASSUME NEW y \in Nat, y < LaneMod
      PROVE  LaneMod - 1 - y = Ones - Residue(y)
  <2>1. y \in 0..Ones /\ LaneMod - 1 - y = Ones - y
    BY <1>1, Sizes, SMT
  <2> QED
    BY <2>1, ResidueSmall
<1>2. \A y \in Nat : Fold(y) \in Nat /\ Residue(Fold(y)) = Residue(y)
  BY FoldFacts, SameResidue
<1>3. \A y \in Nat : ~(y >= LaneMod) => y < LaneMod
  BY Sizes, SMT
<1>4. g = Def(g)
  <2>1. \A y \in Nat : g[y] = IF y >= LaneMod THEN g[Fold(y)] ELSE LaneMod - 1 - y
    BY <1>1, <1>2, <1>3, Zenon
  <2> QED
    BY <2>1, Zenon
<1>5. FoldAndFlip = CHOOSE h : h = Def(h)
  BY DEF FoldAndFlip
<1> HIDE DEF Def, g
<1>6. FoldAndFlip = Def(FoldAndFlip)
  BY <1>4, <1>5
<1>7. \A y \in Nat : FoldAndFlip[y] = IF y >= LaneMod THEN FoldAndFlip[Fold(y)] ELSE LaneMod - 1 - y
  <2>1. \A h, y : y \in Nat => Def(h)[y] = IF y >= LaneMod THEN h[Fold(y)] ELSE LaneMod - 1 - y
    BY DEF Def
  <2> QED
    BY <1>6, <2>1
<1> DEFINE S == {y \in Nat : FoldAndFlip[y] = Ones - Residue(y)}
<1>8. ASSUME NEW y \in Nat, \A m \in Nat : m < y => m \in S
      PROVE  y \in S
  <2>1. CASE y >= LaneMod
    <3>1. Fold(y) \in Nat /\ Fold(y) < y
      BY <2>1, FoldFacts
    <3>2. FoldAndFlip[Fold(y)] = Ones - Residue(Fold(y))
      BY <1>8, <3>1
    <3> QED
      BY <1>2, <1>7, <2>1, <3>2
  <2>2. CASE ~(y >= LaneMod)
    BY <1>1, <1>3, <1>7, <2>2
  <2> QED
    BY <2>1, <2>2
<1>9. Nat \subseteq S
  <2> HIDE DEF S
  <2> QED
    BY <1>8, AllByLess
<1> QED
  BY <1>9
-----------------------------------------------------------------------------
(* Recursion over the naturals.                                            *)

\* A set of naturals that holds 0 and, with a number, the next holds them all.
LEMMA AllNumbers ==
    ASSUME NEW S, 0 \in S, \A n \in Nat : n \in S => n + 1 \in S
    PROVE  Nat \subseteq S
<1>1. ASSUME NEW n \in Nat, \A m \in Nat : m < n => m \in S
      PROVE  n \in S
  <2>1. CASE n = 0
    BY <2>1
  <2>2. CASE n # 0
    <3>1. n - 1 \in Nat /\ n - 1 < n /\ (n - 1) + 1 = n
      BY <2>2, SMT
    <3> QED
      BY <1>1, <3>1
  <2> QED
    BY <2>1, <2>2
<1> QED
  BY <1>1, AllByLess

\* A function may be defined on the naturals from its value at 0 and the step from n to n + 1.
LEMMA Recursion ==
    ASSUME NEW a \in Nat, NEW G \in [Nat -> [Nat -> Nat]]
    PROVE  \E f \in [Nat -> Nat] :
              /\ f[0] = a
              /\ \A n \in Nat : f[n + 1] = G[n + 1][f[n]]
<1> DEFINE Good(m, f) == /\ f \in [0..m -> Nat]
                         /\ f[0] = a
                         /\ \A n \in Nat : n < m => f[n + 1] = G[n + 1][f[n]]
           S == {m \in Nat : \E f : Good(m, f)}
<1>1. 0 \in S
  <2> DEFINE f == [n \in 0..0 |-> a]
  <2>1. f \in [0..0 -> Nat] /\ f[0] = a /\ \A n \in Nat : ~(n < 0)
    BY SMT
  <2>2. Good(0, f)
    BY <2>1
  <2> QED
    BY <2>2
<1>2. ASSUME NEW m \in Nat, m \in S
      PROVE  m + 1 \in S
  <2>1. PICK f : Good(m, f)
    BY <1>2
  <2> DEFINE g == [n \in 0..(m + 1) |-> IF n = m + 1 THEN G[m + 1][f[m]] ELSE f[n]]
  <2>2. m + 1 \in Nat /\ m \in 0..m
    BY SMT
  <2>3. G[m + 1][f[m]] \in Nat
    BY <2>1, <2>2
  <2>4. g \in [0..(m + 1) -> Nat]
    <3>1. \A n \in 0..(m + 1) : n # m + 1 => n \in 0..m
      BY SMT
    <3> QED
      BY <2>1, <2>3, <3>1
  <2>5. g[m + 1] = G[m + 1][f[m]] /\ \A n \in 0..m : g[n] = f[n]
    BY SMT
  <2> HIDE DEF g
  <2>6. g[0] = a
    <3>1. 0 \in 0..m
      BY SMT
    <3> QED
      BY <2>1, <2>5, <3>1
  <2>7. ASSUME NEW n \in Nat, n < m + 1
        PROVE  g[n + 1] = G[n + 1][g[n]]
    <3>1. CASE n = m
      BY <2>2, <2>5, <3>1
    <3>2. CASE n # m
      <4>1. n < m /\ n + 1 \in 0..m /\ n \in 0..m
        BY <2>7, <3>2, SMT
      <4> QED
        BY <2>1, <2>5, <4>1
    <3> QED
      BY <3>1, <3>2
  <2>8. Good(m + 1, g)
    BY <2>4, <2>6, <2>7, Zenon
  <2> QED
    BY <2>2, <2>8, Zenon
<1>3. \A m \in Nat : \E f : Good(m, f)
  <2>1. Nat \subseteq S
    <3> HIDE DEF S
    <3> QED
      BY <1>1, <1>2, AllNumbers
  <2> QED
    BY <2>1
<1> DEFINE c(m) == CHOOSE f : Good(m, f)
           F == [m \in Nat |-> c(m)[m]]
<1>4. \A m \in Nat : Good(m, c(m))
  BY <1>3, Zenon
<1> HIDE DEF c
<1>5. ASSUME NEW k \in Nat
      PROVE  \A m \in Nat : m <= k => c(k)[m] = F[m]
  <2> DEFINE U == {m \in Nat : m <= k => c(k)[m] = c(m)[m]}
  <2>1. 0 \in U
    BY <1>4
  <2>2. ASSUME NEW m \in Nat, m \in U
        PROVE  m + 1 \in U
    <3> SUFFICES ASSUME m + 1 <= k PROVE c(k)[m + 1] = c(m + 1)[m + 1]
      BY SMT
    <3>1. m + 1 \in Nat /\ m < k /\ m <= k /\ m < m + 1
      BY SMT
    <3>2. Good(k, c(k)) /\ Good(m + 1, c(m + 1)) /\ Good(m, c(m))
      BY <1>4, <3>1
    <3>3. c(k)[m + 1] = G[m + 1][c(k)[m]] /\ c(m + 1)[m + 1] = G[m + 1][c(m + 1)[m]]
      BY <3>1, <3>2
    <3>4. c(m + 1)[m] = c(m)[m]
      <4> DEFINE V == {i \in Nat : i <= m => c(m + 1)[i] = c(m)[i]}
      <4>1. 0 \in V
        BY <3>2
      <4>2. ASSUME NEW i \in Nat, i \in V PROVE i + 1 \in V
        <5> SUFFICES ASSUME i + 1 <= m PROVE c(m + 1)[i + 1] = c(m)[i + 1]
          BY SMT
        <5>1. i < m /\ i < m + 1 /\ i <= m
          BY SMT
        <5>2. c(m + 1)[i + 1] = G[i + 1][c(m + 1)[i]]
          BY <3>2, <5>1
        <5>3. c(m)[i + 1] = G[i + 1][c(m)[i]]
          BY <3>2, <5>1
        <5>4. c(m + 1)[i] = c(m)[i]
          BY <4>2, <5>1
        <5> QED
          BY <5>2, <5>3, <5>4, Zenon
      <4>3. m \in V
        <5> HIDE DEF V
        <5> QED
          BY <4>1, <4>2, AllNumbers
      <4>4. m <= m
        BY SMT
      <4> QED
        BY <4>3, <4>4
    <3> QED
      BY <2>2, <3>1, <3>3, <3>4
  <2>3. Nat \subseteq U
    <3> HIDE DEF U
    <3> QED
      BY <2>1, <2>2, AllNumbers
  <2> QED
    BY <2>3
<1>6. F \in [Nat -> Nat]
  <2>1. \A m \in Nat : m \in 0..m
    BY SMT
  <2> QED
    BY <1>4, <2>1
<1>7. F[0] = a
  <2>1. Good(0, c(0)) /\ F[0] = c(0)[0]
    BY <1>4
  <2> QED
    BY <2>1
<1>8. ASSUME NEW n \in Nat
      PROVE  F[n + 1] = G[n + 1][F[n]]
  <2>1. n + 1 \in Nat /\ n < n + 1 /\ n <= n + 1 /\ n + 1 <= n + 1
    BY SMT
  <2>2. Good(n + 1, c(n + 1))
    BY <1>4, <2>1
  <2>3. c(n + 1)[n + 1] = F[n + 1] /\ c(n + 1)[n] = F[n]
    BY <1>5, <2>1
  <2> QED
    BY <2>1, <2>2, <2>3
<1> HIDE DEF F
<1> QED
  BY <1>6, <1>7, <1>8

\* The same up to a bound.
LEMMA BoundedRecursion ==
    ASSUME NEW N \in Nat, NEW a \in Nat, NEW G \in [Nat -> [Nat -> Nat]]
    PROVE  \E f \in [0..N -> Nat] :
              /\ f[0] = a
              /\ \A n \in 1..N : f[n] = G[n][f[n - 1]]
<1>1. PICK h \in [Nat -> Nat] : h[0] = a /\ \A n \in Nat : h[n + 1] = G[n + 1][h[n]]
  BY Recursion, Zenon
<1> DEFINE f == [n \in 0..N |-> h[n]]
<1>2. \A n \in 0..N : n \in Nat
  BY SMT
<1>3. f \in [0..N -> Nat]
  BY <1>2
<1>4. \A n \in 0..N : f[n] = h[n]
  OBVIOUS
<1> HIDE DEF f
<1>5. f[0] = a
  <2>1. 0 \in 0..N
    BY SMT
  <2> QED
    BY <1>1, <1>4, <2>1
<1>6. ASSUME NEW n \in 1..N
      PROVE  f[n] = G[n][f[n - 1]]
  <2>1. n \in 0..N /\ n - 1 \in 0..N /\ n - 1 \in Nat /\ (n - 1) + 1 = n
    BY SMT
  <2>2. h[n] = G[n][h[n - 1]]
    BY <1>1, <2>1
  <2> QED
    BY <1>4, <2>1, <2>2
<1> QED
  BY <1>3, <1>5, <1>6
-----------------------------------------------------------------------------
(* Bytes and words.                                                        *)

\* The bytes of an input.
Byte == 0..(ByteMod - 1)

\* Past the end of the data there are zeros, which are bytes.
LEMMA ByteAtType ==
    ASSUME NEW data \in Seq(Byte), NEW i \in Nat, i >= 1
    PROVE  ByteAt(data, i) \in Byte
<1>1. 0 \in Byte
  BY Sizes, SMT DEF Byte
<1>2. i <= Len(data) => i \in 1..Len(data)
  BY SMT
<1>3. i <= Len(data) => data[i] \in Byte
  BY <1>2
<1> QED
  BY <1>1, <1>3 DEF ByteAt

\* A word fits a lane.
LEMMA WordAtType ==
    ASSUME NEW data \in Seq(Byte), NEW i \in Nat, i >= 1
    PROVE  WordAt(data, i) \in 0..Ones
<1> DEFINE x == ByteAt(data, 2 * i - 1)
           y == ByteAt(data, 2 * i)
<1>1. 2 * i - 1 \in Nat /\ 2 * i - 1 >= 1 /\ 2 * i \in Nat /\ 2 * i >= 1
  BY SMT
<1>2. x \in Byte /\ y \in Byte
  BY <1>1, ByteAtType
<1> HIDE DEF x, y
<1>3. x \in Nat /\ y \in Nat /\ x <= ByteMod - 1 /\ y <= ByteMod - 1
  BY <1>2, Sizes, SMT DEF Byte
<1>4. x * ByteMod <= (ByteMod - 1) * ByteMod /\ x * ByteMod \in Nat
  BY <1>3, Sizes, SMT
<1>5. (ByteMod - 1) * ByteMod = ByteMod * ByteMod - ByteMod /\ ByteMod * ByteMod = LaneMod
  BY Sizes, SMT DEF LaneMod
<1>6. x * ByteMod + y \in 0..Ones
  BY <1>3, <1>4, <1>5, Sizes, SMT
<1> QED
  BY <1>6 DEF WordAt, x, y

\* The recursion of WordSums has a solution.
LEMMA WordSumsFacts ==
    ASSUME NEW data \in Seq(Byte)
    PROVE  /\ WordSums(data) \in [Nat -> Nat]
           /\ WordSums(data)[0] = 0
           /\ \A i \in Nat : WordSums(data)[i + 1] = WordSums(data)[i] + WordAt(data, i + 1)
<1> DEFINE Def(f) == [i \in Nat |-> IF i = 0 THEN 0 ELSE f[i - 1] + WordAt(data, i)]
           G == [i \in Nat |-> [v \in Nat |-> IF i = 0 THEN 0 ELSE v + WordAt(data, i)]]
           P == WordSums(data)
<1>1. \A i \in Nat : i # 0 => WordAt(data, i) \in Nat
  <2> SUFFICES ASSUME NEW i \in Nat, i # 0 PROVE WordAt(data, i) \in Nat
    OBVIOUS
  <2>1. i >= 1
    BY SMT
  <2>2. WordAt(data, i) \in 0..Ones
    BY <2>1, WordAtType
  <2> QED
    BY <2>2, SMT
<1>2. G \in [Nat -> [Nat -> Nat]]
  <2>1. \A i \in Nat, v \in Nat : (IF i = 0 THEN 0 ELSE v + WordAt(data, i)) \in Nat
    BY <1>1, SMT
  <2> QED
    BY <2>1
<1>3. PICK f \in [Nat -> Nat] : f[0] = 0 /\ \A n \in Nat : f[n + 1] = G[n + 1][f[n]]
  <2> HIDE DEF G
  <2>1. 0 \in Nat
    BY SMT
  <2> QED
    BY <1>2, <2>1, Recursion, Zenon
<1>4. \A i \in Nat : i # 0 => i - 1 \in Nat /\ (i - 1) + 1 = i
  BY SMT
<1>5. f = Def(f)
  <2>1. ASSUME NEW i \in Nat, i # 0 PROVE f[i] = f[i - 1] + WordAt(data, i)
    <3>1. i - 1 \in Nat /\ (i - 1) + 1 = i
      BY <1>4, <2>1
    <3>2. f[i] = G[i][f[i - 1]] /\ f[i - 1] \in Nat
      BY <1>3, <3>1
    <3> QED
      BY <2>1, <3>2
  <2>2. \A i \in Nat : f[i] = IF i = 0 THEN 0 ELSE f[i - 1] + WordAt(data, i)
    BY <1>3, <2>1
  <2> QED
    BY <2>2
<1>6. P = CHOOSE g : g = Def(g)
  BY DEF WordSums
<1> HIDE DEF Def, P
<1>7. P = Def(P)
  BY <1>5, <1>6
<1>8. \A g, i : i \in Nat => Def(g)[i] = IF i = 0 THEN 0 ELSE g[i - 1] + WordAt(data, i)
  BY DEF Def
<1>9. P[0] = 0 /\ \A i \in Nat : P[i + 1] = P[i] + WordAt(data, i + 1)
  <2>1. 0 \in Nat /\ \A i \in Nat : i + 1 \in Nat /\ i + 1 # 0 /\ (i + 1) - 1 = i
    BY SMT
  <2> QED
    BY <1>7, <1>8, <2>1
<1>10. P \in [Nat -> Nat]
  <2> DEFINE S == {i \in Nat : P[i] \in Nat}
  <2>1. 0 \in S
    BY <1>9
  <2>2. ASSUME NEW i \in Nat, i \in S PROVE i + 1 \in S
    <3>1. i + 1 \in Nat /\ i + 1 # 0
      BY SMT
    <3>2. WordAt(data, i + 1) \in Nat /\ P[i] \in Nat /\ P[i + 1] = P[i] + WordAt(data, i + 1)
      BY <1>1, <1>9, <2>2, <3>1
    <3>3. \A x, y \in Nat : x + y \in Nat
      BY SMT
    <3>4. P[i + 1] \in Nat
      BY <3>2, <3>3, Zenon
    <3> QED
      BY <3>1, <3>4, Zenon
  <2>3. Nat \subseteq S
    <3> HIDE DEF S
    <3> QED
      BY <2>1, <2>2, AllNumbers
  <2>4. DOMAIN P = Nat /\ P = [i \in Nat |-> P[i]]
    BY <1>7 DEF Def
  <2> QED
    BY <2>3, <2>4
<1> QED
  BY <1>9, <1>10 DEF P

\* The recursion of FromBeBytes has a solution.
LEMMA BeBytesFacts ==
    ASSUME NEW bytes \in Seq(Byte)
    PROVE  \E v \in [0..Len(bytes) -> Nat] :
              /\ v[0] = 0
              /\ \A i \in 1..Len(bytes) : v[i] = v[i - 1] * ByteMod + bytes[i]
              /\ FromBeBytes(bytes) = v[Len(bytes)]
<1> DEFINE N == Len(bytes)
           Def(f) == [i \in 0..N |-> IF i = 0 THEN 0 ELSE f[i - 1] * ByteMod + bytes[i]]
           G == [i \in Nat |-> [u \in Nat |-> IF i \in 1..N THEN u * ByteMod + bytes[i] ELSE 0]]
           v == CHOOSE g : g = Def(g)
<1>1. N \in Nat
  OBVIOUS
<1>2. \A i \in 1..N : bytes[i] \in Nat
  <2>1. \A i \in 1..N : bytes[i] \in Byte
    OBVIOUS
  <2>2. \A b \in Byte : b \in Nat
    BY Sizes, SMT DEF Byte
  <2> QED
    BY <2>1, <2>2
<1>3. FromBeBytes(bytes) = v[N]
  BY DEF FromBeBytes
<1> HIDE DEF N
<1>4. \A u \in Nat : \A b \in Nat : u * ByteMod + b \in Nat
  BY Sizes, SMT
<1>5. G \in [Nat -> [Nat -> Nat]]
  <2>1. \A i \in Nat, u \in Nat : (IF i \in 1..N THEN u * ByteMod + bytes[i] ELSE 0) \in Nat
    BY <1>2, <1>4
  <2> QED
    BY <2>1
<1>6. PICK f \in [0..N -> Nat] : f[0] = 0 /\ \A n \in 1..N : f[n] = G[n][f[n - 1]]
  <2> HIDE DEF G
  <2>1. 0 \in Nat
    BY SMT
  <2> QED
    BY <1>1, <1>5, <2>1, BoundedRecursion, ZenonT(40)
<1>7. \A i \in 1..N : i \in 0..N /\ i - 1 \in 0..N /\ i \in Nat /\ i - 1 \in Nat /\ i # 0
  BY <1>1, SMT
<1>8. \A i \in 0..N : i # 0 => i \in 1..N
  BY <1>1, SMT
<1>9. f = Def(f)
  <2>1. ASSUME NEW i \in 1..N PROVE f[i] = f[i - 1] * ByteMod + bytes[i]
    <3>1. f[i] = G[i][f[i - 1]] /\ f[i - 1] \in Nat /\ i \in Nat
      BY <1>6, <1>7
    <3> QED
      BY <3>1
  <2>2. \A i \in 0..N : f[i] = IF i = 0 THEN 0 ELSE f[i - 1] * ByteMod + bytes[i]
    BY <1>6, <1>8, <2>1
  <2> QED
    BY <2>2
<1> HIDE DEF Def
<1>10. v = Def(v)
  BY <1>9
<1> HIDE DEF v
<1>11. \A g, i : i \in 0..N => Def(g)[i] = IF i = 0 THEN 0 ELSE g[i - 1] * ByteMod + bytes[i]
  BY DEF Def
<1>12. v[0] = 0
  <2>1. 0 \in 0..N
    BY <1>1, SMT
  <2> QED
    BY <1>10, <1>11, <2>1
<1>13. \A i \in 1..N : v[i] = v[i - 1] * ByteMod + bytes[i]
  BY <1>7, <1>10, <1>11
<1>14. v \in [0..N -> Nat]
  <2> DEFINE S == {i \in Nat : i <= N => v[i] \in Nat}
  <2>1. 0 \in S
    BY <1>12
  <2>2. ASSUME NEW i \in Nat, i \in S PROVE i + 1 \in S
    <3> SUFFICES ASSUME i + 1 <= N PROVE v[i + 1] \in Nat
      BY SMT
    <3>1. i + 1 \in 1..N /\ (i + 1) - 1 = i /\ i <= N
      BY <1>1, SMT
    <3>2. v[i + 1] = v[i] * ByteMod + bytes[i + 1]
      BY <1>13, <3>1
    <3>3. v[i] \in Nat /\ bytes[i + 1] \in Nat
      BY <1>2, <2>2, <3>1
    <3> QED
      BY <1>4, <3>2, <3>3
  <2>3. Nat \subseteq S
    <3> HIDE DEF S
    <3> QED
      BY <2>1, <2>2, AllNumbers
  <2>4. v = [i \in 0..N |-> v[i]]
    BY <1>10 DEF Def
  <2>5. \A i \in 0..N : i \in Nat /\ i <= N
    BY <1>1, SMT
  <2> QED
    BY <2>3, <2>4, <2>5
<1> QED
  BY <1>3, <1>12, <1>13, <1>14 DEF N

\* The value of an even number of bytes, which are data's from word o on, has the residue
\* of the sum of those words.
LEMMA BytesAreWords ==
    ASSUME NEW data \in Seq(Byte), NEW bytes \in Seq(Byte), NEW c \in Nat, NEW o \in Nat,
           Len(bytes) = 2 * c,
           \A i \in 1..(2 * c) : bytes[i] = ByteAt(data, 2 * o + i)
    PROVE  /\ WordSums(data)[o + c] - WordSums(data)[o] \in Nat
           /\ Same(FromBeBytes(bytes), WordSums(data)[o + c] - WordSums(data)[o])
<1> DEFINE P == WordSums(data)
           N == 2 * c
<1>1. PICK v \in [0..N -> Nat] :
              /\ v[0] = 0
              /\ \A i \in 1..N : v[i] = v[i - 1] * ByteMod + bytes[i]
              /\ FromBeBytes(bytes) = v[N]
  BY BeBytesFacts, Zenon
<1>2. P \in [Nat -> Nat] /\ \A i \in Nat : P[i + 1] = P[i] + WordAt(data, i + 1)
  BY WordSumsFacts
<1> HIDE DEF P
<1> DEFINE S == {i \in Nat : i <= c => P[o + i] - P[o] \in Nat /\ Same(v[2 * i], P[o + i] - P[o])}
<1>3. 0 \in S
  <2>1. o + 0 = o /\ P[o] - P[o] = 0 /\ 2 * 0 = 0 /\ 0 \in Nat
    BY <1>2, SMT
  <2>2. Same(0, 0)
    BY SameRefl, SMT
  <2> QED
    BY <1>1, <2>1, <2>2
<1>4. ASSUME NEW i \in Nat, i \in S PROVE i + 1 \in S
  <2> SUFFICES ASSUME i + 1 <= c
               PROVE  P[o + (i + 1)] - P[o] \in Nat /\ Same(v[2 * (i + 1)], P[o + (i + 1)] - P[o])
    BY SMT
  <2> DEFINE k == 2 * i
             w == WordAt(data, o + i + 1)
             t == P[o + i] - P[o]
             b1 == bytes[k + 1]
             b2 == bytes[k + 2]
  <2>1. /\ k \in 0..N /\ k + 1 \in 1..N /\ k + 2 \in 1..N
        /\ (k + 1) - 1 = k /\ (k + 2) - 1 = k + 1 /\ 2 * (i + 1) = k + 2
        /\ i <= c
    BY SMT
  <2>2. v[k] \in Nat /\ v[k + 1] = v[k] * ByteMod + b1 /\ v[k + 2] = v[k + 1] * ByteMod + b2
    BY <1>1, <2>1
  <2>3. b1 = ByteAt(data, 2 * o + (k + 1)) /\ b2 = ByteAt(data, 2 * o + (k + 2))
    BY <2>1
  <2>4. 2 * (o + i + 1) - 1 = 2 * o + (k + 1) /\ 2 * (o + i + 1) = 2 * o + (k + 2)
    BY SMT
  <2>5. w = b1 * ByteMod + b2
    BY <2>3, <2>4 DEF WordAt
  <2>6. b1 \in Byte /\ b2 \in Byte
    BY <2>1
  <2>7. b1 \in Nat /\ b2 \in Nat
    BY <2>6, Sizes, SMT DEF Byte
  <2>8. w \in Nat
    <3>1. \A x \in Nat : \A y \in Nat : x * ByteMod + y \in Nat
      BY Sizes, SMTT(20)
    <3> HIDE DEF w, b1, b2
    <3> QED
      BY <2>5, <2>7, <3>1, Zenon
  <2>9. v[k + 2] = v[k] * LaneMod + w
    <3> DEFINE x == v[k]
    <3> HIDE DEF x, b1, b2, w, k
    <3>1. x \in Nat /\ v[k + 1] = x * ByteMod + b1 /\ v[k + 2] = v[k + 1] * ByteMod + b2
      BY <2>2 DEF x
    <3>2. (x * ByteMod + b1) * ByteMod + b2 = x * (ByteMod * ByteMod) + (b1 * ByteMod + b2)
      BY <2>7, <3>1, Sizes, SMT
    <3>3. v[k + 2] = x * (ByteMod * ByteMod) + (b1 * ByteMod + b2)
      BY <3>1, <3>2, Zenon
    <3> QED
      BY <2>5, <3>3 DEF LaneMod, x
  <2>10. P[o + i + 1] = P[o + i] + w /\ o + i \in Nat /\ o + i + 1 = o + (i + 1) /\ P[o + i] \in Nat /\ P[o] \in Nat
    <3>1. o + i \in Nat /\ o + i + 1 = o + (i + 1)
      BY SMT
    <3> QED
      BY <1>2, <3>1
  <2>11. P[o + (i + 1)] - P[o] = t + w
    <3> HIDE DEF w
    <3>1. P[o + (i + 1)] = P[o + i] + w
      BY <2>10, Zenon
    <3> QED
      BY <2>8, <2>10, <3>1, SMTT(30)
  <2>12. t \in Nat /\ Same(v[k], t)
    BY <1>4, <2>1
  <2> HIDE DEF k, w, t, b1, b2
  <2>13. Same(v[k] * LaneMod, t)
    BY <2>2, <2>12, SameLane, SameTrans
  <2>14. Same(v[k] * LaneMod + w, t + w)
    BY <2>8, <2>13, SameRefl, SameAdd
  <2>15. t + w \in Nat
    BY <2>8, <2>12, SMT
  <2> QED
    BY <2>1, <2>9, <2>11, <2>14, <2>15, Zenon
<1>5. c \in S
  <2> HIDE DEF S
  <2> QED
    BY <1>3, <1>4, AllNumbers
<1>6. c <= c /\ 2 * c = N
  BY SMT
<1> QED
  BY <1>1, <1>5, <1>6 DEF P

\* Beyond the last byte there are only zeros.
LEMMA WordSumsEnd ==
    ASSUME NEW data \in Seq(Byte), NEW d \in Nat
    PROVE  WordSums(data)[((Len(data) + 1) \div 2) + d] = WordSums(data)[(Len(data) + 1) \div 2]
<1> DEFINE P == WordSums(data)
           h == (Len(data) + 1) \div 2
<1>1. P \in [Nat -> Nat] /\ \A i \in Nat : P[i + 1] = P[i] + WordAt(data, i + 1)
  BY WordSumsFacts
<1>2. h \in Nat /\ 2 * h >= Len(data)
  <2>1. Len(data) \in Nat
    OBVIOUS
  <2> QED
    BY <2>1, SMT
<1> HIDE DEF P, h
<1> DEFINE S == {i \in Nat : P[h + i] = P[h]}
<1>3. 0 \in S
  BY <1>2, SMT
<1>4. ASSUME NEW i \in Nat, i \in S PROVE i + 1 \in S
  <2>1. h + i \in Nat /\ (h + i) + 1 = h + (i + 1)
    BY <1>2, SMT
  <2>2. WordAt(data, (h + i) + 1) = 0
    <3>1. ~(2 * ((h + i) + 1) - 1 <= Len(data)) /\ ~(2 * ((h + i) + 1) <= Len(data))
      <4>1. Len(data) \in Nat
        OBVIOUS
      <4> QED
        BY <1>2, <4>1, SMT
    <3>2. 0 * ByteMod + 0 = 0
      BY Sizes, SMT
    <3> QED
      BY <3>1, <3>2 DEF WordAt, ByteAt
  <2>3. P[(h + i) + 1] = P[h + i] + 0 /\ P[h + i] \in Nat
    BY <1>1, <2>1, <2>2
  <2>4. P[h + (i + 1)] = P[h]
    <3>1. \A x \in Nat : x + 0 = x
      BY SMT
    <3> QED
      BY <1>4, <2>1, <2>3, <3>1
  <2> QED
    BY <2>4
<1>5. d \in S
  <2> HIDE DEF S
  <2> QED
    BY <1>3, <1>4, AllNumbers
<1> QED
  BY <1>5 DEF P, h

\* The sum of all words.
Total(data) == WordSums(data)[(Len(data) + 1) \div 2]

\* The checksum of RFC 1071 is the complement of the residue of the total.
LEMMA TotalFacts ==
    ASSUME NEW data \in Seq(Byte)
    PROVE  Total(data) \in Nat /\ Rfc1071(data) = Ones - Residue(Total(data))
<1>1. (Len(data) + 1) \div 2 \in Nat
  <2>1. Len(data) \in Nat
    OBVIOUS
  <2> QED
    BY <2>1, SMT
<1>2. Total(data) \in Nat
  BY <1>1, WordSumsFacts DEF Total
<1>3. Rfc1071(data) = Ones - Residue(Total(data))
  BY DEF Rfc1071, OnesComplementSum, Residue, Ones, Total
<1> QED
  BY <1>2, <1>3

\* A part of a sequence.
LEMMA SubSeqFacts ==
    ASSUME NEW S, NEW s \in Seq(S), NEW m \in Nat, NEW n \in Nat, m >= 1, m <= n + 1, n <= Len(s)
    PROVE  /\ SubSeq(s, m, n) \in Seq(S)
           /\ Len(SubSeq(s, m, n)) = n - m + 1
           /\ \A i \in 1..(n - m + 1) : SubSeq(s, m, n)[i] = s[m + i - 1]
<1>1. \A i \in m..n : i \in 1..Len(s)
  <2>1. Len(s) \in Nat
    OBVIOUS
  <2> QED
    BY <2>1, SMT
<1>2. \A i \in m..n : s[i] \in S
  BY <1>1
<1>3. m \in Int /\ n \in Int
  BY SMT
<1>4. /\ SubSeq(s, m, n) \in Seq(S)
      /\ Len(SubSeq(s, m, n)) = IF m <= n THEN n - m + 1 ELSE 0
      /\ \A i \in 1..(n - m + 1) : SubSeq(s, m, n)[i] = s[m + i - 1]
  BY <1>2, <1>3, SubSeqProperties
<1>5. (IF m <= n THEN n - m + 1 ELSE 0) = n - m + 1
  BY SMT
<1> QED
  BY <1>4, <1>5

\* The whole chunks, and where they end.
LEMMA ChunkCount ==
    ASSUME NEW len \in Nat, NEW c \in Nat, c >= 1
    PROVE  /\ 2 * c \in Nat /\ 2 * c >= 2
           /\ len \div (2 * c) \in Nat
           /\ (len \div (2 * c)) * (2 * c) = 2 * ((len \div (2 * c)) * c)
           /\ 2 * ((len \div (2 * c)) * c) <= len
           /\ len - (2 * ((len \div (2 * c)) * c)) < 2 * c
           /\ (len \div (2 * c)) * c \in Nat
           /\ \E d \in Nat : (len \div (2 * c)) * c + c = ((len + 1) \div 2) + d
<1> DEFINE n == 2 * c
           m == len \div n
           r == len % n
           p == m * c
<1>1. n \in Nat /\ n > 0 /\ n >= 2 /\ len \in Int /\ n = 2 * c
  BY SMT
<1> HIDE DEF n
<1>2. m \in Nat /\ r \in 0..(n - 1) /\ len = m * n + r
  BY <1>1, DivDef, Zenon
<1> HIDE DEF m, r
<1>3. p \in Nat /\ m * n = 2 * p
  BY <1>1, <1>2, SMT
<1> HIDE DEF p
<1>4. 2 * p <= len /\ len - (2 * p) < n
  BY <1>1, <1>2, <1>3, SMT
<1>5. (p + c) - ((len + 1) \div 2) \in Nat /\ p + c = ((len + 1) \div 2) + ((p + c) - ((len + 1) \div 2))
  BY <1>1, <1>3, <1>4, SMT
<1> QED
  BY <1>1, <1>2, <1>3, <1>4, <1>5 DEF p, m, n

\* A whole chunk has the same sum as the words in it.
LEMMA ChunkBytes ==
    ASSUME NEW data \in Seq(Byte), NEW c \in Nat, c >= 1, NEW j \in 1..Chunks(data, 2 * c)
    PROVE  /\ Chunk(data, 2 * c, j) \in Seq(Byte) /\ Len(Chunk(data, 2 * c, j)) = 2 * c
           /\ j * c \in Nat /\ (j - 1) * c \in Nat
           /\ WordSums(data)[j * c] - WordSums(data)[(j - 1) * c] \in Nat
           /\ Same(FromBeBytes(Chunk(data, 2 * c, j)),
                   WordSums(data)[j * c] - WordSums(data)[(j - 1) * c])
<1> DEFINE n == 2 * c
           m == Chunks(data, n)
           o == (j - 1) * c
           e == j * c
           s == Chunk(data, n, j)
           len == Len(data)
<1>1. len \in Nat
  OBVIOUS
<1>2. m \in Nat /\ 2 * (m * c) <= len /\ m * c \in Nat
  BY <1>1, ChunkCount DEF Chunks
<1>3. j \in Nat /\ j >= 1 /\ j <= m /\ m - j \in Nat
  BY <1>2, SMT
<1>4. s = SubSeq(data, (j - 1) * n + 1, j * n)
  BY DEF Chunk
<1> HIDE DEF m, s, len
<1>5. o \in Nat /\ e \in Nat /\ (j - 1) * n = 2 * o /\ j * n = 2 * e /\ e = o + c
  BY <1>3, SMT
<1>6. (m - j) * c \in Nat /\ m * c = e + (m - j) * c
  BY <1>2, <1>3, SMT
<1>7. n = 2 * c /\ n \in Nat
  BY SMT
<1> HIDE DEF o, e, n
<1>8. 2 * o + 1 \in Nat /\ 2 * e \in Nat /\ 2 * o + 1 >= 1 /\ 2 * o + 1 <= 2 * e + 1 /\ 2 * e <= len
      /\ 2 * e - (2 * o + 1) + 1 = n
  BY <1>1, <1>2, <1>5, <1>6, <1>7, SMT
<1>9. s = SubSeq(data, 2 * o + 1, 2 * e)
  BY <1>4, <1>5
<1>10. /\ s \in Seq(Byte) /\ Len(s) = n
       /\ \A i \in 1..n : s[i] = data[2 * o + 1 + i - 1]
  <2>1. /\ SubSeq(data, 2 * o + 1, 2 * e) \in Seq(Byte)
        /\ Len(SubSeq(data, 2 * o + 1, 2 * e)) = 2 * e - (2 * o + 1) + 1
        /\ \A i \in 1..(2 * e - (2 * o + 1) + 1) :
              SubSeq(data, 2 * o + 1, 2 * e)[i] = data[2 * o + 1 + i - 1]
    BY <1>8, SubSeqFacts, Zenon DEF len
  <2> QED
    BY <1>8, <1>9, <2>1, Zenon
<1>11. ASSUME NEW i \in 1..n
       PROVE  s[i] = ByteAt(data, 2 * o + i)
  <2>1. 2 * o + 1 + i - 1 = 2 * o + i /\ 2 * o + i <= len
    BY <1>1, <1>2, <1>5, <1>6, <1>7, SMT
  <2> QED
    BY <1>10, <2>1 DEF ByteAt, len
<1>12. /\ WordSums(data)[o + c] - WordSums(data)[o] \in Nat
       /\ Same(FromBeBytes(s), WordSums(data)[o + c] - WordSums(data)[o])
  BY <1>5, <1>7, <1>10, <1>11, BytesAreWords, Zenon
<1> QED
  BY <1>5, <1>7, <1>10, <1>12 DEF n, o, e, s

\* What remains, padded, has the same sum as the words that remain.
LEMMA RemainderBytes ==
    ASSUME NEW data \in Seq(Byte), NEW c \in Nat, c >= 1
    PROVE  /\ Padded(Remainder(data, 2 * c), 2 * c) \in Seq(Byte)
           /\ Len(Padded(Remainder(data, 2 * c), 2 * c)) = 2 * c
           /\ Chunks(data, 2 * c) * c \in Nat
           /\ Total(data) - WordSums(data)[Chunks(data, 2 * c) * c] \in Nat
           /\ Same(FromBeBytes(Padded(Remainder(data, 2 * c), 2 * c)),
                   Total(data) - WordSums(data)[Chunks(data, 2 * c) * c])
           /\ \A i \in 1..(2 * c) : Padded(Remainder(data, 2 * c), 2 * c)[i]
                                     = ByteAt(data, 2 * (Chunks(data, 2 * c) * c) + i)
<1> DEFINE n == 2 * c
           m == Chunks(data, n)
           o == m * c
           r == Remainder(data, n)
           s == Padded(r, n)
           len == Len(data)
<1>1. len \in Nat
  OBVIOUS
<1>2. /\ m \in Nat /\ m * n = 2 * o /\ o \in Nat /\ 2 * o <= len /\ len - (2 * o) < n /\ n \in Nat
      /\ \E d \in Nat : o + c = ((len + 1) \div 2) + d
  BY <1>1, ChunkCount DEF Chunks
<1>3. PICK d \in Nat : o + c = ((len + 1) \div 2) + d
  BY <1>2
<1>4. r = SubSeq(data, m * n + 1, len)
  BY DEF Remainder, Chunks
<1>5. s = [i \in 1..n |-> IF i <= Len(r) THEN r[i] ELSE 0]
  BY DEF Padded
<1> HIDE DEF r, s, o, m, len
<1>6. 2 * o + 1 \in Nat /\ 2 * o + 1 >= 1 /\ 2 * o + 1 <= len + 1 /\ len - (2 * o + 1) + 1 = len - (2 * o) /\ len <= len
  BY <1>1, <1>2, SMT
<1>7. /\ r \in Seq(Byte) /\ Len(r) = len - (2 * o)
      /\ \A i \in 1..(len - (2 * o)) : r[i] = data[2 * o + 1 + i - 1]
  <2>1. /\ SubSeq(data, 2 * o + 1, len) \in Seq(Byte)
        /\ Len(SubSeq(data, 2 * o + 1, len)) = len - (2 * o + 1) + 1
        /\ \A i \in 1..(len - (2 * o + 1) + 1) :
              SubSeq(data, 2 * o + 1, len)[i] = data[2 * o + 1 + i - 1]
    BY <1>1, <1>6, SubSeqFacts, Zenon DEF len
  <2> QED
    BY <1>2, <1>4, <1>6, <2>1, Zenon
<1>8. ASSUME NEW i \in 1..n
      PROVE  s[i] = ByteAt(data, 2 * o + i)
  <2>1. i <= len - (2 * o) <=> 2 * o + i <= len
    BY <1>1, <1>2, SMT
  <2>2. i <= len - (2 * o) => i \in 1..(len - (2 * o))
    BY <1>1, <1>2, SMT
  <2>3. 2 * o + 1 + i - 1 = 2 * o + i
    BY <1>1, <1>2, SMT
  <2> QED
    BY <1>5, <1>7, <2>1, <2>2, <2>3 DEF ByteAt, len
<1>9. s \in Seq(Byte) /\ Len(s) = n
  <2>1. \A i \in 1..n : s[i] \in Byte
    <3> SUFFICES ASSUME NEW i \in 1..n PROVE s[i] \in Byte
      OBVIOUS
    <3>1. 2 * o + i \in Nat /\ 2 * o + i >= 1
      BY <1>2, SMT
    <3> QED
      BY <1>8, <3>1, ByteAtType
  <2>2. s = [i \in 1..n |-> s[i]]
    BY <1>5
  <2>3. s \in [1..n -> Byte]
    BY <2>1, <2>2
  <2>4. s \in Seq(Byte)
    BY <1>2, <2>3, SeqDef
  <2>5. Len(s) = n
    BY <1>2, <2>3, <2>4, LenProperties
  <2> QED
    BY <2>4, <2>5
<1>10. /\ WordSums(data)[o + c] - WordSums(data)[o] \in Nat
       /\ Same(FromBeBytes(s), WordSums(data)[o + c] - WordSums(data)[o])
  BY <1>2, <1>8, <1>9, BytesAreWords, Zenon
<1>11. WordSums(data)[o + c] = Total(data)
  BY <1>3, WordSumsEnd DEF Total, len
<1> QED
  BY <1>2, <1>8, <1>9, <1>10, <1>11 DEF r, s, o, m

\* The accumulator of calculate.
LEMMA CalculateSums ==
    ASSUME NEW data \in Seq(Byte)
    PROVE  \E sum \in [0..Chunks(data, 2 * ChunkLanes) -> Nat] :
              /\ sum[0] = FromBeBytes(Padded(Remainder(data, 2 * ChunkLanes), 2 * ChunkLanes))
              /\ \A j \in 1..Chunks(data, 2 * ChunkLanes) : sum[j] = sum[j - 1] + FromBeBytes(Chunk(data, 2 * ChunkLanes, j))
              /\ Calculate(data) = FoldAndFlip[sum[Chunks(data, 2 * ChunkLanes)]]
<1> DEFINE N == Chunks(data, 2 * ChunkLanes)
           a == FromBeBytes(Padded(Remainder(data, 2 * ChunkLanes), 2 * ChunkLanes))
           Def(f) == [j \in 0..N |-> IF j = 0 THEN a ELSE f[j - 1] + FromBeBytes(Chunk(data, 2 * ChunkLanes, j))]
           G == [j \in Nat |-> [u \in Nat |-> IF j \in 1..N THEN u + FromBeBytes(Chunk(data, 2 * ChunkLanes, j)) ELSE 0]]
           sum == CHOOSE g : g = Def(g)
<1>1. N \in Nat
  <2>1. Len(data) \in Nat
    OBVIOUS
  <2> QED
    BY <2>1, Sizes, ChunkCount DEF Chunks
<1>2. a \in Nat
  BY Sizes, RemainderBytes DEF Same
<1>3. \A j \in 1..N : FromBeBytes(Chunk(data, 2 * ChunkLanes, j)) \in Nat
  BY Sizes, ChunkBytes DEF Same
<1>4. Calculate(data) = FoldAndFlip[sum[N]]
  BY DEF Calculate
<1> HIDE DEF N, a
<1>5. \A j \in 1..N : \A u \in Nat : u + FromBeBytes(Chunk(data, 2 * ChunkLanes, j)) \in Nat
  <2>1. \A x, y \in Nat : x + y \in Nat
    BY SMT
  <2> QED
    BY <1>3, <2>1, Zenon
<1>6. G \in [Nat -> [Nat -> Nat]]
  <2>1. \A j \in Nat, u \in Nat : (IF j \in 1..N THEN u + FromBeBytes(Chunk(data, 2 * ChunkLanes, j)) ELSE 0) \in Nat
    BY <1>5
  <2> QED
    BY <2>1
<1>7. PICK f \in [0..N -> Nat] : f[0] = a /\ \A j \in 1..N : f[j] = G[j][f[j - 1]]
  <2> HIDE DEF G
  <2> QED
    BY <1>1, <1>2, <1>6, BoundedRecursion, Zenon
<1>8. \A j \in 1..N : j \in 0..N /\ j - 1 \in 0..N /\ j \in Nat /\ j # 0
  BY <1>1, SMT
<1>9. \A j \in 0..N : j # 0 => j \in 1..N
  BY <1>1, SMT
<1>10. f = Def(f)
  <2>1. ASSUME NEW j \in 1..N PROVE f[j] = f[j - 1] + FromBeBytes(Chunk(data, 2 * ChunkLanes, j))
    <3>1. f[j] = G[j][f[j - 1]] /\ f[j - 1] \in Nat /\ j \in Nat
      BY <1>7, <1>8
    <3> QED
      BY <3>1
  <2>2. \A j \in 0..N : f[j] = IF j = 0 THEN a ELSE f[j - 1] + FromBeBytes(Chunk(data, 2 * ChunkLanes, j))
    BY <1>7, <1>9, <2>1
  <2> QED
    BY <2>2
<1> HIDE DEF Def
<1>11. sum = Def(sum)
  BY <1>10
<1> HIDE DEF sum
<1>12. \A g, j : j \in 0..N => Def(g)[j] = IF j = 0 THEN a ELSE g[j - 1] + FromBeBytes(Chunk(data, 2 * ChunkLanes, j))
  BY DEF Def
<1>13. sum[0] = a
  <2>1. 0 \in 0..N
    BY <1>1, SMT
  <2> QED
    BY <1>11, <1>12, <2>1
<1>14. \A j \in 1..N : sum[j] = sum[j - 1] + FromBeBytes(Chunk(data, 2 * ChunkLanes, j))
  BY <1>8, <1>11, <1>12
<1>15. sum \in [0..N -> Nat]
  <2> DEFINE S == {j \in Nat : j <= N => sum[j] \in Nat}
  <2>1. 0 \in S
    BY <1>2, <1>13
  <2>2. ASSUME NEW j \in Nat, j \in S PROVE j + 1 \in S
    <3> SUFFICES ASSUME j + 1 <= N PROVE sum[j + 1] \in Nat
      BY SMT
    <3> DEFINE i == j + 1
    <3>1. i \in 1..N /\ i - 1 = j /\ j <= N
      BY <1>1, SMT
    <3>2. sum[i - 1] \in Nat
      BY <2>2, <3>1
    <3> HIDE DEF i
    <3>3. sum[i] \in Nat
      BY <1>5, <1>14, <3>1, <3>2
    <3> QED
      BY <3>3 DEF i
  <2>3. Nat \subseteq S
    <3> HIDE DEF S
    <3> QED
      BY <2>1, <2>2, AllNumbers
  <2>4. sum = [j \in 0..N |-> sum[j]]
    BY <1>11 DEF Def
  <2>5. \A j \in 0..N : j \in Nat /\ j <= N
    BY <1>1, SMT
  <2> QED
    BY <2>3, <2>4, <2>5
<1> QED
  BY <1>4, <1>13, <1>14, <1>15 DEF N, a

\* The production implementation, for every input and every number of lanes.
LEMMA CalculateIsRfc1071 ==
    ASSUME NEW data \in Seq(Byte)
    PROVE  Calculate(data) = Rfc1071(data)
<1> DEFINE n == 2 * ChunkLanes
           N == Chunks(data, n)
           P == WordSums(data)
           c == ChunkLanes
<1>1. PICK sum \in [0..N -> Nat] :
        /\ sum[0] = FromBeBytes(Padded(Remainder(data, n), n))
        /\ \A j \in 1..N : sum[j] = sum[j - 1] + FromBeBytes(Chunk(data, n, j))
        /\ Calculate(data) = FoldAndFlip[sum[N]]
  BY CalculateSums
<1>2. N \in Nat
  <2>1. Len(data) \in Nat
    OBVIOUS
  <2> QED
    BY <2>1, Sizes, ChunkCount DEF Chunks
<1>3. Total(data) \in Nat /\ P \in [Nat -> Nat] /\ P[0] = 0 /\ c \in Nat /\ N * c \in Nat
  <2>1. c \in Nat /\ \A x \in Nat : x * c \in Nat
    BY Sizes, SMT
  <2>2. N * c \in Nat
    BY <1>2, <2>1, Zenon
  <2> QED
    BY <2>1, <2>2, TotalFacts, WordSumsFacts, Zenon
<1>4. Total(data) - P[N * c] \in Nat /\ Same(sum[0], Total(data) - P[N * c])
  BY <1>1, Sizes, RemainderBytes
<1>5. \A j \in 1..N : /\ j * c \in Nat /\ (j - 1) * c \in Nat
                      /\ P[j * c] - P[(j - 1) * c] \in Nat
                      /\ Same(FromBeBytes(Chunk(data, n, j)), P[j * c] - P[(j - 1) * c])
  BY Sizes, ChunkBytes
<1> DEFINE t == Total(data) - P[N * c]
           S == {j \in Nat : j <= N => Same(sum[j], t + P[j * c])}
<1> HIDE DEF P, N, t, n
<1>6. 0 \in S
  <2>1. 0 * c = 0 /\ t + 0 = t
    BY <1>3, <1>4, SMT DEF t
  <2>2. Same(sum[0], t + P[0 * c])
    BY <1>3, <1>4, <2>1 DEF t
  <2> QED
    BY <2>2
<1>7. ASSUME NEW j \in Nat, j \in S PROVE j + 1 \in S
  <2> SUFFICES ASSUME j + 1 <= N PROVE Same(sum[j + 1], t + P[(j + 1) * c])
    BY SMT
  <2> DEFINE x == FromBeBytes(Chunk(data, n, j + 1))
  <2>1. j + 1 \in 1..N /\ (j + 1) - 1 = j /\ j <= N /\ j * c \in Nat
    BY <1>2, <1>3, SMT
  <2>2. sum[j + 1] = sum[j] + x
    BY <1>1, <2>1
  <2>3. (j + 1) * c \in Nat /\ P[(j + 1) * c] - P[j * c] \in Nat /\ Same(x, P[(j + 1) * c] - P[j * c])
    <3>1. /\ (j + 1) * c \in Nat
          /\ P[(j + 1) * c] - P[((j + 1) - 1) * c] \in Nat
          /\ Same(x, P[(j + 1) * c] - P[((j + 1) - 1) * c])
      BY <1>5, <2>1, Zenon
    <3> QED
      BY <2>1, <3>1, Zenon
  <2>4. Same(sum[j], t + P[j * c])
    BY <1>7, <2>1
  <2> HIDE DEF x
  <2>5. Same(sum[j] + x, (t + P[j * c]) + (P[(j + 1) * c] - P[j * c]))
    BY <2>3, <2>4, SameAdd, Zenon
  <2>6. (t + P[j * c]) + (P[(j + 1) * c] - P[j * c]) = t + P[(j + 1) * c]
    <3>1. P[j * c] \in Nat /\ P[(j + 1) * c] \in Nat /\ t \in Nat
      BY <1>3, <1>4, <2>1, <2>3 DEF t
    <3> QED
      BY <3>1, SMT
  <2> QED
    BY <2>2, <2>5, <2>6, Zenon
<1>8. N \in S
  <2> HIDE DEF S
  <2> QED
    BY <1>2, <1>6, <1>7, AllNumbers
<1>9. Same(sum[N], Total(data))
  <2>1. N <= N /\ t + P[N * c] = Total(data)
    <3>1. P[N * c] \in Nat
      BY <1>3
    <3> QED
      BY <1>2, <1>3, <3>1, SMT DEF t
  <2> QED
    BY <1>8, <2>1
<1>10. sum[N] \in Nat
  BY <1>9 DEF Same
<1>11. Calculate(data) = Ones - Residue(sum[N])
  BY <1>1, <1>10, FoldAndFlipResidue
<1> QED
  BY <1>9, <1>11, SameResidue, TotalFacts
-----------------------------------------------------------------------------
(* The implementations kept for comparison add pairs of bytes.             *)

\* Two bytes make a word.
LEMMA TwoBytes ==
    ASSUME NEW bytes \in Seq(Byte), Len(bytes) = 2
    PROVE  /\ FromBeBytes(bytes) = bytes[1] * ByteMod + bytes[2]
           /\ FromBeBytes(bytes) \in 0..Ones
<1> DEFINE x == bytes[1]
           y == bytes[2]
<1>1. PICK v \in [0..2 -> Nat] :
              /\ v[0] = 0
              /\ \A i \in 1..2 : v[i] = v[i - 1] * ByteMod + bytes[i]
              /\ FromBeBytes(bytes) = v[2]
  BY BeBytesFacts
<1>2. 1 \in 1..2 /\ 2 \in 1..2 /\ 1 - 1 = 0 /\ 2 - 1 = 1
  BY SMT
<1>3. v[1] = v[0] * ByteMod + x /\ v[2] = v[1] * ByteMod + y
  BY <1>1, <1>2
<1>4. x \in Byte /\ y \in Byte
  <2>1. 1 \in 1..Len(bytes) /\ 2 \in 1..Len(bytes)
    BY <1>2
  <2> QED
    BY <2>1, ElementOfSeq, Zenon
<1> HIDE DEF x, y
<1>5. x \in Nat /\ y \in Nat /\ x <= ByteMod - 1 /\ y <= ByteMod - 1
  BY <1>4, Sizes, SMT DEF Byte
<1>6. v[1] = x
  BY <1>1, <1>3, <1>5, Sizes, SMT
<1>7. x * ByteMod <= (ByteMod - 1) * ByteMod /\ x * ByteMod \in Nat
  BY <1>5, Sizes, SMT
<1>8. (ByteMod - 1) * ByteMod = ByteMod * ByteMod - ByteMod /\ ByteMod * ByteMod = LaneMod
  BY Sizes, SMT DEF LaneMod
<1>9. x * ByteMod + y \in 0..Ones
  BY <1>5, <1>7, <1>8, Sizes, SMT
<1> QED
  BY <1>1, <1>3, <1>6, <1>9 DEF x, y

\* A pair of bytes is a word of the data.
LEMMA PairFacts ==
    ASSUME NEW data \in Seq(Byte), NEW j \in 1..Chunks(data, 2)
    PROVE  /\ Pair(data, j) \in 0..Ones
           /\ WordSums(data)[j] - WordSums(data)[j - 1] \in Nat
           /\ Same(Pair(data, j), WordSums(data)[j] - WordSums(data)[j - 1])
<1>1. 2 * 1 = 2 /\ 1 \in Nat /\ 1 >= 1
  BY SMT
<1>2. Chunks(data, 2) \in Nat
  <2>1. Len(data) \in Nat
    OBVIOUS
  <2> QED
    BY <2>1, SMT DEF Chunks
<1>3. j * 1 = j /\ (j - 1) * 1 = j - 1
  BY <1>2, SMT
<1>4. /\ Chunk(data, 2 * 1, j) \in Seq(Byte) /\ Len(Chunk(data, 2 * 1, j)) = 2 * 1
      /\ WordSums(data)[j * 1] - WordSums(data)[(j - 1) * 1] \in Nat
      /\ Same(FromBeBytes(Chunk(data, 2 * 1, j)),
              WordSums(data)[j * 1] - WordSums(data)[(j - 1) * 1])
  <2>1. j \in 1..Chunks(data, 2 * 1)
    BY <1>1
  <2> QED
    BY <1>1, <2>1, ChunkBytes, Zenon
<1>5. /\ Chunk(data, 2, j) \in Seq(Byte) /\ Len(Chunk(data, 2, j)) = 2
      /\ WordSums(data)[j] - WordSums(data)[j - 1] \in Nat
      /\ Same(FromBeBytes(Chunk(data, 2, j)), WordSums(data)[j] - WordSums(data)[j - 1])
  BY <1>1, <1>3, <1>4, Zenon
<1> QED
  BY <1>5, TwoBytes DEF Pair

\* An odd byte is the high byte of the last word; without one it counts 0.
LEMMA OddByteFacts ==
    ASSUME NEW data \in Seq(Byte)
    PROVE  /\ OddByte(data) \in 0..Ones
           /\ Chunks(data, 2) \in Nat
           /\ Total(data) - WordSums(data)[Chunks(data, 2)] \in Nat
           /\ Same(OddByte(data), Total(data) - WordSums(data)[Chunks(data, 2)])
           /\ 2 * Chunks(data, 2) = Len(data) => OddByte(data) = 0
<1>1. 2 * 1 = 2 /\ 1 \in Nat /\ 1 >= 1
  BY SMT
<1>2. Chunks(data, 2) \in Nat /\ Len(data) \in Nat
  <2>1. Len(data) \in Nat
    OBVIOUS
  <2> QED
    BY <2>1, SMT DEF Chunks
<1>3. Chunks(data, 2) * 1 = Chunks(data, 2)
  BY <1>2, SMT
<1> DEFINE s == Padded(Remainder(data, 2), 2)
<1>4. /\ s \in Seq(Byte) /\ Len(s) = 2
      /\ Total(data) - WordSums(data)[Chunks(data, 2)] \in Nat
      /\ Same(FromBeBytes(s), Total(data) - WordSums(data)[Chunks(data, 2)])
      /\ \A i \in 1..2 : s[i] = ByteAt(data, 2 * Chunks(data, 2) + i)
  <2>1. /\ Padded(Remainder(data, 2 * 1), 2 * 1) \in Seq(Byte)
        /\ Len(Padded(Remainder(data, 2 * 1), 2 * 1)) = 2 * 1
        /\ Total(data) - WordSums(data)[Chunks(data, 2 * 1) * 1] \in Nat
        /\ Same(FromBeBytes(Padded(Remainder(data, 2 * 1), 2 * 1)),
                Total(data) - WordSums(data)[Chunks(data, 2 * 1) * 1])
        /\ \A i \in 1..(2 * 1) : Padded(Remainder(data, 2 * 1), 2 * 1)[i]
                                     = ByteAt(data, 2 * (Chunks(data, 2 * 1) * 1) + i)
    BY <1>1, RemainderBytes, Zenon
  <2> QED
    BY <1>1, <1>3, <2>1, Zenon
<1>5. OddByte(data) = FromBeBytes(s)
  BY DEF OddByte
<1> HIDE DEF s
<1>6. FromBeBytes(s) = s[1] * ByteMod + s[2] /\ FromBeBytes(s) \in 0..Ones
  BY <1>4, TwoBytes
<1>7. 2 * Chunks(data, 2) = Len(data) => FromBeBytes(s) = 0
  <2> SUFFICES ASSUME 2 * Chunks(data, 2) = Len(data) PROVE FromBeBytes(s) = 0
    OBVIOUS
  <2>1. /\ ~(2 * Chunks(data, 2) + 1 <= Len(data)) /\ ~(2 * Chunks(data, 2) + 2 <= Len(data))
        /\ 1 \in 1..2 /\ 2 \in 1..2 /\ 0 * ByteMod + 0 = 0
    BY <1>2, Sizes, SMT
  <2>2. s[1] = 0 /\ s[2] = 0
    BY <1>4, <2>1 DEF ByteAt
  <2> QED
    BY <1>6, <2>1, <2>2
<1> QED
  BY <1>2, <1>4, <1>5, <1>6, <1>7

\* An accumulator that adds the pairs one by one, folding as it likes, ends up with the
\* residue of the whole.
LEMMA PairsAddUp ==
    ASSUME NEW data \in Seq(Byte), NEW sum, sum[0] = OddByte(data),
           \A j \in 1..Chunks(data, 2) : Same(sum[j], sum[j - 1] + Pair(data, j))
    PROVE  Same(sum[Chunks(data, 2)], Total(data))
<1> DEFINE N == Chunks(data, 2)
           P == WordSums(data)
           t == Total(data) - P[N]
           S == {j \in Nat : j <= N => Same(sum[j], t + P[j])}
<1>1. N \in Nat /\ t \in Nat /\ Same(sum[0], t)
  BY OddByteFacts
<1>2. P \in [Nat -> Nat] /\ P[0] = 0 /\ Total(data) \in Nat
  BY WordSumsFacts, TotalFacts
<1>3. \A j \in 1..N : P[j] - P[j - 1] \in Nat /\ Same(Pair(data, j), P[j] - P[j - 1])
  BY PairFacts
<1>4. \A j \in 1..N : Same(sum[j], sum[j - 1] + Pair(data, j))
  OBVIOUS
<1> HIDE DEF P, N
<1>5. t + P[N] = Total(data)
  <2>1. P[N] \in Nat
    BY <1>1, <1>2
  <2> QED
    BY <1>2, <2>1, SMT
<1> HIDE DEF t
<1>6. 0 \in S
  <2>1. t + P[0] = t
    BY <1>1, <1>2, SMT
  <2> QED
    BY <1>1, <2>1
<1>7. ASSUME NEW j \in Nat, j \in S PROVE j + 1 \in S
  <2> SUFFICES ASSUME j + 1 <= N PROVE Same(sum[j + 1], t + P[j + 1])
    BY SMT
  <2> DEFINE i == j + 1
             x == Pair(data, i)
  <2>1. i \in 1..N /\ i - 1 = j /\ j <= N /\ i \in Nat
    BY <1>1, SMT
  <2> HIDE DEF i
  <2>2. Same(sum[i], sum[j] + x)
    BY <1>4, <2>1
  <2>3. P[i] - P[j] \in Nat /\ Same(x, P[i] - P[j])
    BY <1>3, <2>1
  <2>4. Same(sum[j], t + P[j])
    BY <1>7, <2>1
  <2> HIDE DEF x
  <2>5. Same(sum[j] + x, (t + P[j]) + (P[i] - P[j]))
    BY <2>3, <2>4, SameAdd, Zenon
  <2>6. (t + P[j]) + (P[i] - P[j]) = t + P[i]
    <3>1. P[j] \in Nat /\ P[i] \in Nat
      BY <1>2, <2>1
    <3> QED
      BY <1>1, <3>1, SMT
  <2>7. Same(sum[i], t + P[i])
    BY <2>2, <2>5, <2>6, SameTrans, Zenon
  <2> QED
    BY <2>7 DEF i
<1>8. N \in S
  <2> HIDE DEF S
  <2> QED
    BY <1>1, <1>6, <1>7, AllNumbers
<1>9. N <= N
  BY <1>1, SMT
<1> QED
  BY <1>5, <1>8, <1>9 DEF N

\* The size of the 32-bit accumulator.
LEMMA AccFacts ==
    /\ AccMod \in Nat /\ AccMod = LaneMod * LaneMod /\ AccMod > 0
    /\ AccMod > 3 * Ones
    /\ WouldOverflow = AccMod - Ones
<1>1. LaneMod * LaneMod \in Nat /\ LaneMod * LaneMod >= 4 * LaneMod
  BY Sizes, SMT
<1> QED
  BY <1>1, Sizes, SMT DEF AccMod, WouldOverflow

\* Two folds of the 32-bit accumulator fit a lane.
LEMMA FoldBounds ==
    ASSUME NEW y \in Nat
    PROVE  /\ y < AccMod => Fold(y) <= 2 * Ones
           /\ y <= 2 * Ones => Fold(y) <= Ones
<1> DEFINE q == y \div LaneMod
           r == y % LaneMod
<1>1. q \in Nat /\ r \in 0..(LaneMod - 1) /\ y = q * LaneMod + r
  <2>1. LaneMod \in Nat /\ LaneMod > 0 /\ y \in Int
    BY Sizes, SMT
  <2> QED
    BY <2>1, DivDef, Zenon
<1>2. Fold(y) = r + q
  BY DEF Fold
<1> HIDE DEF q, r
<1>3. y < AccMod => q <= Ones
  <2> SUFFICES ASSUME y < AccMod, q >= LaneMod PROVE FALSE
    BY <1>1, Sizes, SMT
  <2>1. q * LaneMod >= LaneMod * LaneMod /\ q * LaneMod \in Nat
    BY <1>1, Sizes, SMT
  <2> QED
    BY <1>1, <2>1, AccFacts, Sizes, SMT
<1>4. y <= 2 * Ones => q <= 1
  <2> SUFFICES ASSUME y <= 2 * Ones, q >= 2 PROVE FALSE
    BY <1>1, SMT
  <2>1. q * LaneMod >= 2 * LaneMod
    BY <1>1, Sizes, SMT
  <2> QED
    BY <1>1, <2>1, Sizes, SMT
<1>5. y <= 2 * Ones /\ q = 1 => r + 1 <= Ones
  BY <1>1, Sizes, SMT
<1> QED
  BY <1>1, <1>2, <1>3, <1>4, <1>5, Sizes, SMT

\* Two folds are enough for a sum of 32 bits.
LEMMA TwoFoldsEnough ==
    ASSUME NEW y \in Nat, y < AccMod
    PROVE  TwoFoldsFlipped(y) = Ones - Residue(y)
<1> DEFINE f == Fold(y)
           g == Fold(f)
<1>1. f \in Nat /\ Same(f, y) /\ f <= 2 * Ones
  BY FoldFacts, FoldBounds
<1> HIDE DEF f
<1>2. g \in Nat /\ Same(g, f) /\ g <= Ones
  BY <1>1, FoldFacts, FoldBounds
<1>3. TwoFoldsFlipped(y) = LaneMod - 1 - (g % LaneMod)
  BY DEF TwoFoldsFlipped, f
<1> HIDE DEF g
<1>4. g % LaneMod = g
  <2>1. 0 \in Int /\ g \in 0..(LaneMod - 1) /\ LaneMod > 0 /\ LaneMod \in Nat /\ 0 * LaneMod + g = g
    BY <1>2, Sizes, SMT
  <2>2. (0 * LaneMod + g) % LaneMod = g
    BY <2>1, DivUnique, Zenon
  <2> QED
    BY <2>1, <2>2, Zenon
<1>5. Residue(y) = g
  <2>1. g \in 0..Ones
    BY <1>2, Sizes, SMT
  <2> QED
    BY <1>1, <1>2, <2>1, ResidueSmall, SameResidue, SameTrans
<1> QED
  BY <1>3, <1>4, <1>5 DEF Ones

\* The accumulator of always_folded_cksum.
LEMMA AlwaysFoldedSums ==
    ASSUME NEW data \in Seq(Byte)
    PROVE  \E sum \in [0..Chunks(data, 2) -> Nat] :
              /\ sum[0] = OddByte(data)
              /\ \A j \in 1..Chunks(data, 2) : sum[j] = IF sum[j - 1] + Pair(data, j) >= LaneMod THEN sum[j - 1] + Pair(data, j) - LaneMod + 1 ELSE sum[j - 1] + Pair(data, j)
              /\ AlwaysFoldedCksum(data) = LaneMod - 1 - sum[Chunks(data, 2)]
<1> DEFINE N == Chunks(data, 2)
           a == OddByte(data)
           Def(f) == [j \in 0..N |-> IF j = 0 THEN a ELSE IF f[j - 1] + Pair(data, j) >= LaneMod THEN f[j - 1] + Pair(data, j) - LaneMod + 1 ELSE f[j - 1] + Pair(data, j)]
           G == [j \in Nat |-> [u \in Nat |-> IF j \in 1..N THEN (IF u + Pair(data, j) >= LaneMod THEN u + Pair(data, j) - LaneMod + 1 ELSE u + Pair(data, j)) ELSE 0]]
           sum == CHOOSE g : g = Def(g)
<1>1. N \in Nat
  BY OddByteFacts
<1>2. a \in Nat
  BY OddByteFacts, Sizes, SMT
<1>3. \A j \in 1..N : Pair(data, j) \in Nat
  BY PairFacts, Sizes, SMT
<1>4. AlwaysFoldedCksum(data) = LaneMod - 1 - sum[N]
  BY DEF AlwaysFoldedCksum
<1> HIDE DEF N, a
<1>5. \A j \in 1..N : \A u \in Nat : (IF u + Pair(data, j) >= LaneMod THEN u + Pair(data, j) - LaneMod + 1 ELSE u + Pair(data, j)) \in Nat
  <2>1. \A x, y \in Nat : (IF x + y >= LaneMod THEN x + y - LaneMod + 1 ELSE x + y) \in Nat
    BY Sizes, SMT
  <2> QED
    BY <1>3, <2>1, Zenon
<1>6. G \in [Nat -> [Nat -> Nat]]
  <2>1. \A j \in Nat, u \in Nat : (IF j \in 1..N THEN (IF u + Pair(data, j) >= LaneMod THEN u + Pair(data, j) - LaneMod + 1 ELSE u + Pair(data, j)) ELSE 0) \in Nat
    BY <1>5
  <2> QED
    BY <2>1
<1>7. PICK f \in [0..N -> Nat] : f[0] = a /\ \A j \in 1..N : f[j] = G[j][f[j - 1]]
  <2> HIDE DEF G
  <2> QED
    BY <1>1, <1>2, <1>6, BoundedRecursion, Zenon
<1>8. \A j \in 1..N : j \in 0..N /\ j - 1 \in 0..N /\ j \in Nat /\ j # 0
  BY <1>1, SMT
<1>9. \A j \in 0..N : j # 0 => j \in 1..N
  BY <1>1, SMT
<1>10. f = Def(f)
  <2>1. ASSUME NEW j \in 1..N PROVE f[j] = IF f[j - 1] + Pair(data, j) >= LaneMod THEN f[j - 1] + Pair(data, j) - LaneMod + 1 ELSE f[j - 1] + Pair(data, j)
    <3>1. f[j] = G[j][f[j - 1]] /\ f[j - 1] \in Nat /\ j \in Nat
      BY <1>7, <1>8
    <3> QED
      BY <3>1
  <2>2. \A j \in 0..N : f[j] = IF j = 0 THEN a ELSE IF f[j - 1] + Pair(data, j) >= LaneMod THEN f[j - 1] + Pair(data, j) - LaneMod + 1 ELSE f[j - 1] + Pair(data, j)
    BY <1>7, <1>9, <2>1
  <2> QED
    BY <2>2
<1> HIDE DEF Def
<1>11. sum = Def(sum)
  BY <1>10
<1> HIDE DEF sum
<1>12. \A g, j : j \in 0..N => Def(g)[j] = IF j = 0 THEN a ELSE IF g[j - 1] + Pair(data, j) >= LaneMod THEN g[j - 1] + Pair(data, j) - LaneMod + 1 ELSE g[j - 1] + Pair(data, j)
  BY DEF Def
<1>13. sum[0] = a
  <2>1. 0 \in 0..N
    BY <1>1, SMT
  <2> QED
    BY <1>11, <1>12, <2>1
<1>14. \A j \in 1..N : sum[j] = IF sum[j - 1] + Pair(data, j) >= LaneMod THEN sum[j - 1] + Pair(data, j) - LaneMod + 1 ELSE sum[j - 1] + Pair(data, j)
  BY <1>8, <1>11, <1>12
<1>15. sum \in [0..N -> Nat]
  <2> DEFINE S == {j \in Nat : j <= N => sum[j] \in Nat}
  <2>1. 0 \in S
    BY <1>2, <1>13
  <2>2. ASSUME NEW j \in Nat, j \in S PROVE j + 1 \in S
    <3> SUFFICES ASSUME j + 1 <= N PROVE sum[j + 1] \in Nat
      BY SMT
    <3> DEFINE i == j + 1
    <3>1. i \in 1..N /\ i - 1 = j /\ j <= N
      BY <1>1, SMT
    <3>2. sum[i - 1] \in Nat
      BY <2>2, <3>1
    <3> HIDE DEF i
    <3>3. sum[i] \in Nat
      BY <1>5, <1>14, <3>1, <3>2
    <3> QED
      BY <3>3 DEF i
  <2>3. Nat \subseteq S
    <3> HIDE DEF S
    <3> QED
      BY <2>1, <2>2, AllNumbers
  <2>4. sum = [j \in 0..N |-> sum[j]]
    BY <1>11 DEF Def
  <2>5. \A j \in 0..N : j \in Nat /\ j <= N
    BY <1>1, SMT
  <2> QED
    BY <2>3, <2>4, <2>5
<1> QED
  BY <1>4, <1>13, <1>14, <1>15 DEF N, a


\* The accumulator of naive_wrapping_cksum.
LEMMA NaiveWrappingSums ==
    ASSUME NEW data \in Seq(Byte)
    PROVE  \E sum \in [0..Chunks(data, 2) -> Nat] :
              /\ sum[0] = OddByte(data)
              /\ \A j \in 1..Chunks(data, 2) : sum[j] = (sum[j - 1] + Pair(data, j)) % AccMod
              /\ NaiveWrappingCksum(data) = TwoFoldsFlipped(sum[Chunks(data, 2)])
<1> DEFINE N == Chunks(data, 2)
           a == OddByte(data)
           Def(f) == [j \in 0..N |-> IF j = 0 THEN a ELSE (f[j - 1] + Pair(data, j)) % AccMod]
           G == [j \in Nat |-> [u \in Nat |-> IF j \in 1..N THEN (u + Pair(data, j)) % AccMod ELSE 0]]
           sum == CHOOSE g : g = Def(g)
<1>1. N \in Nat
  BY OddByteFacts
<1>2. a \in Nat
  BY OddByteFacts, Sizes, SMT
<1>3. \A j \in 1..N : Pair(data, j) \in Nat
  BY PairFacts, Sizes, SMT
<1>4. NaiveWrappingCksum(data) = TwoFoldsFlipped(sum[N])
  BY DEF NaiveWrappingCksum
<1> HIDE DEF N, a
<1>5. \A j \in 1..N : \A u \in Nat : (u + Pair(data, j)) % AccMod \in Nat
  <2>1. \A x, y \in Nat : (x + y) % AccMod \in Nat
    BY AccFacts, SMT
  <2> QED
    BY <1>3, <2>1, Zenon
<1>6. G \in [Nat -> [Nat -> Nat]]
  <2>1. \A j \in Nat, u \in Nat : (IF j \in 1..N THEN (u + Pair(data, j)) % AccMod ELSE 0) \in Nat
    BY <1>5
  <2> QED
    BY <2>1
<1>7. PICK f \in [0..N -> Nat] : f[0] = a /\ \A j \in 1..N : f[j] = G[j][f[j - 1]]
  <2> HIDE DEF G
  <2> QED
    BY <1>1, <1>2, <1>6, BoundedRecursion, Zenon
<1>8. \A j \in 1..N : j \in 0..N /\ j - 1 \in 0..N /\ j \in Nat /\ j # 0
  BY <1>1, SMT
<1>9. \A j \in 0..N : j # 0 => j \in 1..N
  BY <1>1, SMT
<1>10. f = Def(f)
  <2>1. ASSUME NEW j \in 1..N PROVE f[j] = (f[j - 1] + Pair(data, j)) % AccMod
    <3>1. f[j] = G[j][f[j - 1]] /\ f[j - 1] \in Nat /\ j \in Nat
      BY <1>7, <1>8
    <3> QED
      BY <3>1
  <2>2. \A j \in 0..N : f[j] = IF j = 0 THEN a ELSE (f[j - 1] + Pair(data, j)) % AccMod
    BY <1>7, <1>9, <2>1
  <2> QED
    BY <2>2
<1> HIDE DEF Def
<1>11. sum = Def(sum)
  BY <1>10
<1> HIDE DEF sum
<1>12. \A g, j : j \in 0..N => Def(g)[j] = IF j = 0 THEN a ELSE (g[j - 1] + Pair(data, j)) % AccMod
  BY DEF Def
<1>13. sum[0] = a
  <2>1. 0 \in 0..N
    BY <1>1, SMT
  <2> QED
    BY <1>11, <1>12, <2>1
<1>14. \A j \in 1..N : sum[j] = (sum[j - 1] + Pair(data, j)) % AccMod
  BY <1>8, <1>11, <1>12
<1>15. sum \in [0..N -> Nat]
  <2> DEFINE S == {j \in Nat : j <= N => sum[j] \in Nat}
  <2>1. 0 \in S
    BY <1>2, <1>13
  <2>2. ASSUME NEW j \in Nat, j \in S PROVE j + 1 \in S
    <3> SUFFICES ASSUME j + 1 <= N PROVE sum[j + 1] \in Nat
      BY SMT
    <3> DEFINE i == j + 1
    <3>1. i \in 1..N /\ i - 1 = j /\ j <= N
      BY <1>1, SMT
    <3>2. sum[i - 1] \in Nat
      BY <2>2, <3>1
    <3> HIDE DEF i
    <3>3. sum[i] \in Nat
      BY <1>5, <1>14, <3>1, <3>2
    <3> QED
      BY <3>3 DEF i
  <2>3. Nat \subseteq S
    <3> HIDE DEF S
    <3> QED
      BY <2>1, <2>2, AllNumbers
  <2>4. sum = [j \in 0..N |-> sum[j]]
    BY <1>11 DEF Def
  <2>5. \A j \in 0..N : j \in Nat /\ j <= N
    BY <1>1, SMT
  <2> QED
    BY <2>3, <2>4, <2>5
<1> QED
  BY <1>4, <1>13, <1>14, <1>15 DEF N, a


\* The accumulator of range_checked_cksum.
LEMMA RangeCheckedSums ==
    ASSUME NEW data \in Seq(Byte)
    PROVE  \E sum \in [0..Chunks(data, 2) -> Nat] :
              /\ sum[0] = OddByte(data)
              /\ \A j \in 1..Chunks(data, 2) : sum[j] = IF (sum[j - 1] + Pair(data, j)) % AccMod >= WouldOverflow THEN Fold((sum[j - 1] + Pair(data, j)) % AccMod) ELSE (sum[j - 1] + Pair(data, j)) % AccMod
              /\ RangeCheckedCksum(data) = TwoFoldsFlipped(sum[Chunks(data, 2)])
<1> DEFINE N == Chunks(data, 2)
           a == OddByte(data)
           Def(f) == [j \in 0..N |-> IF j = 0 THEN a ELSE IF (f[j - 1] + Pair(data, j)) % AccMod >= WouldOverflow THEN Fold((f[j - 1] + Pair(data, j)) % AccMod) ELSE (f[j - 1] + Pair(data, j)) % AccMod]
           G == [j \in Nat |-> [u \in Nat |-> IF j \in 1..N THEN (IF (u + Pair(data, j)) % AccMod >= WouldOverflow THEN Fold((u + Pair(data, j)) % AccMod) ELSE (u + Pair(data, j)) % AccMod) ELSE 0]]
           sum == CHOOSE g : g = Def(g)
<1>1. N \in Nat
  BY OddByteFacts
<1>2. a \in Nat
  BY OddByteFacts, Sizes, SMT
<1>3. \A j \in 1..N : Pair(data, j) \in Nat
  BY PairFacts, Sizes, SMT
<1>4. RangeCheckedCksum(data) = TwoFoldsFlipped(sum[N])
  BY DEF RangeCheckedCksum
<1> HIDE DEF N, a
<1>5. \A j \in 1..N : \A u \in Nat : (IF (u + Pair(data, j)) % AccMod >= WouldOverflow THEN Fold((u + Pair(data, j)) % AccMod) ELSE (u + Pair(data, j)) % AccMod) \in Nat
  <2>1. \A x, y \in Nat : (x + y) % AccMod \in Nat
    BY AccFacts, SMT
  <2>2. \A j \in 1..N : \A u \in Nat : (u + Pair(data, j)) % AccMod \in Nat
    BY <1>3, <2>1, Zenon
  <2> QED
    BY <2>2, FoldFacts, Zenon
<1>6. G \in [Nat -> [Nat -> Nat]]
  <2>1. \A j \in Nat, u \in Nat : (IF j \in 1..N THEN (IF (u + Pair(data, j)) % AccMod >= WouldOverflow THEN Fold((u + Pair(data, j)) % AccMod) ELSE (u + Pair(data, j)) % AccMod) ELSE 0) \in Nat
    BY <1>5
  <2> QED
    BY <2>1
<1>7. PICK f \in [0..N -> Nat] : f[0] = a /\ \A j \in 1..N : f[j] = G[j][f[j - 1]]
  <2> HIDE DEF G
  <2> QED
    BY <1>1, <1>2, <1>6, BoundedRecursion, Zenon
<1>8. \A j \in 1..N : j \in 0..N /\ j - 1 \in 0..N /\ j \in Nat /\ j # 0
  BY <1>1, SMT
<1>9. \A j \in 0..N : j # 0 => j \in 1..N
  BY <1>1, SMT
<1>10. f = Def(f)
  <2>1. ASSUME NEW j \in 1..N PROVE f[j] = IF (f[j - 1] + Pair(data, j)) % AccMod >= WouldOverflow THEN Fold((f[j - 1] + Pair(data, j)) % AccMod) ELSE (f[j - 1] + Pair(data, j)) % AccMod
    <3>1. f[j] = G[j][f[j - 1]] /\ f[j - 1] \in Nat /\ j \in Nat
      BY <1>7, <1>8
    <3> QED
      BY <3>1
  <2>2. \A j \in 0..N : f[j] = IF j = 0 THEN a ELSE IF (f[j - 1] + Pair(data, j)) % AccMod >= WouldOverflow THEN Fold((f[j - 1] + Pair(data, j)) % AccMod) ELSE (f[j - 1] + Pair(data, j)) % AccMod
    BY <1>7, <1>9, <2>1
  <2> QED
    BY <2>2
<1> HIDE DEF Def
<1>11. sum = Def(sum)
  BY <1>10
<1> HIDE DEF sum
<1>12. \A g, j : j \in 0..N => Def(g)[j] = IF j = 0 THEN a ELSE IF (g[j - 1] + Pair(data, j)) % AccMod >= WouldOverflow THEN Fold((g[j - 1] + Pair(data, j)) % AccMod) ELSE (g[j - 1] + Pair(data, j)) % AccMod
  BY DEF Def
<1>13. sum[0] = a
  <2>1. 0 \in 0..N
    BY <1>1, SMT
  <2> QED
    BY <1>11, <1>12, <2>1
<1>14. \A j \in 1..N : sum[j] = IF (sum[j - 1] + Pair(data, j)) % AccMod >= WouldOverflow THEN Fold((sum[j - 1] + Pair(data, j)) % AccMod) ELSE (sum[j - 1] + Pair(data, j)) % AccMod
  BY <1>8, <1>11, <1>12
<1>15. sum \in [0..N -> Nat]
  <2> DEFINE S == {j \in Nat : j <= N => sum[j] \in Nat}
  <2>1. 0 \in S
    BY <1>2, <1>13
  <2>2. ASSUME NEW j \in Nat, j \in S PROVE j + 1 \in S
    <3> SUFFICES ASSUME j + 1 <= N PROVE sum[j + 1] \in Nat
      BY SMT
    <3> DEFINE i == j + 1
    <3>1. i \in 1..N /\ i - 1 = j /\ j <= N
      BY <1>1, SMT
    <3>2. sum[i - 1] \in Nat
      BY <2>2, <3>1
    <3> HIDE DEF i
    <3>3. sum[i] \in Nat
      BY <1>5, <1>14, <3>1, <3>2
    <3> QED
      BY <3>3 DEF i
  <2>3. Nat \subseteq S
    <3> HIDE DEF S
    <3> QED
      BY <2>1, <2>2, AllNumbers
  <2>4. sum = [j \in 0..N |-> sum[j]]
    BY <1>11 DEF Def
  <2>5. \A j \in 0..N : j \in Nat /\ j <= N
    BY <1>1, SMT
  <2> QED
    BY <2>3, <2>4, <2>5
<1> QED
  BY <1>4, <1>13, <1>14, <1>15 DEF N, a

\* Folding after each addition gives the checksum of RFC 1071.
LEMMA AlwaysFoldedIsRfc1071 ==
    ASSUME NEW data \in Seq(Byte)
    PROVE  AlwaysFoldedCksum(data) = Rfc1071(data)
<1> DEFINE N == Chunks(data, 2)
           Folding(s, p) == IF s + p >= LaneMod THEN s + p - LaneMod + 1 ELSE s + p
<1>1. PICK sum \in [0..N -> Nat] :
        /\ sum[0] = OddByte(data)
        /\ \A j \in 1..N : sum[j] = Folding(sum[j - 1], Pair(data, j))
        /\ AlwaysFoldedCksum(data) = LaneMod - 1 - sum[N]
  BY AlwaysFoldedSums
<1>2. N \in Nat /\ OddByte(data) \in 0..Ones /\ \A j \in 1..N : Pair(data, j) \in 0..Ones
  BY OddByteFacts, PairFacts
<1>3. ASSUME NEW s \in 0..Ones, NEW p \in 0..Ones
      PROVE  Folding(s, p) \in 0..Ones /\ Same(Folding(s, p), s + p)
  <2>1. Folding(s, p) \in 0..Ones /\ Folding(s, p) \in Nat /\ s + p \in Nat
        /\ (Folding(s, p) = 0 <=> s + p = 0)
    BY Sizes, SMT
  <2>2. CASE s + p >= LaneMod
    <3>1. -1 \in Int /\ Folding(s, p) = (s + p) + (-1) * Ones
      BY <2>2, Sizes, SMT
    <3> QED
      BY <2>1, <3>1 DEF Same
  <2>3. CASE ~(s + p >= LaneMod)
    BY <2>1, <2>3, SameRefl
  <2> QED
    BY <2>2, <2>3
<1> HIDE DEF Folding, N
<1> DEFINE S == {j \in Nat : j <= N => sum[j] \in 0..Ones}
<1>4. 0 \in S
  BY <1>1, <1>2
<1>5. ASSUME NEW j \in Nat, j \in S PROVE j + 1 \in S
  <2> SUFFICES ASSUME j + 1 <= N PROVE sum[j + 1] \in 0..Ones
    BY SMT
  <2>1. j + 1 \in 1..N /\ (j + 1) - 1 = j /\ j <= N
    BY <1>2, SMT
  <2>2. sum[j + 1] = Folding(sum[j], Pair(data, j + 1))
    BY <1>1, <2>1
  <2> QED
    BY <1>2, <1>3, <1>5, <2>1, <2>2
<1>6. Nat \subseteq S
  <2> HIDE DEF S
  <2> QED
    BY <1>4, <1>5, AllNumbers
<1>7. \A j \in 1..N : Same(sum[j], sum[j - 1] + Pair(data, j))
  <2> SUFFICES ASSUME NEW j \in 1..N PROVE Same(sum[j], sum[j - 1] + Pair(data, j))
    OBVIOUS
  <2>1. j - 1 \in Nat /\ j - 1 <= N
    BY <1>2, SMT
  <2>2. sum[j - 1] \in 0..Ones
    BY <1>6, <2>1
  <2> QED
    BY <1>1, <1>2, <1>3, <2>2
<1>8. Same(sum[N], Total(data))
  BY <1>1, <1>7, PairsAddUp DEF N
<1>9. sum[N] \in 0..Ones
  <2>1. N <= N
    BY <1>2, SMT
  <2> QED
    BY <1>2, <1>6, <2>1
<1>10. sum[N] = Residue(Total(data))
  BY <1>8, <1>9, ResidueSmall, SameResidue
<1> QED
  BY <1>1, <1>10, TotalFacts DEF Ones

\* Below its size the accumulator does not wrap.
LEMMA NoWrap ==
    ASSUME NEW x \in Nat, x < AccMod
    PROVE  x % AccMod = x
<1>1. 0 \in Int /\ x \in 0..(AccMod - 1) /\ AccMod > 0 /\ AccMod \in Nat /\ 0 * AccMod + x = x
  BY AccFacts, SMT
<1>2. (0 * AccMod + x) % AccMod = x
  BY <1>1, DivUnique, Zenon
<1> QED
  BY <1>1, <1>2, Zenon

\* Folding whenever the next addition could overflow gives the checksum of RFC 1071.
LEMMA RangeCheckedIsRfc1071 ==
    ASSUME NEW data \in Seq(Byte)
    PROVE  RangeCheckedCksum(data) = Rfc1071(data)
<1> DEFINE N == Chunks(data, 2)
           Sum(s, p) == (s + p) % AccMod
           Checked(s) == IF s >= WouldOverflow THEN Fold(s) ELSE s
<1>1. PICK sum \in [0..N -> Nat] :
        /\ sum[0] = OddByte(data)
        /\ \A j \in 1..N : sum[j] = Checked(Sum(sum[j - 1], Pair(data, j)))
        /\ RangeCheckedCksum(data) = TwoFoldsFlipped(sum[N])
  BY RangeCheckedSums
<1>2. N \in Nat /\ OddByte(data) \in 0..Ones /\ \A j \in 1..N : Pair(data, j) \in 0..Ones
  BY OddByteFacts, PairFacts
<1>3. ASSUME NEW s \in Nat, s < WouldOverflow, NEW p \in 0..Ones
      PROVE  /\ Checked(Sum(s, p)) < WouldOverflow /\ Checked(Sum(s, p)) \in Nat
             /\ Same(Checked(Sum(s, p)), s + p)
  <2> DEFINE x == s + p
  <2>1. x \in Nat /\ x < AccMod
    BY <1>3, AccFacts, Sizes, SMT
  <2>2. Sum(s, p) = x
    BY <2>1, NoWrap
  <2> HIDE DEF x, Sum
  <2>3. CASE x >= WouldOverflow
    <3>1. Checked(x) = Fold(x) /\ Fold(x) \in Nat /\ Same(Fold(x), x) /\ Fold(x) <= 2 * Ones
      BY <2>1, <2>3, FoldFacts, FoldBounds
    <3>2. Fold(x) < WouldOverflow
      BY <3>1, AccFacts, Sizes, SMT
    <3> QED
      BY <2>2, <3>1, <3>2 DEF x
  <2>4. CASE ~(x >= WouldOverflow)
    <3>1. x < WouldOverflow /\ Same(x, x)
      BY <2>1, <2>4, SameRefl, AccFacts, Sizes, SMT
    <3>2. Checked(x) = x
      BY <2>4
    <3> QED
      BY <2>1, <2>2, <3>1, <3>2 DEF x
  <2> QED
    BY <2>3, <2>4
<1>4. OddByte(data) < WouldOverflow
  BY <1>2, AccFacts, Sizes, SMT
<1> HIDE DEF Checked, Sum, N
<1> DEFINE S == {j \in Nat : j <= N => sum[j] \in Nat /\ sum[j] < WouldOverflow}
<1>5. 0 \in S
  <2>1. 0 \in 0..N
    BY <1>2, SMT
  <2> QED
    BY <1>1, <1>4, <2>1
<1>6. ASSUME NEW j \in Nat, j \in S PROVE j + 1 \in S
  <2> SUFFICES ASSUME j + 1 <= N PROVE sum[j + 1] \in Nat /\ sum[j + 1] < WouldOverflow
    BY SMT
  <2>1. j + 1 \in 1..N /\ (j + 1) - 1 = j /\ j <= N
    BY <1>2, SMT
  <2>2. sum[j + 1] = Checked(Sum(sum[j], Pair(data, j + 1)))
    BY <1>1, <2>1
  <2> QED
    BY <1>2, <1>3, <1>6, <2>1, <2>2
<1>7. Nat \subseteq S
  <2> HIDE DEF S
  <2> QED
    BY <1>5, <1>6, AllNumbers
<1>8. \A j \in 1..N : Same(sum[j], sum[j - 1] + Pair(data, j))
  <2> SUFFICES ASSUME NEW j \in 1..N PROVE Same(sum[j], sum[j - 1] + Pair(data, j))
    OBVIOUS
  <2>1. j - 1 \in Nat /\ j - 1 <= N
    BY <1>2, SMT
  <2>2. sum[j - 1] \in Nat /\ sum[j - 1] < WouldOverflow
    BY <1>7, <2>1
  <2> QED
    BY <1>1, <1>2, <1>3, <2>2
<1>9. Same(sum[N], Total(data))
  BY <1>1, <1>8, PairsAddUp DEF N
<1>10. sum[N] \in Nat /\ sum[N] < WouldOverflow
  <2>1. N <= N
    BY <1>2, SMT
  <2> QED
    BY <1>2, <1>7, <2>1
<1>11. sum[N] < AccMod
  BY <1>10, AccFacts, Sizes, SMT
<1>12. TwoFoldsFlipped(sum[N]) = Ones - Residue(sum[N])
  BY <1>10, <1>11, TwoFoldsEnough
<1> QED
  BY <1>1, <1>9, <1>12, SameResidue, TotalFacts

\* DEFERRED_CARRIES_MAX_BYTES is short enough.
LEMMA NaiveWrappingIsRfc1071 ==
    ASSUME NEW data \in Seq(Byte), Len(data) <= DeferredCarriesMaxBytes
    PROVE  NaiveWrappingCksum(data) = Rfc1071(data)
<1> DEFINE N == Chunks(data, 2)
           len == Len(data)
           odd == IF 2 * N = len THEN 0 ELSE 1
           q == (AccMod - 1) \div Ones
<1>1. PICK sum \in [0..N -> Nat] :
        /\ sum[0] = OddByte(data)
        /\ \A j \in 1..N : sum[j] = (sum[j - 1] + Pair(data, j)) % AccMod
        /\ NaiveWrappingCksum(data) = TwoFoldsFlipped(sum[N])
  BY NaiveWrappingSums
<1>2. N \in Nat /\ OddByte(data) \in 0..Ones /\ \A j \in 1..N : Pair(data, j) \in 0..Ones
  BY OddByteFacts, PairFacts
<1>3. len \in Nat /\ 2 * N <= len /\ len <= 2 * N + 1
  <2>1. len \in Nat
    OBVIOUS
  <2> QED
    BY <2>1, SMT DEF Chunks
<1>4. len <= 2 * q
  BY DEF DeferredCarriesMaxBytes, Ones
<1>5. q \in Nat /\ q * Ones <= AccMod - 1 /\ q * Ones \in Nat
  <2> DEFINE r == (AccMod - 1) % Ones
  <2>1. Ones \in Nat /\ Ones > 0 /\ AccMod - 1 \in Int /\ AccMod - 1 \in Nat
    BY AccFacts, Sizes, SMT
  <2>2. q \in Nat /\ r \in 0..(Ones - 1) /\ AccMod - 1 = q * Ones + r
    BY <2>1, DivDef, Zenon
  <2> HIDE DEF q, r
  <2>3. q * Ones \in Nat
    BY <2>1, <2>2, SMT
  <2> QED
    BY <2>1, <2>2, <2>3, AccFacts, SMT
<1>6. OddByte(data) <= odd * Ones
  <2>1. 2 * N = len => OddByte(data) = 0
    BY OddByteFacts
  <2> QED
    BY <1>2, <2>1, Sizes, SMT
<1> HIDE DEF q, len, N
<1>7. odd \in Nat /\ N + odd <= q
  BY <1>2, <1>3, <1>4, <1>5, SMT
<1> HIDE DEF odd
<1>8. \A j \in Nat : j <= N => (j + odd) * Ones < AccMod /\ (j + odd) * Ones \in Nat
  <2> SUFFICES ASSUME NEW j \in Nat, j <= N
               PROVE  (j + odd) * Ones < AccMod /\ (j + odd) * Ones \in Nat
    OBVIOUS
  <2>1. j + odd \in Nat /\ q - (j + odd) \in Nat
    BY <1>2, <1>5, <1>7, SMT
  <2>2. q * Ones = (j + odd) * Ones + (q - (j + odd)) * Ones /\ (q - (j + odd)) * Ones \in Nat
        /\ (j + odd) * Ones \in Nat
    BY <1>5, <2>1, Sizes, SMT
  <2> QED
    BY <1>5, <2>2, AccFacts, SMT
<1>9. \A j \in Nat : ((j + 1) + odd) * Ones = (j + odd) * Ones + Ones
  BY <1>7, Sizes, SMT
<1> DEFINE S == {j \in Nat : j <= N => sum[j] \in Nat /\ sum[j] <= (j + odd) * Ones}
<1>10. 0 \in S
  <2>1. 0 \in 0..N /\ 0 + odd = odd
    BY <1>2, <1>7, SMT
  <2> QED
    BY <1>1, <1>6, <2>1
<1>11. ASSUME NEW j \in Nat, j + 1 <= N, sum[j] \in Nat, sum[j] <= (j + odd) * Ones
       PROVE  /\ sum[j] + Pair(data, j + 1) \in Nat
              /\ sum[j] + Pair(data, j + 1) <= ((j + 1) + odd) * Ones
              /\ sum[j + 1] = sum[j] + Pair(data, j + 1)
  <2> DEFINE p == Pair(data, j + 1)
             x == sum[j] + p
  <2>1. j + 1 \in 1..N /\ (j + 1) - 1 = j /\ j <= N /\ j + 1 \in Nat
    BY <1>2, <1>11, SMT
  <2>2. p \in 0..Ones
    BY <1>2, <2>1
  <2> HIDE DEF p
  <2>3. ((j + 1) + odd) * Ones = (j + odd) * Ones + Ones /\ ((j + 1) + odd) * Ones < AccMod
        /\ (j + odd) * Ones \in Nat
    BY <1>8, <1>9, <1>11, <2>1
  <2>4. x \in Nat /\ x <= ((j + 1) + odd) * Ones /\ x < AccMod
    <3> DEFINE m == (j + odd) * Ones
               k == ((j + 1) + odd) * Ones
    <3>1. m \in Nat /\ k = m + Ones /\ k < AccMod /\ sum[j] <= m
      BY <1>11, <2>3
    <3> HIDE DEF m, k
    <3>2. x \in Nat /\ x <= k /\ x < AccMod
      BY <1>11, <2>2, <3>1, AccFacts, Sizes, SMT
    <3> QED
      BY <3>2 DEF k
  <2>5. sum[j + 1] = x % AccMod
    BY <1>1, <2>1 DEF p
  <2>6. x % AccMod = x
    BY <2>4, NoWrap
  <2> QED
    BY <2>4, <2>5, <2>6 DEF p
<1>12. ASSUME NEW j \in Nat, j \in S PROVE j + 1 \in S
  <2> SUFFICES ASSUME j + 1 <= N PROVE sum[j + 1] \in Nat /\ sum[j + 1] <= ((j + 1) + odd) * Ones
    BY SMT
  <2>1. j <= N
    BY <1>2, SMT
  <2>2. sum[j] \in Nat /\ sum[j] <= (j + odd) * Ones
    BY <1>12, <2>1
  <2> QED
    BY <1>11, <2>2
<1>13. Nat \subseteq S
  <2> HIDE DEF S
  <2> QED
    BY <1>10, <1>12, AllNumbers
<1>14. \A j \in 1..N : Same(sum[j], sum[j - 1] + Pair(data, j))
  <2> SUFFICES ASSUME NEW j \in 1..N PROVE Same(sum[j], sum[j - 1] + Pair(data, j))
    OBVIOUS
  <2> DEFINE i == j - 1
  <2>1. i \in Nat /\ i <= N /\ i + 1 = j /\ i + 1 <= N
    BY <1>2, SMT
  <2> HIDE DEF i
  <2>2. sum[i] \in Nat /\ sum[i] <= (i + odd) * Ones
    BY <1>13, <2>1
  <2>3. sum[i] + Pair(data, i + 1) \in Nat /\ sum[i + 1] = sum[i] + Pair(data, i + 1)
    BY <1>11, <2>1, <2>2
  <2>4. Same(sum[i + 1], sum[i] + Pair(data, i + 1))
    BY <2>3, SameRefl
  <2> QED
    BY <2>1, <2>4 DEF i
<1>15. Same(sum[N], Total(data))
  BY <1>1, <1>14, PairsAddUp DEF N
<1>16. sum[N] \in Nat /\ sum[N] < AccMod
  <2>1. N <= N
    BY <1>2, SMT
  <2>2. sum[N] \in Nat /\ sum[N] <= (N + odd) * Ones /\ (N + odd) * Ones < AccMod /\ (N + odd) * Ones \in Nat
    BY <1>2, <1>8, <1>13, <2>1
  <2> QED
    BY <2>2, AccFacts, SMT
<1>17. TwoFoldsFlipped(sum[N]) = Ones - Residue(sum[N])
  BY <1>16, TwoFoldsEnough
<1> QED
  BY <1>1, <1>15, <1>17, SameResidue, TotalFacts
-----------------------------------------------------------------------------
\* Whatever the bytes, their number and the number of lanes added at a time, calculate is
\* the checksum of RFC 1071, and so are the implementations it is benchmarked against, the
\* one without overflow checks up to DEFERRED_CARRIES_MAX_BYTES.
THEOREM ChecksumIsRfc1071 == InputSpec => []MatchesRfc1071
<1> DEFINE Inv == input \in Seq(Byte)
<1>1. InputInit => Inv
  BY DEF InputInit
<1>2. Inv /\ [InputNext]_input => Inv'
  <2> SUFFICES ASSUME Inv, [InputNext]_input PROVE input' \in Seq(Byte)
    OBVIOUS
  <2>1. CASE InputNext
    <3>1. PICK b \in Byte : input' = Append(input, b)
      BY <2>1 DEF InputNext, Byte
    <3> QED
      BY <3>1, AppendProperties
  <2>2. CASE UNCHANGED input
    BY <2>2
  <2> QED
    BY <2>1, <2>2
<1>3. Inv => MatchesRfc1071
  BY CalculateIsRfc1071, AlwaysFoldedIsRfc1071, RangeCheckedIsRfc1071, NaiveWrappingIsRfc1071
     DEF MatchesRfc1071
<1> QED
  BY <1>1, <1>2, <1>3, PTL DEF InputSpec
=============================================================================
