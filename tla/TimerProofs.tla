----------------------------- MODULE TimerProofs -----------------------------
(***************************************************************************)
(* Theorems about the clock of one worker, for every value of the          *)
(* constants: any number of connections and pending segments, any          *)
(* retransmission timeouts, any resolution of poll() and any lag.          *)
(***************************************************************************)
EXTENDS RetransmitTimer, TLAPS, FiniteSetTheorems, WellFoundedInduction

-----------------------------------------------------------------------------
(* Recursion and minima, by way of well-founded sets.                      *)

\* A set of naturals that holds 0 and, with a number, the next holds them all.
LEMMA AllNumbers ==
    ASSUME NEW S, 0 \in S, \A n \in Nat : n \in S => n + 1 \in S
    PROVE  Nat \subseteq S
<1> DEFINE T == Nat \ S
           R == OpToRel(<, Nat)
<1> SUFFICES ASSUME T # {} PROVE FALSE
  OBVIOUS
<1>1. PICK x \in T : \A y \in T : ~(<<y, x>> \in R)
  BY WFMin, NatLessThanWellFounded, Zenon
<1>2. \A y \in T : ~(y < x)
  BY <1>1 DEF OpToRel
<1>3. x - 1 \in Nat /\ x - 1 < x /\ (x - 1) + 1 = x
  BY SMT
<1> QED
  BY <1>2, <1>3

\* A function may be defined on 0..N from its value at 0 and the step from n - 1 to n.
LEMMA Recursion ==
    ASSUME NEW N \in Nat, NEW a \in Nat, NEW G \in [Nat -> [Nat -> Nat]]
    PROVE  \E f \in [0..N -> Nat] :
              /\ f[0] = a
              /\ \A n \in 1..N : f[n] = G[n][f[n - 1]]
<1> DEFINE Good(m, f) == /\ f[0] = a
                         /\ \A n \in 1..m : f[n] = G[n][f[n - 1]]
           S == {m \in Nat : \E f \in [0..m -> Nat] : Good(m, f)}
<1>1. 0 \in S
  <2> DEFINE f == [n \in 0..0 |-> a]
  <2>1. f \in [0..0 -> Nat] /\ f[0] = a /\ 1..0 = {}
    BY SMT
  <2> QED
    BY <2>1
<1>2. ASSUME NEW m \in Nat, m \in S
      PROVE  m + 1 \in S
  <2>1. PICK f \in [0..m -> Nat] : Good(m, f)
    BY <1>2
  <2> DEFINE g == [n \in 0..(m + 1) |-> IF n = m + 1 THEN G[m + 1][f[m]] ELSE f[n]]
  <2>2. G[m + 1][f[m]] \in Nat
    BY SMTT(20)
  <2>3. g \in [0..(m + 1) -> Nat]
    <3>1. \A n \in 0..(m + 1) : n # m + 1 => n \in 0..m
      BY SMT
    <3> QED
      BY <2>2, <3>1
  <2>4. g[m + 1] = G[m + 1][f[m]] /\ \A n \in 0..m : g[n] = f[n]
    BY SMT
  <2> HIDE DEF g
  <2>5. g[0] = a
    <3>1. 0 \in 0..m
      BY SMT
    <3> QED
      BY <2>1, <2>4, <3>1
  <2>6. ASSUME NEW n \in 1..(m + 1)
        PROVE  g[n] = G[n][g[n - 1]]
    <3>1. CASE n = m + 1
      <4>1. n - 1 = m /\ m \in 0..m
        BY <3>1, SMT
      <4> QED
        BY <2>4, <3>1, <4>1
    <3>2. CASE n # m + 1
      <4>1. n \in 1..m /\ n \in 0..m /\ n - 1 \in 0..m
        BY <3>2, SMT
      <4> QED
        BY <2>1, <2>4, <4>1
    <3> QED
      BY <3>1, <3>2
  <2>7. m + 1 \in Nat
    BY SMT
  <2> QED
    BY <2>3, <2>5, <2>6, <2>7, Zenon
<1>3. N \in S
  BY <1>1, <1>2, AllNumbers
<1> QED
  BY <1>3

\* A finite set of integers that is not empty has a least member.
LEMMA LeastExists ==
    ASSUME NEW S \in SUBSET Int, IsFiniteSet(S), S # {}
    PROVE  \E x \in S : \A y \in S : x <= y
<1> DEFINE HasLeast(U) == \E x \in U : \A y \in U : x <= y
           F == FiniteSubsetsOf(S)
           T == {U \in F : U # {} /\ ~HasLeast(U)}
           R == StrictSubsetOrdering(S)
<1> SUFFICES ASSUME ~HasLeast(S) PROVE FALSE
  BY Zenon
<1>1. S \in T
  BY DEF FiniteSubsetsOf
<1>2. IsWellFoundedOn(R, F)
  BY FS_StrictSubsetOrderingWellFounded
<1>3. PICK U \in T : \A V \in T : ~(<<V, U>> \in R)
  <2>1. T \subseteq F /\ T # {}
    BY <1>1
  <2> HIDE DEF T, R, F
  <2> QED
    BY <1>2, <2>1, WFMin, Zenon
<1>4. U \subseteq S /\ IsFiniteSet(U) /\ U # {} /\ ~HasLeast(U)
  BY <1>3 DEF FiniteSubsetsOf
<1>5. PICK u : u \in U
  BY <1>4
<1> DEFINE V == U \ {u}
<1>6. V \subseteq S /\ IsFiniteSet(V) /\ V \in SUBSET U
  BY <1>4, FS_RemoveElement
<1>7. V \in F /\ <<V, U>> \in R
  BY <1>4, <1>5, <1>6 DEF FiniteSubsetsOf, StrictSubsetOrdering
<1>8. V \notin T
  BY <1>3, <1>7
<1>9. CASE V = {}
  <2>1. U = {u} /\ u \in Int
    BY <1>4, <1>5, <1>9
  <2> QED
    BY <1>4, <2>1, SMT
<1>10. CASE V # {}
  <2>1. PICK x \in V : \A y \in V : x <= y
    BY <1>7, <1>8, <1>10, Zenon
  <2>2. u \in Int /\ x \in Int /\ \A y \in U : y \in Int /\ (y = u \/ x <= y)
    BY <1>4, <1>5, <2>1
  <2>3. CASE x <= u
    BY <1>4, <2>1, <2>2, <2>3
  <2>4. CASE ~(x <= u)
    <3>1. \A y \in U : u <= y
      BY <2>2, <2>4, SMT
    <3> QED
      BY <1>4, <1>5, <3>1
  <2> QED
    BY <2>3, <2>4
<1> QED
  BY <1>9, <1>10
-----------------------------------------------------------------------------
(* The backoff.                                                            *)

\* What the provers need of the constants.
LEMMA Sizes ==
    /\ Initial \in Nat /\ RtoMin \in Nat /\ RtoMax \in Nat /\ GracePeriod \in Nat
    /\ MaxLag \in Nat /\ MaxPackets \in Nat /\ MaxInterrupts \in Nat
    /\ PowMax \in Nat /\ DurationMax \in Nat /\ TicksPerMs \in Nat /\ PollMax \in Nat
    /\ RetriesMax \in Nat /\ MaxRetries \in Nat
    /\ PowMax > 0 /\ TicksPerMs > 0
    /\ RtoMin <= RtoMax /\ RtoMax <= DurationMax
    /\ MaxRetries <= RetriesMax
BY TimerAssumption, SMT

\* The recursion of Pow2 has a solution, and its values are numbers.
LEMMA Powers ==
    ASSUME NEW n \in 0..RetriesMax
    PROVE  Pow2[n] \in Nat
<1> DEFINE Def(f) == [m \in 0..RetriesMax |-> IF m = 0 THEN 1 ELSE 2 * f[m - 1]]
           G == [m \in Nat |-> [v \in Nat |-> 2 * v]]
<1>1. G \in [Nat -> [Nat -> Nat]]
  BY SMT
<1>2. PICK f \in [0..RetriesMax -> Nat] :
        f[0] = 1 /\ \A m \in 1..RetriesMax : f[m] = G[m][f[m - 1]]
  <2> HIDE DEF G
  <2>1. RetriesMax \in Nat /\ 1 \in Nat
    BY Sizes
  <2> QED
    BY <1>1, <2>1, Recursion, ZenonT(40)
<1>3. \A m \in 1..RetriesMax : f[m] = 2 * f[m - 1]
  <2> SUFFICES ASSUME NEW m \in 1..RetriesMax PROVE f[m] = 2 * f[m - 1]
    OBVIOUS
  <2>1. m \in Nat /\ m - 1 \in 0..RetriesMax
    BY Sizes, SMT
  <2>2. f[m - 1] \in Nat
    BY <1>2, <2>1
  <2>3. f[m] = G[m][f[m - 1]]
    BY <1>2
  <2> QED
    BY <2>1, <2>2, <2>3
<1>4. f = Def(f)
  <2>1. \A m \in 0..RetriesMax : m # 0 => m \in 1..RetriesMax
    BY Sizes, SMT
  <2>2. \A m \in 0..RetriesMax : f[m] = IF m = 0 THEN 1 ELSE 2 * f[m - 1]
    BY <1>2, <1>3, <2>1
  <2> QED
    BY <2>2
<1>5. Pow2 = CHOOSE g : g = Def(g)
  BY DEF Pow2
<1> HIDE DEF Def
<1>6. Pow2 = Def(Pow2)
  BY <1>4, <1>5
<1>7. \A m \in 0..RetriesMax : Pow2[m] = IF m = 0 THEN 1 ELSE 2 * Pow2[m - 1]
  <2>1. \A g, m : m \in 0..RetriesMax => Def(g)[m] = IF m = 0 THEN 1 ELSE 2 * g[m - 1]
    BY DEF Def
  <2> QED
    BY <1>6, <2>1
<1> DEFINE S == {m \in Nat : m <= RetriesMax => Pow2[m] \in Nat}
<1>8. 0 \in S
  BY <1>7, Sizes, SMT
<1>9. ASSUME NEW m \in Nat, m \in S PROVE m + 1 \in S
  <2>1. CASE m + 1 <= RetriesMax
    <3>1. m + 1 \in 0..RetriesMax /\ m + 1 # 0 /\ (m + 1) - 1 = m /\ m <= RetriesMax
      BY <2>1, Sizes, SMT
    <3>2. Pow2[m + 1] = 2 * Pow2[m] /\ Pow2[m] \in Nat
      BY <1>7, <1>9, <3>1
    <3> QED
      BY <3>2, SMT
  <2>2. CASE ~(m + 1 <= RetriesMax)
    BY <2>2, SMT
  <2> QED
    BY <2>1, <2>2
<1>10. n \in S
  <2>1. n \in Nat
    BY SMT
  <2> HIDE DEF S
  <2> QED
    BY <1>8, <1>9, <2>1, AllNumbers
<1> QED
  BY <1>10, Sizes, SMT

\* Saturation makes a timeout shorter, if anything, and never negative.
LEMMA RtoBounds ==
    ASSUME NEW n \in 0..MaxRetries
    PROVE  /\ Rto(n) \in Nat /\ Backoff(n) \in Nat
           /\ Rto(n) <= Backoff(n)
<1> DEFINE p == Pow2[n]
           x == Initial * p
           y == Initial * Least(p, PowMax)
<1>1. p \in Nat
  BY Powers, Sizes, SMT
<1> HIDE DEF p
<1>2. Least(p, PowMax) \in Nat /\ Least(p, PowMax) <= p
  BY <1>1, Sizes, SMT DEF Least
<1>3. \A m \in Nat : \A i \in Nat : \A j \in Nat : i <= j => m * i <= m * j
  <2> SUFFICES ASSUME NEW m \in Nat, NEW i \in Nat, NEW j \in Nat, i <= j
               PROVE  m * i <= m * j
    OBVIOUS
  <2>1. j - i \in Nat /\ m * j = m * i + m * (j - i)
    BY SMT
  <2>2. m * (j - i) \in Nat /\ m * i \in Nat
    BY <2>1, SMT
  <2> QED
    BY <2>1, <2>2, SMT
<1>4. x \in Nat /\ y \in Nat /\ y <= x
  BY <1>1, <1>2, <1>3, Sizes, SMT
<1>5. /\ Rto(n) = Most(RtoMin, Least(RtoMax, Least(y, DurationMax)))
      /\ Backoff(n) = IF x < RtoMin THEN RtoMin ELSE IF x > RtoMax THEN RtoMax ELSE x
  BY DEF Rto, Backoff, p
<1> HIDE DEF x, y
<1> QED
  BY <1>4, <1>5, Sizes, SMT DEF Most, Least

\* The widths of the integers do not bite: the power only saturates where RtoMax has
\* already been reached, or where it makes no difference.
NeverSaturates ==
    \/ Initial = 0
    \/ Initial * PowMax >= RtoMax
    \/ \A n \in 0..MaxRetries : Pow2[n] <= PowMax

\* Then the timeout is the backoff.
LEMMA RtoIsBackoff ==
    ASSUME NeverSaturates, NEW n \in 0..MaxRetries
    PROVE  Rto(n) = Backoff(n)
<1> DEFINE p == Pow2[n]
           x == Initial * p
           y == Initial * Least(p, PowMax)
<1>1. p \in Nat
  BY Powers, Sizes, SMT
<1>2. /\ Rto(n) = Most(RtoMin, Least(RtoMax, Least(y, DurationMax)))
      /\ Backoff(n) = IF x < RtoMin THEN RtoMin ELSE IF x > RtoMax THEN RtoMax ELSE x
  BY DEF Rto, Backoff
<1>3. CASE p <= PowMax
  <2> HIDE DEF p
  <2>1. y = x /\ x \in Nat
    BY <1>1, <1>3, Sizes, SMT DEF Least
  <2> HIDE DEF x, y
  <2> QED
    BY <1>2, <2>1, Sizes, SMT DEF Most, Least
<1>4. CASE Initial = 0
  <2> DEFINE l == Least(p, PowMax)
  <2>1. l \in Nat
    BY <1>1, Sizes, SMT DEF Least
  <2>2. y = Initial * l
    OBVIOUS
  <2> HIDE DEF p, l
  <2>3. y = 0 /\ x = 0
    BY <1>1, <1>4, <2>1, <2>2, SMT
  <2> HIDE DEF x, y
  <2> QED
    BY <1>2, <2>3, Sizes, SMT DEF Most, Least
<1>5. CASE ~(p <= PowMax) /\ Initial # 0
  <2>1. Initial * PowMax >= RtoMax
    BY <1>5 DEF NeverSaturates
  <2> HIDE DEF p
  <2>2. p - PowMax \in Nat /\ Least(p, PowMax) = PowMax
    BY <1>1, <1>5, Sizes, SMT DEF Least
  <2>3. x = Initial * PowMax + Initial * (p - PowMax)
    BY <1>1, Sizes, SMT
  <2>4. Initial * (p - PowMax) \in Nat /\ Initial * PowMax \in Nat /\ y = Initial * PowMax
    BY <2>2, Sizes, SMT
  <2>5. x \in Nat /\ y \in Nat /\ x >= RtoMax /\ y >= RtoMax
    <3> DEFINE u == Initial * PowMax
               v == Initial * (p - PowMax)
    <3> HIDE DEF u, v, x, y
    <3> QED
      BY <2>1, <2>3, <2>4, Sizes, SMT DEF u, v
  <2> HIDE DEF x, y
  <2> QED
    BY <1>2, <2>5, Sizes, SMT DEF Most, Least
<1> QED
  BY <1>3, <1>4, <1>5

\* The recursion of BackoffSum has a solution too.
LEMMA Sums ==
    /\ \A n \in 0..MaxRetries : BackoffSum[n] \in Nat
    /\ BackoffSum[0] = Backoff(0)
    /\ \A n \in 1..MaxRetries : BackoffSum[n] = Backoff(n) + BackoffSum[n - 1]
<1> DEFINE Def(f) == [m \in 0..MaxRetries |-> Backoff(m) + (IF m = 0 THEN 0 ELSE f[m - 1])]
           G == [m \in Nat |-> [v \in Nat |-> IF m <= MaxRetries THEN Backoff(m) + v ELSE 0]]
<1>0. \A m \in 0..MaxRetries : Backoff(m) \in Nat
  BY RtoBounds
<1>1. G \in [Nat -> [Nat -> Nat]]
  <2>1. \A m \in Nat : m <= MaxRetries => m \in 0..MaxRetries
    BY Sizes, SMT
  <2>2. ASSUME NEW m \in Nat, NEW v \in Nat
        PROVE  (IF m <= MaxRetries THEN Backoff(m) + v ELSE 0) \in Nat
    <3>1. CASE m <= MaxRetries
      <4>1. Backoff(m) \in Nat
        BY <1>0, <2>1, <3>1
      <4> QED
        BY <3>1, <4>1, SMT
    <3>2. CASE ~(m <= MaxRetries)
      BY <3>2, SMT
    <3> QED
      BY <3>1, <3>2
  <2> QED
    BY <2>2
<1>2. PICK f \in [0..MaxRetries -> Nat] :
        f[0] = Backoff(0) /\ \A m \in 1..MaxRetries : f[m] = G[m][f[m - 1]]
  <2> HIDE DEF G
  <2>1. MaxRetries \in Nat /\ 0 \in 0..MaxRetries
    BY Sizes, SMT
  <2>2. Backoff(0) \in Nat
    BY <1>0, <2>1
  <2> QED
    BY <1>1, <2>1, <2>2, Recursion, ZenonT(40)
<1>3. ASSUME NEW m \in 1..MaxRetries
      PROVE  f[m] = Backoff(m) + f[m - 1]
  <2>1. m \in Nat /\ m <= MaxRetries /\ m - 1 \in 0..MaxRetries
    BY Sizes, SMT
  <2>2. f[m - 1] \in Nat
    BY <1>2, <2>1
  <2>3. f[m] = G[m][f[m - 1]]
    BY <1>2
  <2> QED
    BY <2>1, <2>2, <2>3
<1>4. f = Def(f)
  <2>1. ASSUME NEW m \in 0..MaxRetries
        PROVE  f[m] = Backoff(m) + (IF m = 0 THEN 0 ELSE f[m - 1])
    <3>1. CASE m = 0
      <4>1. Backoff(0) \in Nat
        BY <1>0, <3>1
      <4> QED
        BY <1>2, <3>1, <4>1, SMT
    <3>2. CASE m # 0
      <4>1. m \in 1..MaxRetries
        BY <3>2, Sizes, SMT
      <4> QED
        BY <1>3, <3>2, <4>1
    <3> QED
      BY <3>1, <3>2
  <2> QED
    BY <2>1
<1>5. BackoffSum = CHOOSE g : g = Def(g)
  BY DEF BackoffSum
<1> HIDE DEF Def
<1>6. BackoffSum = Def(BackoffSum)
  BY <1>4, <1>5
<1>7. \A m \in 0..MaxRetries :
        BackoffSum[m] = Backoff(m) + (IF m = 0 THEN 0 ELSE BackoffSum[m - 1])
  <2>1. \A g, m : m \in 0..MaxRetries =>
            Def(g)[m] = Backoff(m) + (IF m = 0 THEN 0 ELSE g[m - 1])
    BY DEF Def
  <2> QED
    BY <1>6, <2>1
<1>8. 0 \in 0..MaxRetries /\ \A m \in 1..MaxRetries : m \in 0..MaxRetries /\ m # 0
  BY Sizes, SMT
<1>9. BackoffSum[0] = Backoff(0) /\ Backoff(0) \in Nat
  <2>1. BackoffSum[0] = Backoff(0) + 0 /\ Backoff(0) \in Nat
    BY <1>0, <1>7, <1>8
  <2> QED
    BY <2>1, SMT
<1>10. \A m \in 1..MaxRetries : BackoffSum[m] = Backoff(m) + BackoffSum[m - 1]
  BY <1>7, <1>8
<1> DEFINE S == {m \in Nat : m <= MaxRetries => BackoffSum[m] \in Nat}
<1>11. 0 \in S
  BY <1>9, SMT
<1>12. ASSUME NEW m \in Nat, m \in S PROVE m + 1 \in S
  <2>1. CASE m + 1 <= MaxRetries
    <3>1. m + 1 \in 1..MaxRetries /\ (m + 1) - 1 = m /\ m <= MaxRetries
      BY <2>1, Sizes, SMT
    <3>2. /\ BackoffSum[m + 1] = Backoff(m + 1) + BackoffSum[m]
          /\ BackoffSum[m] \in Nat /\ Backoff(m + 1) \in Nat
      BY <1>0, <1>8, <1>10, <1>12, <3>1
    <3> QED
      BY <3>2, SMT
  <2>2. CASE ~(m + 1 <= MaxRetries)
    BY <2>2, SMT
  <2> QED
    BY <2>1, <2>2
<1>13. Nat \subseteq S
  <2> HIDE DEF S
  <2> QED
    BY <1>11, <1>12, AllNumbers
<1>14. \A n \in 0..MaxRetries : BackoffSum[n] \in Nat
  <2>1. \A n \in 0..MaxRetries : n \in Nat /\ n <= MaxRetries
    BY Sizes, SMT
  <2> QED
    BY <1>13, <2>1
<1> QED
  BY <1>9, <1>10, <1>14

\* Every retry adds to the sum.
LEMMA SumsGrow ==
    ASSUME NEW n \in 0..MaxRetries
    PROVE  BackoffSum[n] <= BackoffSum[MaxRetries]
<1> DEFINE S == {m \in Nat : m <= MaxRetries =>
                     BackoffSum[MaxRetries - m] <= BackoffSum[MaxRetries]}
<1>1. 0 \in S
  <2>1. MaxRetries - 0 = MaxRetries /\ MaxRetries \in 0..MaxRetries
    BY Sizes, SMT
  <2>2. BackoffSum[MaxRetries] \in Nat
    BY <2>1, Sums
  <2> QED
    BY <2>1, <2>2, SMT
<1>2. ASSUME NEW m \in Nat, m \in S PROVE m + 1 \in S
  <2>1. CASE m + 1 <= MaxRetries
    <3> DEFINE k == MaxRetries - m
    <3>1. /\ k \in 1..MaxRetries /\ k \in 0..MaxRetries /\ k - 1 \in 0..MaxRetries
          /\ MaxRetries \in 0..MaxRetries
          /\ MaxRetries - (m + 1) = k - 1 /\ m <= MaxRetries
      BY <2>1, Sizes, SMT
    <3>2. BackoffSum[k] <= BackoffSum[MaxRetries]
      BY <1>2, <3>1
    <3> HIDE DEF k
    <3>3. BackoffSum[k] = Backoff(k) + BackoffSum[k - 1]
      BY <3>1, Sums
    <3>4. BackoffSum[k] \in Nat /\ BackoffSum[k - 1] \in Nat /\ Backoff(k) \in Nat
          /\ BackoffSum[MaxRetries] \in Nat
      BY <3>1, Sums, RtoBounds
    <3>5. BackoffSum[k - 1] <= BackoffSum[MaxRetries]
      BY <3>2, <3>3, <3>4, SMT
    <3>6. m + 1 \in Nat
      BY SMT
    <3> QED
      BY <3>1, <3>5, <3>6
  <2>2. CASE ~(m + 1 <= MaxRetries)
    BY <2>2, SMT
  <2> QED
    BY <2>1, <2>2
<1>3. Nat \subseteq S
  <2> HIDE DEF S
  <2> QED
    BY <1>1, <1>2, AllNumbers
<1>4. MaxRetries - n \in Nat /\ MaxRetries - n <= MaxRetries /\ MaxRetries - (MaxRetries - n) = n
  BY Sizes, SMT
<1>5. MaxRetries - n \in S
  BY <1>3, <1>4
<1> QED
  BY <1>4, <1>5
-----------------------------------------------------------------------------
(* The inductive invariant.                                                *)

AtMostOne(S) == \A x \in S : \A y \in S : x = y

Pending == [age: Nat, retries: 0..MaxRetries, total: Nat]

\* TypeOK, with an Option as a set that has no two members.
TypeInv ==
    /\ DOMAIN pending \subseteq Seg
    /\ \A s \in DOMAIN pending : pending[s] \in Pending
    /\ AtMostOne(deadline) /\ deadline \subseteq Int
    /\ AtMostOne(sleep) /\ sleep \subseteq Int
    /\ AtMostOne(timeout) /\ timeout \subseteq 0..PollMax
    /\ pc \in {"compute", "call", "poll", "timeout", "retransmit", "read", "both", "exited"}
    /\ lag \in 0..MaxLag /\ ready \in BOOLEAN /\ packets \in 0..MaxPackets
    /\ interrupts \in 0..MaxInterrupts
    /\ ready => packets > 0

\* What the timeout of poll() promises from the moment it is computed: it is due, or it
\* ends before every deadline, but for the lag until poll() is entered.
WakeInv ==
    /\ pc = "call" => \A d \in Deadlines : \E ms \in timeout :
                          ms * TicksPerMs <= 0 \/ ms * TicksPerMs <= d + lag
    /\ pc = "poll" => \A d \in Deadlines : \E wake \in sleep :
                          wake <= 0 \/ wake <= d + MaxLag
    /\ pc = "read" => ready

\* The timeouts of the sendings before the r-th retry.
Earlier(r) == IF r = 0 THEN 0 ELSE BackoffSum[r - 1]

\* The time that n late rounds of the loop take.
Allow(n) == MaxLag * StepsPerService * n

\* How late the present round may be with a segment that fell due when it began.
DelayAt(at, behind) ==
    CASE at \in {"compute", "both"} -> behind
      [] at = "call" -> MaxLag + behind
      [] at = "poll" -> 2 * MaxLag + behind
      [] at \in {"timeout", "read"} -> 3 * MaxLag + behind
      [] at = "retransmit" -> 4 * MaxLag + behind
      [] at = "exited" -> 5 * MaxLag

\* The rounds that ended in something else than make_retransmissions: the packets that
\* have been handled, and the interruptions.
OtherRounds == (packets - (IF ready THEN 1 ELSE 0)) + interrupts

\* A segment is no older than its timeouts and the late rounds account for.
Accounted(p, rounds, delay) ==
    /\ p.total <= p.age + Earlier(p.retries) + Allow(p.retries + rounds)
    /\ p.total <= BackoffSum[p.retries] + Allow(p.retries + rounds) + delay

AgeInv == \A s \in DOMAIN pending : Accounted(pending[s], OtherRounds, DelayAt(pc, lag))

TimerInv == TypeInv /\ WakeInv /\ AgeInv

-----------------------------------------------------------------------------
(* One pending segment.                                                    *)

\* The allowance for one round more is five lags larger.
LEMMA AllowFacts ==
    ASSUME NEW n \in Nat
    PROVE  Allow(n) \in Nat /\ Allow(n + 1) = Allow(n) + 5 * MaxLag
<1> DEFINE l == MaxLag * StepsPerService
<1>1. l = 5 * MaxLag /\ l \in Nat
  BY Sizes, SMT DEF StepsPerService
<1>2. Allow(n) = l * n /\ Allow(n + 1) = l * (n + 1)
  BY DEF Allow
<1> HIDE DEF l
<1>3. l * n \in Nat /\ l * (n + 1) = l * n + l
  BY <1>1, SMT
<1> QED
  BY <1>1, <1>2, <1>3, SMT

\* More rounds have a larger allowance.
LEMMA AllowGrows ==
    ASSUME NEW m \in Nat, NEW n \in Nat, m <= n
    PROVE  Allow(m) <= Allow(n)
<1> DEFINE l == MaxLag * StepsPerService
<1>1. l \in Nat
  BY Sizes, SMT DEF StepsPerService
<1>2. Allow(m) = l * m /\ Allow(n) = l * n
  BY DEF Allow
<1> HIDE DEF l
<1>3. l * (n - m) \in Nat /\ l * n = l * m + l * (n - m) /\ l * m \in Nat
  BY <1>1, SMT
<1> QED
  BY <1>2, <1>3, SMT

\* The two sums a segment is measured by.
LEMMA SegSums ==
    ASSUME NEW r \in 0..MaxRetries
    PROVE  /\ Earlier(r) \in Nat /\ BackoffSum[r] \in Nat
           /\ Backoff(r) \in Nat /\ Rto(r) \in Nat /\ Rto(r) <= Backoff(r)
           /\ BackoffSum[r] = Backoff(r) + Earlier(r)
           /\ Earlier(r) <= BackoffSum[r]
<1>1. /\ BackoffSum[r] \in Nat /\ Backoff(r) \in Nat /\ Rto(r) \in Nat
      /\ Rto(r) <= Backoff(r)
  BY Sums, RtoBounds
<1>2. CASE r = 0
  BY <1>1, <1>2, Sums, SMT DEF Earlier
<1>3. CASE r # 0
  <2>1. r \in 1..MaxRetries /\ r - 1 \in 0..MaxRetries
    BY <1>3, Sizes, SMT
  <2>2. BackoffSum[r] = Backoff(r) + BackoffSum[r - 1] /\ BackoffSum[r - 1] \in Nat
    BY <2>1, Sums
  <2> QED
    BY <1>1, <1>3, <2>2, SMT DEF Earlier
<1> QED
  BY <1>2, <1>3

\* A new segment.
LEMMA FreshFacts ==
    ASSUME NEW rounds \in Nat, NEW delay \in Nat
    PROVE  Fresh \in Pending /\ Accounted(Fresh, rounds, delay)
<1>1. 0 \in 0..MaxRetries
  BY Sizes, SMT
<1>2. Fresh.age = 0 /\ Fresh.retries = 0 /\ Fresh.total = 0 /\ Fresh \in Pending
  BY <1>1, Sizes DEF Fresh, Pending
<1>3. Earlier(0) \in Nat /\ BackoffSum[0] \in Nat /\ 0 + rounds \in Nat
  BY <1>1, SegSums
<1>4. Allow(0 + rounds) \in Nat
  BY <1>3, AllowFacts
<1> QED
  BY <1>2, <1>3, <1>4, SMT DEF Accounted

\* The account stays in order when the delay grows, and when a round that did something
\* else is charged with it.
LEMMA AccountKept ==
    ASSUME NEW p \in Pending, NEW j \in Nat, NEW k \in Nat, NEW d \in Nat, NEW e \in Nat,
           Accounted(p, j, d),
           j <= k, d <= e \/ (j + 1 <= k /\ d <= e + 5 * MaxLag)
    PROVE  Accounted(p, k, e)
<1> DEFINE r == p.retries
<1>1. r \in 0..MaxRetries /\ p.total \in Nat /\ p.age \in Nat
  BY DEF Pending
<1>2. r \in Nat /\ r + j \in Nat /\ r + k \in Nat /\ r + j <= r + k
  BY <1>1, Sizes, SMT
<1>3. Earlier(r) \in Nat /\ BackoffSum[r] \in Nat
  BY <1>1, SegSums
<1>4. Allow(r + j) \in Nat /\ Allow(r + k) \in Nat /\ Allow(r + j) <= Allow(r + k)
      /\ Allow((r + j) + 1) = Allow(r + j) + 5 * MaxLag
  BY <1>2, AllowFacts, AllowGrows
<1>5. j + 1 <= k => Allow((r + j) + 1) <= Allow(r + k)
  <2> SUFFICES ASSUME j + 1 <= k PROVE Allow((r + j) + 1) <= Allow(r + k)
    OBVIOUS
  <2>1. (r + j) + 1 \in Nat /\ (r + j) + 1 <= r + k
    BY <1>2, SMT
  <2> QED
    BY <1>2, <2>1, AllowGrows
<1>6. /\ p.total <= p.age + Earlier(r) + Allow(r + j)
      /\ p.total <= BackoffSum[r] + Allow(r + j) + d
  BY DEF Accounted
<1> HIDE DEF r
<1>7. /\ p.total <= p.age + Earlier(r) + Allow(r + k)
      /\ p.total <= BackoffSum[r] + Allow(r + k) + e
  BY <1>1, <1>3, <1>4, <1>5, <1>6, Sizes, SMT
<1> QED
  BY <1>7 DEF Accounted, r

\* A tick of the clock is charged to the delay, unless the segment was not due yet.
LEMMA AccountOlder ==
    ASSUME NEW p \in Pending, NEW k \in Nat, NEW d \in Nat, NEW e \in Nat,
           Accounted(p, k, d),
           d + 1 <= e \/ p.age + 1 <= Rto(p.retries) + e
    PROVE  Older(p) \in Pending /\ Accounted(Older(p), k, e)
<1> DEFINE r == p.retries
           q == Older(p)
<1>1. r \in 0..MaxRetries /\ p.total \in Nat /\ p.age \in Nat
  BY DEF Pending
<1>2. q \in Pending /\ q.retries = r /\ q.age = p.age + 1 /\ q.total = p.total + 1
  <2> DEFINE a == p.age + 1
             t == p.total + 1
  <2>1. a \in Nat /\ t \in Nat
    BY <1>1, SMT
  <2>2. q = [p EXCEPT !.age = a, !.total = t]
    BY DEF Older
  <2> HIDE DEF a, t, q
  <2>3. q \in Pending /\ q.retries = r /\ q.age = a /\ q.total = t
    BY <2>1, <2>2 DEF Pending
  <2> QED
    BY <2>3 DEF a, t
<1>3. /\ Earlier(r) \in Nat /\ BackoffSum[r] \in Nat /\ Rto(r) \in Nat /\ Backoff(r) \in Nat
      /\ Rto(r) <= Backoff(r) /\ BackoffSum[r] = Backoff(r) + Earlier(r)
  BY <1>1, SegSums
<1>4. r + k \in Nat
  BY <1>1, Sizes, SMT
<1>5. Allow(r + k) \in Nat
  BY <1>4, AllowFacts
<1>6. /\ p.total <= p.age + Earlier(r) + Allow(r + k)
      /\ p.total <= BackoffSum[r] + Allow(r + k) + d
  BY DEF Accounted
<1> HIDE DEF r, q
<1>7. d + 1 <= e \/ p.age + 1 <= Rto(r) + e
  BY DEF r
<1>8. /\ q.total <= q.age + Earlier(r) + Allow(r + k)
      /\ q.total <= BackoffSum[r] + Allow(r + k) + e
  BY <1>1, <1>2, <1>3, <1>5, <1>6, <1>7, SMT
<1>9. Accounted(q, k, e)
  BY <1>2, <1>8 DEF Accounted
<1> QED
  BY <1>2, <1>9 DEF q

\* A segment that is not due when make_retransmissions looks is in time.
LEMMA AccountNotDue ==
    ASSUME NEW p \in Pending, NEW k \in Nat, NEW d \in Nat,
           Accounted(p, k, d), ~IsDue(p)
    PROVE  Accounted(p, k, 0)
<1> DEFINE r == p.retries
<1>1. r \in 0..MaxRetries /\ p.total \in Nat /\ p.age \in Nat
  BY DEF Pending
<1>2. /\ Earlier(r) \in Nat /\ BackoffSum[r] \in Nat /\ Rto(r) \in Nat /\ Backoff(r) \in Nat
      /\ Rto(r) <= Backoff(r) /\ BackoffSum[r] = Backoff(r) + Earlier(r)
  BY <1>1, SegSums
<1>3. r + k \in Nat
  BY <1>1, Sizes, SMT
<1>4. Allow(r + k) \in Nat
  BY <1>3, AllowFacts
<1>5. p.total <= p.age + Earlier(r) + Allow(r + k) /\ ~(Rto(r) - p.age <= 0)
  BY DEF Accounted, IsDue, DueIn
<1> HIDE DEF r
<1>6. p.total <= BackoffSum[r] + Allow(r + k) + 0
  BY <1>1, <1>2, <1>4, <1>5, SMT
<1> QED
  BY <1>5, <1>6 DEF Accounted, r

\* A retransmission closes the account of a timeout and of the round that served it.
LEMMA AccountRetransmitted ==
    ASSUME NEW p \in Pending, NEW k \in Nat, NEW d \in Nat, d <= 5 * MaxLag,
           Accounted(p, k, d), ~ExhaustedRetries(p)
    PROVE  RetransmitInfo(p) \in Pending /\ Accounted(RetransmitInfo(p), k, 0)
<1> DEFINE r == p.retries
           q == RetransmitInfo(p)
<1>1. r \in 0..MaxRetries /\ p.total \in Nat /\ p.age \in Nat /\ ~(r >= MaxRetries)
  BY DEF Pending, ExhaustedRetries
<1>2. /\ r + 1 \in 0..MaxRetries /\ Least(r + 1, RetriesMax) = r + 1
      /\ r + 1 # 0 /\ (r + 1) - 1 = r
  BY <1>1, Sizes, SMT DEF Least
<1>3. q \in Pending /\ q.retries = r + 1 /\ q.age = 0 /\ q.total = p.total
  BY <1>2, Sizes DEF RetransmitInfo, Pending
<1>4. /\ BackoffSum[r] \in Nat /\ BackoffSum[r + 1] \in Nat
      /\ Earlier(r + 1) <= BackoffSum[r + 1] /\ Earlier(r + 1) = BackoffSum[r]
  BY <1>1, <1>2, SegSums DEF Earlier
<1>5. r + k \in Nat /\ (r + k) + 1 = (r + 1) + k
  BY <1>1, Sizes, SMT
<1>6. Allow(r + k) \in Nat /\ Allow((r + 1) + k) = Allow(r + k) + 5 * MaxLag
  BY <1>5, AllowFacts
<1>7. p.total <= BackoffSum[r] + Allow(r + k) + d
  BY DEF Accounted
<1> HIDE DEF r, q
<1>8. /\ q.total <= q.age + Earlier(r + 1) + Allow((r + 1) + k)
      /\ q.total <= BackoffSum[r + 1] + Allow((r + 1) + k) + 0
  BY <1>1, <1>3, <1>4, <1>6, <1>7, Sizes, SMT
<1>9. Accounted(q, k, 0)
  BY <1>3, <1>8 DEF Accounted
<1> QED
  BY <1>3, <1>9 DEF q
-----------------------------------------------------------------------------
(* The state.                                                              *)

\* An Option is a set of at most one member.
LEMMA OptionSize ==
    ASSUME NEW S, AtMostOne(S)
    PROVE  IsFiniteSet(S) /\ Cardinality(S) <= 1
<1>1. CASE S = {}
  <2>1. IsFiniteSet({}) /\ Cardinality({}) = 0
    BY FS_EmptySet
  <2> QED
    BY <1>1, <2>1, SMT
<1>2. CASE S # {}
  <2>1. PICK x : x \in S
    BY <1>2
  <2>2. S = {x}
    BY <2>1 DEF AtMostOne
  <2>3. IsFiniteSet({x}) /\ Cardinality({x}) = 1
    BY FS_Singleton, Zenon
  <2> QED
    BY <2>2, <2>3, SMT
<1> QED
  BY <1>1, <1>2

\* The deadlines are finitely many integers, so that there is an earliest one.
LEMMA DeadlineFacts ==
    ASSUME TypeInv
    PROVE  Deadlines \subseteq Int /\ IsFiniteSet(Deadlines)
<1> DEFINE D == DOMAIN pending
           Due == {DueIn(pending[s]) : s \in D}
<1>1. Due \subseteq Int
  <2> SUFFICES ASSUME NEW s \in D PROVE DueIn(pending[s]) \in Int
    OBVIOUS
  <2>1. pending[s].retries \in 0..MaxRetries /\ pending[s].age \in Nat
    BY DEF TypeInv, Pending
  <2>2. Rto(pending[s].retries) \in Nat
    BY <2>1, SegSums
  <2> QED
    BY <2>1, <2>2, SMT DEF DueIn
<1>2. IsFiniteSet(Due)
  <2>1. IsFiniteSet(Conn) /\ IsFiniteSet(Slot)
    BY TimerAssumption
  <2>2. IsFiniteSet(Conn \X Slot)
    BY <2>1, FS_Product
  <2>3. D \in SUBSET (Conn \X Slot)
    BY DEF TypeInv, Seg
  <2>4. IsFiniteSet(D)
    BY <2>2, <2>3, FS_Subset
  <2> DEFINE f == [s \in D |-> DueIn(pending[s])]
  <2>5. f \in Surjection(D, Due)
    BY DEF Surjection
  <2> HIDE DEF f, Due
  <2> QED
    BY <2>4, <2>5, FS_Surjection
<1>3. IsFiniteSet(deadline) /\ deadline \subseteq Int
  BY OptionSize DEF TypeInv
<1>4. Deadlines = Due \cup deadline
  BY DEF Deadlines
<1>5. IsFiniteSet(Due \cup deadline)
  <2> HIDE DEF Due
  <2> QED
    BY <1>2, <1>3, FS_Union
<1> QED
  BY <1>1, <1>3, <1>4, <1>5

\* The delay and the rounds are numbers, and the delay is never more than a round takes.
LEMMA DelayFacts ==
    ASSUME TypeInv
    PROVE  /\ DelayAt(pc, lag) \in Nat /\ DelayAt(pc, lag) <= 5 * MaxLag
           /\ OtherRounds \in Nat
<1>1. /\ lag \in Nat /\ lag <= MaxLag /\ packets \in Nat /\ (ready => packets > 0)
      /\ interrupts \in Nat
  BY Sizes, SMT DEF TypeInv
<1>2. OtherRounds \in Nat
  BY <1>1, SMT DEF OtherRounds
<1>3. pc \in {"compute", "call", "poll", "timeout", "retransmit", "read", "both", "exited"}
  BY DEF TypeInv
<1>4. DelayAt(pc, lag) \in Nat /\ DelayAt(pc, lag) <= 5 * MaxLag
  BY <1>1, <1>3, Sizes, SMT DEF DelayAt
<1> QED
  BY <1>2, <1>4

\* The values of the delay, place by place.
LEMMA Delays ==
    \A l : /\ DelayAt("compute", l) = l /\ DelayAt("both", l) = l
           /\ DelayAt("call", l) = MaxLag + l
           /\ DelayAt("poll", l) = 2 * MaxLag + l
           /\ DelayAt("timeout", l) = 3 * MaxLag + l
           /\ DelayAt("read", l) = 3 * MaxLag + l
           /\ DelayAt("retransmit", l) = 4 * MaxLag + l
           /\ DelayAt("exited", l) = 5 * MaxLag
BY DEF DelayAt

\* A step from one place of the round to the next that leaves the segments alone.
LEMMA NextPlace ==
    ASSUME TypeInv, AgeInv, TypeInv', UNCHANGED <<pending, ready, packets, interrupts>>,
           DelayAt(pc, lag) <= DelayAt(pc', lag')
    PROVE  AgeInv'
<1>1. /\ DelayAt(pc, lag) \in Nat /\ OtherRounds \in Nat
      /\ DelayAt(pc', lag') \in Nat /\ OtherRounds' = OtherRounds
  <2>1. DelayAt(pc', lag') \in Nat
    <3>1. lag' \in Nat /\ lag' <= MaxLag
      BY Sizes, SMT DEF TypeInv
    <3>2. pc' \in {"compute", "call", "poll", "timeout", "retransmit", "read", "both", "exited"}
      BY DEF TypeInv
    <3> QED
      BY <3>1, <3>2, Sizes, SMT DEF DelayAt
  <2> QED
    BY <2>1, DelayFacts DEF OtherRounds
<1> SUFFICES ASSUME NEW s \in DOMAIN pending
             PROVE  Accounted(pending[s], OtherRounds, DelayAt(pc', lag'))
  BY <1>1 DEF AgeInv
<1>2. Accounted(pending[s], OtherRounds, DelayAt(pc, lag)) /\ pending[s] \in Pending
  BY DEF AgeInv, TypeInv
<1>3. OtherRounds <= OtherRounds
  BY <1>1, SMT
<1> DEFINE d == DelayAt(pc, lag)
           e == DelayAt(pc', lag')
           k == OtherRounds
<1> HIDE DEF d, e, k
<1> QED
  BY <1>1, <1>2, <1>3, AccountKept DEF d, e, k
-----------------------------------------------------------------------------
(* Every step keeps the invariant.                                         *)

\* The invariant holds in the beginning, and each action below preserves it.
LEMMA InitTimer == Init => TimerInv
<1> SUFFICES ASSUME Init PROVE TimerInv
  OBVIOUS
<1>1. DOMAIN pending = {}
  BY DEF Init
<1>2. TypeInv
  <2>1. 0 \in 0..MaxLag /\ 0 \in 0..MaxPackets /\ 0 \in 0..MaxInterrupts
    BY Sizes, SMT
  <2> QED
    BY <1>1, <2>1, Zenon DEF Init, TypeInv, AtMostOne
<1>3. WakeInv /\ AgeInv
  BY <1>1 DEF Init, WakeInv, AgeInv
<1> QED
  BY <1>2, <1>3 DEF TimerInv

\* What a timeout comes to when it is given to poll().
LEMMA RoundedDown ==
    ASSUME NEW d \in Int
    PROVE  /\ TimeoutMs(d) \in 0..PollMax
           /\ TimeoutMs(d) * TicksPerMs <= 0 \/ TimeoutMs(d) * TicksPerMs <= d
<1> DEFINE x == Most(d, 0)
           q == x \div TicksPerMs
           m == TimeoutMs(d)
<1>1. x \in Nat /\ (d <= 0 => x = 0) /\ (d > 0 => x = d)
  BY SMT DEF Most
<1>2. TicksPerMs \in Nat /\ TicksPerMs > 0 /\ PollMax \in Nat
  BY Sizes
<1>3. m = Least(q, PollMax)
  BY DEF TimeoutMs
<1> HIDE DEF x, m
<1>4. q \in Nat /\ q * TicksPerMs <= x
  BY <1>1, <1>2, SMT
<1> HIDE DEF q
<1>5. m \in Nat /\ m <= q /\ m <= PollMax
  BY <1>2, <1>3, <1>4, SMT DEF Least
<1>6. m * TicksPerMs <= q * TicksPerMs
  <2>1. (q - m) * TicksPerMs \in Nat
    BY <1>2, <1>4, <1>5, SMT
  <2>2. q * TicksPerMs = m * TicksPerMs + (q - m) * TicksPerMs
    BY <1>2, <1>4, <1>5, SMT
  <2>3. m * TicksPerMs \in Nat
    BY <1>2, <1>5, SMT
  <2> QED
    BY <2>1, <2>2, <2>3, SMT
<1>7. m * TicksPerMs \in Nat /\ q * TicksPerMs \in Nat
  BY <1>2, <1>4, <1>5, SMT
<1>8. m * TicksPerMs <= 0 \/ m * TicksPerMs <= d
  <2> DEFINE u == m * TicksPerMs
             v == q * TicksPerMs
  <2>1. u \in Nat /\ v \in Nat /\ u <= v /\ v <= x
    BY <1>4, <1>6, <1>7
  <2> HIDE DEF u, v
  <2>2. u <= 0 \/ u <= d
    BY <1>1, <2>1, SMT
  <2> QED
    BY <2>2 DEF u
<1>9. m \in 0..PollMax
  BY <1>2, <1>5, SMT
<1> QED
  BY <1>8, <1>9 DEF m

\* poll_timeout: the timeout ends before every deadline.
LEMMA ComputeStep ==
    ASSUME TimerInv, ComputeTimeout
    PROVE  TimerInv'
<1>0. TypeInv /\ WakeInv /\ AgeInv
  BY DEF TimerInv
<1>1. /\ pc = "compute" /\ pc' = "call" /\ lag' = 0
      /\ timeout' = {TimeoutMs(d) : d \in Earliest(Deadlines)}
      /\ pending' = pending /\ deadline' = deadline /\ sleep' = sleep
      /\ ready' = ready /\ packets' = packets /\ interrupts' = interrupts
  BY DEF ComputeTimeout, Step, PollDeadline
<1>2. Deadlines \subseteq Int /\ IsFiniteSet(Deadlines)
  BY <1>0, DeadlineFacts
<1>3. Deadlines' = Deadlines
  BY <1>1 DEF Deadlines
<1>4. 0 \in 0..MaxLag /\ lag \in Nat /\ lag <= MaxLag
  BY <1>0, Sizes, SMT DEF TypeInv
<1>5. timeout' \subseteq 0..PollMax /\ AtMostOne(timeout')
  <2>1. Earliest(Deadlines) \subseteq Int
    BY <1>2 DEF Earliest
  <2>2. \A x \in Earliest(Deadlines) : \A y \in Earliest(Deadlines) : x <= y /\ y <= x
    BY DEF Earliest
  <2>3. \A x \in Earliest(Deadlines) : \A y \in Earliest(Deadlines) : x = y
    BY <2>1, <2>2, SMT
  <2>4. \A d \in Earliest(Deadlines) : TimeoutMs(d) \in 0..PollMax
    BY <2>1, RoundedDown
  <2> QED
    BY <1>1, <2>3, <2>4 DEF AtMostOne
<1>6. TypeInv'
  BY <1>0, <1>1, <1>4, <1>5 DEF TypeInv
<1>7. WakeInv'
  <2> SUFFICES ASSUME NEW d \in Deadlines
               PROVE  \E ms \in timeout' :
                         ms * TicksPerMs <= 0 \/ ms * TicksPerMs <= d + 0
    BY <1>1, <1>3 DEF WakeInv
  <2>1. PICK x \in Deadlines : \A y \in Deadlines : x <= y
    BY <1>2, LeastExists
  <2>2. x \in Int /\ d \in Int /\ x <= d /\ x \in Earliest(Deadlines)
    BY <1>2, <2>1 DEF Earliest
  <2>3. TimeoutMs(x) \in timeout'
    BY <1>1, <2>2
  <2>4. /\ TimeoutMs(x) * TicksPerMs \in Int
        /\ TimeoutMs(x) * TicksPerMs <= 0 \/ TimeoutMs(x) * TicksPerMs <= x
    <3>1. TimeoutMs(x) \in 0..PollMax
      BY <2>2, RoundedDown
    <3> DEFINE m == TimeoutMs(x)
    <3>2. m \in Nat
      BY <3>1, SMT
    <3> HIDE DEF m
    <3>3. m * TicksPerMs \in Int
      BY <3>2, Sizes, SMT
    <3> QED
      BY <2>2, <3>3, RoundedDown DEF m
  <2> DEFINE u == TimeoutMs(x) * TicksPerMs
  <2>5. u <= 0 \/ u <= d + 0
    <3> HIDE DEF u
    <3> QED
      BY <2>2, <2>4, SMT DEF u
  <2> QED
    BY <2>3, <2>5
<1>8. DelayAt(pc, lag) <= DelayAt(pc', lag')
  BY <1>1, <1>4, Delays, Sizes, SMT
<1>9. AgeInv'
  BY <1>0, <1>1, <1>6, <1>8, NextPlace
<1> QED
  BY <1>6, <1>7, <1>9 DEF TimerInv

\* poll is entered with the timeout computed before, late by at most the lag.
LEMMA EnterStep ==
    ASSUME TimerInv, EnterPoll
    PROVE  TimerInv'
<1>0. TypeInv /\ WakeInv /\ AgeInv
  BY DEF TimerInv
<1>1. /\ pc = "call" /\ pc' = "poll" /\ lag' = 0
      /\ sleep' = {ms * TicksPerMs : ms \in timeout} /\ timeout' = {}
      /\ pending' = pending /\ deadline' = deadline
      /\ ready' = ready /\ packets' = packets /\ interrupts' = interrupts
  BY DEF EnterPoll, Step
<1>2. Deadlines' = Deadlines /\ Deadlines \subseteq Int
  BY <1>0, <1>1, DeadlineFacts DEF Deadlines
<1>3. 0 \in 0..MaxLag /\ lag \in Nat /\ lag <= MaxLag
  BY <1>0, Sizes, SMT DEF TypeInv
<1>4. \A ms \in timeout : ms * TicksPerMs \in Int
  <2>1. \A ms \in timeout : ms \in Nat
    BY <1>0, Sizes, SMT DEF TypeInv
  <2> QED
    BY <2>1, Sizes, SMT
<1>5. sleep' \subseteq Int /\ AtMostOne(sleep')
  BY <1>0, <1>1, <1>4 DEF TypeInv, AtMostOne
<1>6. TypeInv'
  BY <1>0, <1>1, <1>3, <1>5 DEF TypeInv, AtMostOne
<1>7. WakeInv'
  <2> SUFFICES ASSUME NEW d \in Deadlines
               PROVE  \E wake \in sleep' : wake <= 0 \/ wake <= d + MaxLag
    BY <1>1, <1>2 DEF WakeInv
  <2>1. PICK ms \in timeout : ms * TicksPerMs <= 0 \/ ms * TicksPerMs <= d + lag
    BY <1>0, <1>1 DEF WakeInv
  <2> DEFINE u == ms * TicksPerMs
  <2>2. u \in Int /\ u \in sleep' /\ (u <= 0 \/ u <= d + lag) /\ d \in Int
    BY <1>1, <1>2, <1>4, <2>1
  <2> HIDE DEF u
  <2>3. u <= 0 \/ u <= d + MaxLag
    BY <1>3, <2>2, Sizes, SMT
  <2> QED
    BY <2>2, <2>3
<1>8. DelayAt(pc, lag) <= DelayAt(pc', lag')
  BY <1>1, <1>3, Delays, Sizes, SMT
<1>9. AgeInv'
  BY <1>0, <1>1, <1>6, <1>8, NextPlace
<1> QED
  BY <1>6, <1>7, <1>9 DEF TimerInv

\* poll() returns, and the grace period is looked at.
LEMMA PollStep ==
    ASSUME TimerInv, PollTimeout \/ PollReadable \/ GracePeriodElapsed \/ GracePeriodGoesOn
    PROVE  TimerInv'
<1>0. TypeInv /\ WakeInv /\ AgeInv
  BY DEF TimerInv
<1>1. /\ pending' = pending /\ deadline' = deadline /\ timeout' = timeout
      /\ ready' = ready /\ packets' = packets /\ interrupts' = interrupts /\ lag' = 0
      /\ sleep' \subseteq sleep
  BY DEF PollTimeout, PollReadable, GracePeriodElapsed, GracePeriodGoesOn, Step
<1>2. \/ pc = "poll" /\ pc' = "timeout"
      \/ pc = "poll" /\ pc' = "read" /\ ready
      \/ pc = "timeout" /\ pc' = "exited"
      \/ pc = "timeout" /\ pc' = "retransmit"
  BY DEF PollTimeout, PollReadable, GracePeriodElapsed, GracePeriodGoesOn, Step
<1>3. 0 \in 0..MaxLag /\ lag \in Nat /\ lag <= MaxLag
  BY <1>0, Sizes, SMT DEF TypeInv
<1>4. TypeInv'
  <2>1. pc' \in {"compute", "call", "poll", "timeout", "retransmit", "read", "both", "exited"}
    BY <1>2
  <2>2. AtMostOne(sleep') /\ sleep' \subseteq Int
    BY <1>0, <1>1 DEF TypeInv, AtMostOne
  <2> QED
    BY <1>0, <1>1, <1>3, <2>1, <2>2 DEF TypeInv
<1>5. WakeInv'
  BY <1>1, <1>2 DEF WakeInv
<1>6. DelayAt(pc, lag) <= DelayAt(pc', lag')
  BY <1>1, <1>2, <1>3, Delays, Sizes, SMT
<1>7. AgeInv'
  BY <1>0, <1>1, <1>4, <1>6, NextPlace
<1> QED
  BY <1>4, <1>5, <1>7 DEF TimerInv

\* A packet arrives: one more round may be late with each segment.
LEMMA ArriveStep ==
    ASSUME TimerInv, PacketArrives
    PROVE  TimerInv'
<1>0. TypeInv /\ WakeInv /\ AgeInv
  BY DEF TimerInv
<1>1. /\ ~ready /\ packets < MaxPackets /\ ready' = TRUE /\ packets' = packets + 1
      /\ pending' = pending /\ deadline' = deadline /\ pc' = pc /\ timeout' = timeout
      /\ sleep' = sleep /\ lag' = lag /\ interrupts' = interrupts
  BY DEF PacketArrives
<1>2. packets' \in 0..MaxPackets /\ packets' > 0
  BY <1>0, <1>1, Sizes, SMT DEF TypeInv
<1>3. TypeInv'
  BY <1>0, <1>1, <1>2 DEF TypeInv
<1>4. WakeInv'
  BY <1>0, <1>1 DEF WakeInv, Deadlines
<1>5. OtherRounds' = OtherRounds
  <2>1. packets \in Nat
    BY <1>0, Sizes, SMT DEF TypeInv
  <2>2. (packets + 1) - 1 = packets - 0
    BY <2>1, SMT
  <2> QED
    BY <1>1, <2>2 DEF OtherRounds
<1>6. AgeInv'
  BY <1>0, <1>1, <1>5 DEF AgeInv
<1> QED
  BY <1>3, <1>4, <1>6 DEF TimerInv

\* Segments are dropped and new ones sent.
SomeSent ==
    \A s \in DOMAIN pending' :
        /\ s \in Seg
        /\ pending'[s] = Fresh \/ (s \in DOMAIN pending /\ pending'[s] = pending[s])

\* The others are accounted for if the delay is, or the round is charged to them.
LEMMA SomeSentStep ==
    ASSUME TypeInv, AgeInv, SomeSent,
           NEW k \in Nat, NEW e \in Nat,
           OtherRounds <= k,
           \/ DelayAt(pc, lag) <= e
           \/ OtherRounds + 1 <= k /\ DelayAt(pc, lag) <= e + 5 * MaxLag
    PROVE  /\ DOMAIN pending' \subseteq Seg
           /\ \A s \in DOMAIN pending' :
                 pending'[s] \in Pending /\ Accounted(pending'[s], k, e)
<1>1. ASSUME NEW s \in DOMAIN pending'
      PROVE  pending'[s] \in Pending /\ Accounted(pending'[s], k, e)
  <2>1. CASE pending'[s] = Fresh
    BY <2>1, FreshFacts
  <2>2. CASE s \in DOMAIN pending /\ pending'[s] = pending[s]
    <3>1. pending[s] \in Pending /\ Accounted(pending[s], OtherRounds, DelayAt(pc, lag))
      BY <2>2 DEF TypeInv, AgeInv
    <3>2. OtherRounds \in Nat /\ DelayAt(pc, lag) \in Nat
      BY DelayFacts
    <3>3. Accounted(pending[s], k, e)
      <4> DEFINE j == OtherRounds
                 d == DelayAt(pc, lag)
      <4>1. /\ j \in Nat /\ d \in Nat /\ Accounted(pending[s], j, d)
            /\ j <= k /\ (d <= e \/ (j + 1 <= k /\ d <= e + 5 * MaxLag))
        BY <3>1, <3>2
      <4> HIDE DEF j, d
      <4> QED
        BY <3>1, <4>1, AccountKept
    <3> QED
      BY <2>2, <3>1, <3>3
  <2> QED
    BY <2>1, <2>2 DEF SomeSent
<1> QED
  BY <1>1 DEF SomeSent

\* handle_packet: some segments go, one may come, the others are charged the round.
LEMMA HandleStep ==
    ASSUME TimerInv, HandlePacket
    PROVE  TimerInv'
<1>0. TypeInv /\ WakeInv /\ AgeInv
  BY DEF TimerInv
<1>1. /\ pc = "read" /\ pc' \in {"compute", "exited", "both"} /\ lag' = 0 /\ ready' = FALSE
      /\ deadline' = deadline /\ timeout' = timeout /\ sleep' = sleep
      /\ packets' = packets /\ interrupts' = interrupts
  BY DEF HandlePacket, Step
<1>2. PICK c \in Conn : \E kept \in SUBSET OfConn(c), new \in SUBSET ({c} \X Slot) :
        /\ Cardinality(new) <= 1 /\ new \cap kept = {}
        /\ pending' = [s \in (DOMAIN pending \ OfConn(c)) \cup kept \cup new |->
                          IF s \in new THEN Fresh ELSE pending[s]]
  BY DEF HandlePacket
<1>3. PICK kept \in SUBSET OfConn(c), new \in SUBSET ({c} \X Slot) :
        pending' = [s \in (DOMAIN pending \ OfConn(c)) \cup kept \cup new |->
                       IF s \in new THEN Fresh ELSE pending[s]]
  BY <1>2
<1> DEFINE k == OtherRounds + 1
           e == DelayAt(pc', lag')
<1>4. /\ ready /\ packets \in Nat /\ packets > 0 /\ lag \in Nat /\ lag <= MaxLag
      /\ 0 \in 0..MaxLag /\ interrupts \in Nat
  BY <1>0, <1>1, Sizes, SMT DEF TypeInv, WakeInv
<1>5. OtherRounds' = k /\ k \in Nat /\ OtherRounds <= k /\ OtherRounds + 1 <= k
  BY <1>1, <1>4, SMT DEF OtherRounds
<1>6. e \in Nat /\ DelayAt(pc, lag) <= e + 5 * MaxLag
  BY <1>1, <1>4, Delays, Sizes, SMT
<1>7. DOMAIN pending' = (DOMAIN pending \ OfConn(c)) \cup kept \cup new
  BY <1>3
<1>8. SomeSent
  BY <1>0, <1>3, <1>7 DEF SomeSent, TypeInv, OfConn, Seg
<1>9. /\ DOMAIN pending' \subseteq Seg
      /\ \A s \in DOMAIN pending' :
            pending'[s] \in Pending /\ Accounted(pending'[s], k, e)
  <2> HIDE DEF k, e
  <2>1. OtherRounds + 1 <= k /\ DelayAt(pc, lag) <= e + 5 * MaxLag
    BY <1>5, <1>6
  <2> QED
    BY <1>0, <1>5, <1>6, <1>8, <2>1, SomeSentStep
<1>10. TypeInv'
  BY <1>0, <1>1, <1>4, <1>9 DEF TypeInv
<1>11. WakeInv'
  BY <1>1 DEF WakeInv
<1>12. AgeInv'
  <2> HIDE DEF k, e
  <2>1. OtherRounds' = k /\ DelayAt(pc, lag)' = e
    BY <1>5 DEF e
  <2> QED
    BY <1>9, <2>1 DEF AgeInv
<1> QED
  BY <1>10, <1>11, <1>12 DEF TimerInv

\* An interruption ends the round, and every segment is charged with it: FINs may be sent
\* and the deadline set, or the worker exits, or it just polls again.
LEMMA InterruptionStep ==
    ASSUME TimerInv, pc \in {"poll", "read", "both"}, Interruption, lag' = 0,
           UNCHANGED <<timeout, ready, packets>>,
           deadline' = deadline \/ deadline' = {GracePeriod},
           pc' \in {"compute", "exited"},
           SomeSent
    PROVE  TimerInv'
<1>0. TypeInv /\ WakeInv /\ AgeInv
  BY DEF TimerInv
<1>1. sleep' = {} /\ interrupts < MaxInterrupts /\ interrupts' = interrupts + 1
  BY DEF Interruption
<1>2. /\ lag \in Nat /\ lag <= MaxLag /\ 0 \in 0..MaxLag /\ packets \in Nat
      /\ (ready => packets > 0) /\ interrupts \in Nat /\ interrupts' \in 0..MaxInterrupts
  BY <1>0, <1>1, Sizes, SMT DEF TypeInv
<1> DEFINE k == OtherRounds + 1
           e == DelayAt(pc', lag')
<1>3. OtherRounds' = k /\ k \in Nat /\ OtherRounds <= k /\ OtherRounds + 1 <= k
  BY <1>1, <1>2, SMT DEF OtherRounds
<1>4. e \in Nat /\ DelayAt(pc, lag) <= e + 5 * MaxLag
  BY <1>2, Delays, Sizes, SMT
<1>5. /\ DOMAIN pending' \subseteq Seg
      /\ \A s \in DOMAIN pending' :
            pending'[s] \in Pending /\ Accounted(pending'[s], k, e)
  <2> HIDE DEF k, e
  <2>1. OtherRounds + 1 <= k /\ DelayAt(pc, lag) <= e + 5 * MaxLag
    BY <1>3, <1>4
  <2> QED
    BY <1>0, <1>3, <1>4, <2>1, SomeSentStep
<1>6. TypeInv'
  <2>1. AtMostOne(deadline') /\ deadline' \subseteq Int
    <3>1. CASE deadline' = deadline
      BY <1>0, <3>1 DEF AtMostOne, TypeInv
    <3>2. CASE deadline' = {GracePeriod}
      <4>1. GracePeriod \in Int
        BY Sizes, SMT
      <4> QED
        BY <3>2, <4>1, Zenon DEF AtMostOne
    <3> QED
      BY <3>1, <3>2
  <2>2. AtMostOne(sleep') /\ sleep' \subseteq Int
    BY <1>1 DEF AtMostOne
  <2> QED
    BY <1>0, <1>2, <1>5, <2>1, <2>2 DEF TypeInv
<1>7. WakeInv'
  BY DEF WakeInv
<1>8. AgeInv'
  <2> HIDE DEF k, e
  <2>1. OtherRounds' = k /\ DelayAt(pc, lag)' = e
    BY <1>3 DEF e
  <2> QED
    BY <1>5, <2>1 DEF AgeInv
<1> QED
  BY <1>6, <1>7, <1>8 DEF TimerInv

\* The two kinds of interruption.
LEMMA ShutDownStep ==
    ASSUME TimerInv, NEW at \in {"poll", "read", "both"}, ShutDown(at) \/ Interrupted(at)
    PROVE  TimerInv'
<1>1. /\ pc \in {"poll", "read", "both"} /\ Interruption /\ lag' = 0
      /\ UNCHANGED <<timeout, ready, packets>>
      /\ deadline' = deadline \/ deadline' = {GracePeriod}
      /\ pc' \in {"compute", "exited"}
  BY DEF ShutDown, Interrupted, Step
<1>2. DOMAIN pending \subseteq Seg
  BY DEF TimerInv, TypeInv
<1>3. SomeSent
  <2>1. CASE pending' = pending
    BY <1>2, <2>1 DEF SomeSent
  <2>2. ASSUME NEW fins \in SUBSET (Seg \ DOMAIN pending),
               pending' = [s \in DOMAIN pending \cup fins |->
                              IF s \in fins THEN Fresh ELSE pending[s]]
        PROVE  SomeSent
    BY <1>2, <2>2 DEF SomeSent
  <2> QED
    BY <2>1, <2>2 DEF ShutDown, Interrupted
<1> QED
  BY <1>1, <1>3, InterruptionStep

\* A segment that is due is sent again or given up; the others fall back on their age.
LEMMA RetransmitStep ==
    ASSUME TimerInv, MakeRetransmissions
    PROVE  TimerInv'
<1>0. TypeInv /\ WakeInv /\ AgeInv
  BY DEF TimerInv
<1> DEFINE givenUp == {c \in Conn : \E s \in OfConn(c) :
                          IsDue(pending[s]) /\ ExhaustedRetries(pending[s])}
           kept    == {s \in DOMAIN pending : s[1] \notin givenUp}
<1>1. /\ pc = "retransmit" /\ pc' = "compute" /\ lag' = 0
      /\ deadline' = deadline /\ timeout' = timeout /\ sleep' = sleep
      /\ ready' = ready /\ packets' = packets /\ interrupts' = interrupts
  BY DEF MakeRetransmissions, Step
<1>2. pending' = [s \in kept |->
                     IF IsDue(pending[s]) THEN RetransmitInfo(pending[s]) ELSE pending[s]]
  BY DEF MakeRetransmissions
<1>3. OtherRounds \in Nat /\ DelayAt(pc, lag) \in Nat /\ DelayAt(pc, lag) <= 5 * MaxLag
  BY <1>0, DelayFacts
<1>4. ASSUME NEW s \in kept
      PROVE  pending'[s] \in Pending /\ Accounted(pending'[s], OtherRounds, 0)
  <2>1. s \in DOMAIN pending /\ s[1] \in Conn /\ s \in OfConn(s[1])
    BY <1>0 DEF TypeInv, Seg, OfConn
  <2>2. pending[s] \in Pending /\ Accounted(pending[s], OtherRounds, DelayAt(pc, lag))
    BY <1>0, <2>1 DEF TypeInv, AgeInv
  <2>3. CASE IsDue(pending[s])
    <3>1. ~ExhaustedRetries(pending[s])
      BY <1>4, <2>1, <2>3
    <3>2. pending'[s] = RetransmitInfo(pending[s])
      BY <1>2, <2>3
    <3> QED
      BY <1>3, <2>2, <3>1, <3>2, AccountRetransmitted
  <2>4. CASE ~IsDue(pending[s])
    <3>1. pending'[s] = pending[s]
      BY <1>2, <2>4
    <3> QED
      BY <1>3, <2>2, <2>4, <3>1, AccountNotDue
  <2> QED
    BY <2>3, <2>4
<1>5. DOMAIN pending' = kept /\ kept \subseteq DOMAIN pending
  BY <1>2
<1>6. 0 \in 0..MaxLag
  BY Sizes, SMT
<1> HIDE DEF kept
<1>7. TypeInv'
  BY <1>0, <1>1, <1>4, <1>5, <1>6 DEF TypeInv
<1>8. WakeInv'
  BY <1>1 DEF WakeInv
<1>9. AgeInv'
  <2>1. OtherRounds' = OtherRounds /\ DelayAt(pc', lag') = 0
    BY <1>1, Delays DEF OtherRounds
  <2> QED
    BY <1>4, <1>5, <2>1 DEF AgeInv
<1> QED
  BY <1>7, <1>8, <1>9 DEF TimerInv

\* A tick brings every deadline nearer by one.
LEMMA DeadlinesTick ==
    ASSUME TypeInv, NEW e \in Deadlines',
           pending' = [s \in DOMAIN pending |-> Older(pending[s])],
           deadline' = {Most(d - 1, -1) : d \in deadline}
    PROVE  \E d \in Deadlines : d \in Int /\ e \in Int /\ d - 1 <= e
<1>0. Deadlines \subseteq Int
  BY DeadlineFacts
<1>1. CASE e \in deadline'
  <2>1. PICK d \in deadline : e = Most(d - 1, -1)
    BY <1>1
  <2>2. d \in Deadlines /\ d \in Int
    BY <2>1 DEF Deadlines, TypeInv
  <2>3. e \in Int /\ d - 1 <= e
    BY <2>1, <2>2, SMT DEF Most
  <2> QED
    BY <2>2, <2>3
<1>2. CASE e \notin deadline'
  <2>1. PICK s \in DOMAIN pending' : e = DueIn(pending'[s])
    BY <1>2 DEF Deadlines
  <2>2. s \in DOMAIN pending /\ pending'[s] = Older(pending[s])
    BY <2>1
  <2> DEFINE p == pending[s]
             q == Older(p)
  <2>3. p \in Pending
    BY <2>2 DEF TypeInv
  <2>4. p.retries \in 0..MaxRetries /\ p.age \in Nat
    BY <2>3 DEF Pending
  <2>5. q.retries = p.retries /\ q.age = p.age + 1
    BY <2>3 DEF Older, Pending
  <2>6. Rto(p.retries) \in Nat
    BY <2>4, SegSums
  <2>7. e = DueIn(q) /\ DueIn(p) \in Deadlines
    BY <2>1, <2>2 DEF Deadlines
  <2> HIDE DEF p, q
  <2>8. DueIn(p) = Rto(p.retries) - p.age /\ e = Rto(p.retries) - (p.age + 1)
    BY <2>5, <2>7 DEF DueIn
  <2>9. DueIn(p) \in Int /\ e \in Int /\ DueIn(p) - 1 <= e
    BY <2>4, <2>6, <2>8, SMT
  <2> QED
    BY <2>7, <2>9
<1> QED
  BY <1>1, <1>2

\* Time passes: charged to the round under way, or slept.
LEMMA TickStep ==
    ASSUME TimerInv, Tick
    PROVE  TimerInv'
<1>0. TypeInv /\ WakeInv /\ AgeInv
  BY DEF TimerInv
<1>1. /\ pc # "exited" /\ (Runnable => lag < MaxLag)
      /\ lag' = (IF Runnable THEN lag + 1 ELSE 0)
      /\ pending' = [s \in DOMAIN pending |-> Older(pending[s])]
      /\ deadline' = {Most(d - 1, -1) : d \in deadline}
      /\ sleep' = {d - 1 : d \in sleep}
      /\ pc' = pc /\ timeout' = timeout /\ ready' = ready /\ packets' = packets
      /\ interrupts' = interrupts
  BY DEF Tick
<1>2. lag \in Nat /\ lag <= MaxLag
  BY <1>0, Sizes, SMT DEF TypeInv
<1>3. lag' \in 0..MaxLag /\ lag' \in Nat
  <2>1. CASE Runnable
    BY <1>1, <1>2, <2>1, Sizes, SMT
  <2>2. CASE ~Runnable
    BY <1>1, <2>2, Sizes, SMT
  <2> QED
    BY <2>1, <2>2
<1> DEFINE k == OtherRounds
           d == DelayAt(pc, lag)
           e == DelayAt(pc', lag')
<1>4. k \in Nat /\ d \in Nat /\ OtherRounds' = k
  BY <1>0, <1>1, DelayFacts DEF OtherRounds
<1>5. e \in Nat /\ (Runnable => d + 1 <= e)
  <2>1. pc' \in {"compute", "call", "poll", "timeout", "retransmit", "read", "both"}
    BY <1>0, <1>1 DEF TypeInv
  <2>2. lag' \in Nat /\ (Runnable => lag' = lag + 1)
    BY <1>1, <1>3
  <2> QED
    BY <1>1, <1>2, <2>1, <2>2, Delays, Sizes, SMT
<1>6. ASSUME NEW s \in DOMAIN pending, ~Runnable
      PROVE  pending[s].age + 1 <= Rto(pending[s].retries) + e
  <2>1. pc = "poll" /\ \A w \in sleep : ~(w <= 0)
    BY <1>6 DEF Runnable
  <2>2. DueIn(pending[s]) \in Deadlines
    BY <1>6 DEF Deadlines
  <2>3. PICK w \in sleep : w <= 0 \/ w <= DueIn(pending[s]) + MaxLag
    BY <1>0, <2>1, <2>2 DEF WakeInv
  <2>4. w \in Int /\ ~(w <= 0)
    BY <1>0, <2>1, <2>3 DEF TypeInv
  <2>5. pending[s].retries \in 0..MaxRetries /\ pending[s].age \in Nat
    BY <1>0, <1>6 DEF TypeInv, Pending
  <2>6. Rto(pending[s].retries) \in Nat
    BY <2>5, SegSums
  <2>7. w <= (Rto(pending[s].retries) - pending[s].age) + MaxLag
    BY <2>3, <2>4 DEF DueIn
  <2>8. e = 2 * MaxLag + lag'
    BY <1>1, <2>1, Delays
  <2> HIDE DEF e
  <2> QED
    BY <1>3, <2>4, <2>5, <2>6, <2>7, <2>8, Sizes, SMT
<1>7. DOMAIN pending' = DOMAIN pending
  BY <1>1
<1>8. ASSUME NEW s \in DOMAIN pending
      PROVE  pending'[s] \in Pending /\ Accounted(pending'[s], k, e)
  <2>1. pending'[s] = Older(pending[s])
    BY <1>1
  <2>2. pending[s] \in Pending /\ Accounted(pending[s], k, d)
    BY <1>0 DEF TypeInv, AgeInv
  <2>3. d + 1 <= e \/ pending[s].age + 1 <= Rto(pending[s].retries) + e
    BY <1>5, <1>6
  <2> HIDE DEF k, d, e
  <2> QED
    BY <1>4, <1>5, <2>1, <2>2, <2>3, AccountOlder
<1>9. TypeInv'
  <2>1. AtMostOne(deadline') /\ deadline' \subseteq Int
    <3>1. \A x \in deadline : x \in Int /\ Most(x - 1, -1) \in Int
      BY <1>0, SMT DEF TypeInv, Most
    <3> QED
      BY <1>0, <1>1, <3>1 DEF TypeInv, AtMostOne
  <2>2. AtMostOne(sleep') /\ sleep' \subseteq Int
    <3>1. \A x \in sleep : x \in Int /\ x - 1 \in Int
      BY <1>0, SMT DEF TypeInv
    <3> QED
      BY <1>0, <1>1, <3>1 DEF TypeInv, AtMostOne
  <2> QED
    BY <1>0, <1>1, <1>3, <1>7, <1>8, <2>1, <2>2 DEF TypeInv
<1>10. WakeInv'
  <2>1. pc' = "read" => ready'
    BY <1>0, <1>1 DEF WakeInv
  <2>2. ASSUME pc' = "call", NEW x \in Deadlines'
        PROVE  \E ms \in timeout' : ms * TicksPerMs <= 0 \/ ms * TicksPerMs <= x + lag'
    <3>1. PICK y \in Deadlines : y \in Int /\ x \in Int /\ y - 1 <= x
      BY <1>0, <1>1, DeadlinesTick
    <3>2. PICK ms \in timeout : ms * TicksPerMs <= 0 \/ ms * TicksPerMs <= y + lag
      BY <1>0, <1>1, <2>2, <3>1 DEF WakeInv
    <3>3. ms \in Nat
      BY <1>0, <3>2, Sizes, SMT DEF TypeInv
    <3> DEFINE u == ms * TicksPerMs
    <3>4. u \in Int
      BY <3>3, Sizes, SMT
    <3>5. u <= 0 \/ u <= y + lag
      BY <3>2
    <3>6. lag' = lag + 1
      BY <1>1, <2>2 DEF Runnable
    <3> HIDE DEF u
    <3>7. u <= 0 \/ u <= x + lag'
      BY <1>2, <3>1, <3>4, <3>5, <3>6, SMT
    <3> QED
      BY <1>1, <3>2, <3>7 DEF u
  <2>3. ASSUME pc' = "poll", NEW x \in Deadlines'
        PROVE  \E wake \in sleep' : wake <= 0 \/ wake <= x + MaxLag
    <3>1. PICK y \in Deadlines : y \in Int /\ x \in Int /\ y - 1 <= x
      BY <1>0, <1>1, DeadlinesTick
    <3>2. PICK w \in sleep : w <= 0 \/ w <= y + MaxLag
      BY <1>0, <1>1, <2>3, <3>1 DEF WakeInv
    <3>3. w \in Int /\ w - 1 \in sleep'
      BY <1>0, <1>1, <3>2 DEF TypeInv
    <3>4. w - 1 <= 0 \/ w - 1 <= x + MaxLag
      BY <3>1, <3>2, <3>3, Sizes, SMT
    <3> QED
      BY <3>3, <3>4
  <2> QED
    BY <2>1, <2>2, <2>3 DEF WakeInv
<1>11. AgeInv'
  <2> HIDE DEF k, e
  <2>1. OtherRounds' = k /\ DelayAt(pc, lag)' = e
    BY <1>4 DEF e
  <2> QED
    BY <1>7, <1>8, <2>1 DEF AgeInv
<1> QED
  BY <1>9, <1>10, <1>11 DEF TimerInv

\* TimerInv is inductive.
LEMMA StepTimer == TimerInv /\ [Next]_vars => TimerInv'
<1> SUFFICES ASSUME TimerInv, [Next]_vars PROVE TimerInv'
  OBVIOUS
<1>1. CASE ComputeTimeout
  BY <1>1, ComputeStep
<1>2. CASE EnterPoll
  BY <1>2, EnterStep
<1>3. CASE PollTimeout \/ PollReadable \/ GracePeriodElapsed \/ GracePeriodGoesOn
  BY <1>3, PollStep
<1>4. CASE MakeRetransmissions
  BY <1>4, RetransmitStep
<1>5. CASE HandlePacket
  BY <1>5, HandleStep
<1>6. CASE \E at \in {"poll", "read", "both"} : ShutDown(at) \/ Interrupted(at)
  BY <1>6, ShutDownStep
<1>7. CASE PacketArrives
  BY <1>7, ArriveStep
<1>8. CASE Tick
  BY <1>8, TickStep
<1>9. CASE UNCHANGED vars
  <2>1. /\ pending' = pending /\ deadline' = deadline /\ pc' = pc /\ timeout' = timeout
        /\ sleep' = sleep /\ lag' = lag /\ ready' = ready /\ packets' = packets
        /\ interrupts' = interrupts
    BY <1>9 DEF vars
  <2> QED
    BY <2>1 DEF TimerInv, TypeInv, WakeInv, AgeInv, Deadlines, OtherRounds
<1> QED
  BY <1>1, <1>2, <1>3, <1>4, <1>5, <1>6, <1>7, <1>8, <1>9 DEF Next, LoopStep
-----------------------------------------------------------------------------
(* What the clock of a worker guarantees.                                  *)

\* The invariant holds always.
LEMMA TimerInvariant == Spec => []TimerInv
  BY InitTimer, StepTimer, PTL DEF Spec

\* The state of a worker's clock keeps its type: retries stops at MaxRetries, poll() is
\* never given a negative timeout or one above c_int::MAX.
THEOREM TimerTypes == Spec => []TypeOK
<1>1. TimerInv => TypeOK
  <2> SUFFICES ASSUME TypeInv PROVE TypeOK
    BY DEF TimerInv
  <2>1. Cardinality(deadline) <= 1 /\ Cardinality(sleep) <= 1 /\ Cardinality(timeout) <= 1
    BY OptionSize DEF TypeInv
  <2> QED
    BY <2>1 DEF TypeInv, TypeOK, Pending
<1> QED
  BY <1>1, TimerInvariant, PTL

\* The worker wakes up in time for every pending segment and for the shutdown deadline,
\* with any number of segments, any backoff, any resolution of poll() and any lag.
THEOREM WakesInTime == Spec => []NoOversleep
<1>1. TimerInv => NoOversleep
  <2> SUFFICES ASSUME TypeInv, WakeInv, pc = "poll",
                      NEW d \in {Backoff(pending[s].retries) - pending[s].age :
                                    s \in DOMAIN pending} \cup deadline
               PROVE  \E wake \in sleep : wake <= 0 \/ wake <= d + MaxLag
    BY DEF TimerInv, NoOversleep
  <2>1. CASE d \in deadline
    BY <2>1 DEF WakeInv, Deadlines
  <2>2. CASE d \notin deadline
    <3>1. PICK s \in DOMAIN pending : d = Backoff(pending[s].retries) - pending[s].age
      BY <2>2
    <3>2. DueIn(pending[s]) \in Deadlines
      BY DEF Deadlines
    <3>3. PICK w \in sleep : w <= 0 \/ w <= DueIn(pending[s]) + MaxLag
      BY <3>2 DEF WakeInv
    <3>4. w \in Int
      BY <3>3 DEF TypeInv
    <3>5. pending[s].retries \in 0..MaxRetries /\ pending[s].age \in Nat
      BY DEF TypeInv, Pending
    <3>6. /\ Rto(pending[s].retries) \in Nat /\ Backoff(pending[s].retries) \in Nat
          /\ Rto(pending[s].retries) <= Backoff(pending[s].retries)
      BY <3>5, SegSums
    <3>7. w <= 0 \/ w <= (Rto(pending[s].retries) - pending[s].age) + MaxLag
      BY <3>3 DEF DueIn
    <3>8. w <= 0 \/ w <= d + MaxLag
      BY <3>1, <3>4, <3>5, <3>6, <3>7, Sizes, SMT
    <3> QED
      BY <3>3, <3>8
  <2> QED
    BY <2>1, <2>2
<1> QED
  BY <1>1, TimerInvariant, PTL

\* A peer that is gone is given up in time: nothing stays pending for longer than its
\* backoff and one late round for each sending, each packet and each interruption.
THEOREM GivesUpInTime == Spec => []GivenUpInTime
<1>1. TimerInv => GivenUpInTime
  <2> SUFFICES ASSUME TypeInv, AgeInv, NEW s \in DOMAIN pending
               PROVE  pending[s].total <= BackoffSum[MaxRetries]
                          + MaxLag * StepsPerService * (MaxRetries + 1 + packets + interrupts)
    BY DEF TimerInv, GivenUpInTime
  <2> DEFINE p == pending[s]
             r == p.retries
             k == OtherRounds
             d == DelayAt(pc, lag)
             n == r + k
             m == MaxRetries + packets + interrupts
  <2>1. r \in 0..MaxRetries /\ p.total \in Nat
    BY DEF TypeInv, Pending
  <2>2. k \in Nat /\ d \in Nat /\ d <= 5 * MaxLag
    BY DelayFacts
  <2>3. p.total <= BackoffSum[r] + Allow(n) + d
    BY DEF AgeInv, Accounted
  <2>4. packets \in Nat /\ interrupts \in Nat /\ k <= packets + interrupts
    <3>1. packets \in Nat /\ interrupts \in Nat
      BY Sizes, SMT DEF TypeInv
    <3> QED
      BY <3>1, SMT DEF OtherRounds
  <2> HIDE DEF k, d, r, p
  <2>5. n \in Nat /\ m \in Nat /\ n <= m
    BY <2>1, <2>2, <2>4, Sizes, SMT
  <2>6. /\ Allow(n) \in Nat /\ Allow(m) \in Nat /\ Allow(n) <= Allow(m)
        /\ Allow(m + 1) = Allow(m) + 5 * MaxLag
    BY <2>5, AllowFacts, AllowGrows
  <2>7. /\ BackoffSum[r] \in Nat /\ BackoffSum[MaxRetries] \in Nat
        /\ BackoffSum[r] <= BackoffSum[MaxRetries]
    <3>1. MaxRetries \in 0..MaxRetries
      BY Sizes, SMT
    <3> QED
      BY <2>1, <3>1, Sums, SumsGrow
  <2>8. p.total <= BackoffSum[MaxRetries] + Allow(m + 1)
    <3> HIDE DEF n, m
    <3> QED
      BY <2>1, <2>2, <2>3, <2>6, <2>7, Sizes, SMT
  <2>9. Allow(m + 1) = MaxLag * StepsPerService * (MaxRetries + 1 + packets + interrupts)
    <3>1. m + 1 = MaxRetries + 1 + packets + interrupts
      BY <2>4, Sizes, SMT
    <3> QED
      BY <3>1 DEF Allow
  <2> QED
    BY <2>8, <2>9 DEF p
<1> QED
  BY <1>1, TimerInvariant, PTL

\* No segment is sent again before its timeout has passed: its age is what is left after
\* the whole of the earlier timeouts.
NotEarlyInv ==
    \A s \in DOMAIN pending :
        pending[s].total >= pending[s].age + Earlier(pending[s].retries)

\* The account from below is kept by every step.
LEMMA NotEarlyStep ==
    ASSUME NeverSaturates, TypeInv, NotEarlyInv, [Next]_vars
    PROVE  NotEarlyInv'
<1> SUFFICES ASSUME NEW s \in DOMAIN pending'
             PROVE  pending'[s].total >= pending'[s].age + Earlier(pending'[s].retries)
  BY DEF NotEarlyInv
<1>1. \/ s \in DOMAIN pending /\ pending'[s] = pending[s]
      \/ pending'[s] = Fresh
      \/ s \in DOMAIN pending /\ pending'[s] = Older(pending[s])
      \/ /\ s \in DOMAIN pending /\ pending'[s] = RetransmitInfo(pending[s])
         /\ IsDue(pending[s]) /\ ~ExhaustedRetries(pending[s])
  <2>1. CASE pending' = pending
    BY <2>1
  <2>2. CASE Tick
    BY <2>2 DEF Tick
  <2>3. CASE HandlePacket
    BY <2>3 DEF HandlePacket, OfConn
  <2>4. CASE \E at \in {"poll", "read", "both"} : ShutDown(at) \/ Interrupted(at)
    BY <2>4 DEF ShutDown, Interrupted
  <2>5. CASE MakeRetransmissions
    <3> DEFINE givenUp == {c \in Conn : \E t \in OfConn(c) :
                              IsDue(pending[t]) /\ ExhaustedRetries(pending[t])}
               kept    == {t \in DOMAIN pending : t[1] \notin givenUp}
    <3>1. pending' = [t \in kept |->
             IF IsDue(pending[t]) THEN RetransmitInfo(pending[t]) ELSE pending[t]]
      BY <2>5 DEF MakeRetransmissions
    <3>2. s \in kept /\ s \in DOMAIN pending
      BY <3>1
    <3>3. s[1] \in Conn /\ s \in OfConn(s[1])
      BY <3>2 DEF TypeInv, Seg, OfConn
    <3>4. ~(IsDue(pending[s]) /\ ExhaustedRetries(pending[s]))
      BY <3>2, <3>3
    <3> QED
      BY <3>1, <3>2, <3>4
  <2> QED
    BY <2>1, <2>2, <2>3, <2>4, <2>5
    DEF Next, LoopStep, vars, ComputeTimeout, EnterPoll, PollTimeout, PollReadable,
        GracePeriodElapsed, GracePeriodGoesOn, PacketArrives
<1>2. CASE s \in DOMAIN pending /\ pending'[s] = pending[s]
  BY <1>2 DEF NotEarlyInv
<1>3. CASE pending'[s] = Fresh
  BY <1>3, SMT DEF Fresh, Earlier
<1> DEFINE p == pending[s]
           r == p.retries
<1>4. ASSUME s \in DOMAIN pending
      PROVE  /\ p \in Pending /\ r \in 0..MaxRetries /\ p.age \in Nat /\ p.total \in Nat
             /\ p.total >= p.age + Earlier(r)
  BY <1>4 DEF TypeInv, Pending, NotEarlyInv
<1>5. CASE s \in DOMAIN pending /\ pending'[s] = Older(pending[s])
  <2>1. Older(p).age = p.age + 1 /\ Older(p).total = p.total + 1 /\ Older(p).retries = r
    BY <1>4, <1>5 DEF Older, Pending
  <2>2. Earlier(r) \in Nat
    BY <1>4, <1>5, SegSums
  <2> HIDE DEF p, r
  <2>3. p.total + 1 >= (p.age + 1) + Earlier(r)
    BY <1>4, <1>5, <2>2, SMT
  <2> QED
    BY <1>5, <2>1, <2>3 DEF p
<1>6. CASE /\ s \in DOMAIN pending /\ pending'[s] = RetransmitInfo(pending[s])
           /\ IsDue(pending[s]) /\ ~ExhaustedRetries(pending[s])
  <2> DEFINE q == RetransmitInfo(p)
  <2>1. ~(r >= MaxRetries) /\ Rto(r) - p.age <= 0
    BY <1>6 DEF ExhaustedRetries, IsDue, DueIn
  <2>2. Least(r + 1, RetriesMax) = r + 1 /\ r + 1 # 0 /\ (r + 1) - 1 = r
    BY <1>4, <1>6, <2>1, Sizes, SMT DEF Least
  <2>3. q.retries = r + 1 /\ q.age = 0 /\ q.total = p.total
    BY <1>4, <1>6, <2>2 DEF RetransmitInfo, Pending
  <2>4. /\ Earlier(r) \in Nat /\ Rto(r) \in Nat /\ Rto(r) = Backoff(r)
        /\ BackoffSum[r] = Backoff(r) + Earlier(r) /\ Earlier(r + 1) = BackoffSum[r]
    BY <1>4, <1>6, <2>2, SegSums, RtoIsBackoff DEF Earlier
  <2> HIDE DEF p, r
  <2>5. p.total >= 0 + Earlier(r + 1)
    BY <1>4, <1>6, <2>1, <2>4, SMT
  <2> QED
    BY <1>6, <2>3, <2>5 DEF p
<1> QED
  BY <1>1, <1>2, <1>3, <1>5, <1>6

\* A connection is only given up after the whole of the backoff: one of its segments
\* has been pending for every timeout the code documents.  The integers must be wide
\* enough: with a power that saturates before RtoMax is reached, the timeouts would be
\* shorter than documented.
THEOREM NoHastyGivingUp ==
    ASSUME NeverSaturates
    PROVE  Spec => NotGivenUpEarly
<1> DEFINE Early == pc = "retransmit" /\ pc' = "compute" =>
                        \A c \in {s[1] : s \in DOMAIN pending \ DOMAIN pending'} :
                            \E s \in OfConn(c) : pending[s].total >= BackoffSum[MaxRetries]
<1>1. Init => NotEarlyInv
  BY DEF Init, NotEarlyInv
<1>2. TimerInv /\ NotEarlyInv /\ [Next]_vars => NotEarlyInv'
  BY NotEarlyStep DEF TimerInv
<1>3. TimerInv /\ NotEarlyInv /\ [Next]_vars => [Early]_vars
  <2> SUFFICES ASSUME TypeInv, NotEarlyInv, Next, pc = "retransmit", pc' = "compute",
                      NEW gone \in DOMAIN pending \ DOMAIN pending'
               PROVE  \E s \in OfConn(gone[1]) : pending[s].total >= BackoffSum[MaxRetries]
    BY DEF TimerInv
  <2>1. MakeRetransmissions
    BY DEF Next, LoopStep, ShutDown, Interrupted, PacketArrives, Tick, ComputeTimeout, EnterPoll,
           PollTimeout, PollReadable, GracePeriodElapsed, GracePeriodGoesOn, HandlePacket,
           Step
  <2> DEFINE givenUp == {c \in Conn : \E s \in OfConn(c) :
                            IsDue(pending[s]) /\ ExhaustedRetries(pending[s])}
             kept    == {s \in DOMAIN pending : s[1] \notin givenUp}
  <2>2. DOMAIN pending' = kept
    BY <2>1 DEF MakeRetransmissions
  <2>3. gone[1] \in givenUp
    BY <2>2
  <2>4. PICK s \in OfConn(gone[1]) : IsDue(pending[s]) /\ ExhaustedRetries(pending[s])
    BY <2>3
  <2> DEFINE p == pending[s]
             r == p.retries
  <2>5. s \in DOMAIN pending
    BY <2>4 DEF OfConn
  <2>6. /\ r \in 0..MaxRetries /\ p.age \in Nat /\ p.total \in Nat
        /\ p.total >= p.age + Earlier(r)
    BY <2>5 DEF TypeInv, Pending, NotEarlyInv
  <2>7. r >= MaxRetries /\ Rto(r) - p.age <= 0
    BY <2>4 DEF ExhaustedRetries, IsDue, DueIn
  <2>8. /\ Earlier(r) \in Nat /\ Rto(r) \in Nat /\ Rto(r) = Backoff(r)
        /\ BackoffSum[r] = Backoff(r) + Earlier(r)
    BY <2>6, SegSums, RtoIsBackoff
  <2> HIDE DEF p, r
  <2>9. r = MaxRetries
    BY <2>6, <2>7, Sizes, SMT
  <2>10. p.total >= BackoffSum[r]
    BY <2>6, <2>7, <2>8, SMT
  <2> QED
    BY <2>9, <2>10 DEF p
<1>4. NotGivenUpEarly <=> [][Early]_vars
  BY DEF NotGivenUpEarly
<1> HIDE DEF Early
<1> QED
  BY <1>1, <1>2, <1>3, <1>4, TimerInvariant, PTL DEF Spec
=============================================================================
