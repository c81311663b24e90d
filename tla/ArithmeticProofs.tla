-------------------------- MODULE ArithmeticProofs --------------------------
(****************************************************************************)
(* Theorems about the arithmetic of UInt256 and Difficulty, for every size  *)
(* of its words: the lemmas on induction, powers and division that it rests *)
(* on, then the operators in the order of the code.                         *)
(****************************************************************************)
EXTENDS Difficulty, TLAPS, NaturalsInduction, WellFoundedInduction

(* Every set of numbers that is not empty has a least one.                  *)
LEMMA LeastOf ==
    ASSUME NEW T \in SUBSET Nat, T # {}
    PROVE  \E x \in T : \A y \in T : x <= y
<1>1. PICK x \in T : \A y \in T : <<y, x>> \notin OpToRel(<, Nat)
  BY NatLessThanWellFounded, WFMin
<1>2. ASSUME NEW y \in T PROVE x <= y
  <2>1. x \in Nat /\ y \in Nat
    OBVIOUS
  <2>2. ~(y < x)
    BY <1>1, <2>1 DEF OpToRel
  <2>. QED BY <2>1, <2>2
<1>. QED BY <1>2

(* Induction, on a set of numbers.                                          *)
LEMMA Induction ==
    ASSUME NEW S \in SUBSET Nat, 0 \in S, \A n \in S : n + 1 \in S
    PROVE  S = Nat
<1>. SUFFICES ASSUME Nat \ S # {} PROVE FALSE
  OBVIOUS
<1>1. PICK x \in Nat \ S : \A y \in Nat \ S : x <= y
  BY LeastOf
<1>2. x # 0 /\ x - 1 \in S
  BY <1>1
<1>. QED BY <1>1, <1>2

(* f comes about by n steps of G from s0.                                   *)
Follows(f, n, s0, G) == f[0] = s0 /\ \A m \in 0 .. n - 1 : f[m + 1] = G[<<m, f[m]>>]

(* A recursion of n steps over any data has a solution.                     *)
LEMMA RecursionUpTo ==
    ASSUME NEW S, NEW s0 \in S, NEW G \in [Nat \X S -> S], NEW n \in Nat
    PROVE  \E f \in [0 .. n -> S] : Follows(f, n, s0, G)
<1>. DEFINE Good(k, f) == f[0] = s0 /\ \A m \in 0 .. k - 1 : f[m + 1] = G[<<m, f[m]>>]
            Has == {k \in Nat : \E f \in [0 .. k -> S] : Good(k, f)}
<1>1. 0 \in Has
  <2>1. Good(0, [m \in 0 .. 0 |-> s0])
    OBVIOUS
  <2>. QED BY <2>1
<1>2. ASSUME NEW k \in Has PROVE k + 1 \in Has
  <2>1. PICK f \in [0 .. k -> S] : Good(k, f)
    OBVIOUS
  <2>. DEFINE g == [m \in 0 .. k + 1 |-> IF m = k + 1 THEN G[<<k, f[k]>>] ELSE f[m]]
  <2>2. g \in [0 .. k + 1 -> S]
    OBVIOUS
  <2>3. g[0] = s0
    BY <2>1
  <2>4. ASSUME NEW m \in 0 .. k PROVE g[m + 1] = G[<<m, g[m]>>]
    <3>. k \in Nat /\ k # k + 1
      OBVIOUS
    <3>1. CASE m = k
      <4>1. g[k + 1] = G[<<k, f[k]>>] /\ g[k] = f[k]
        OBVIOUS
      <4>. QED BY <3>1, <4>1
    <3>2. CASE m # k
      <4>1. m \in 0 .. k - 1 /\ m + 1 \in 0 .. k /\ m + 1 # k + 1 /\ m # k + 1
        BY <3>2
      <4>. QED BY <2>1, <4>1
    <3>. QED BY <3>1, <3>2
  <2>. HIDE DEF g
  <2>5. k + 1 - 1 = k
    OBVIOUS
  <2>. QED BY <2>2, <2>3, <2>4, <2>5
<1>3. Has = Nat
  <2>1. Has \in SUBSET Nat
    OBVIOUS
  <2>. HIDE DEF Has
  <2>. QED BY <1>1, <1>2, <2>1, Induction
<1>. QED BY <1>3 DEF Follows

FollowsAlways(f, s0, G) == f[0] = s0 /\ \A n \in Nat : f[n + 1] = G[<<n, f[n]>>]

(* A recursion over all numbers has a solution.                             *)
LEMMA Recursion ==
    ASSUME NEW S, NEW s0 \in S, NEW G \in [Nat \X S -> S]
    PROVE  \E f \in [Nat -> S] : FollowsAlways(f, s0, G)
<1>. DEFINE Good(n, f) == /\ f \in [0 .. n -> S] /\ f[0] = s0
                          /\ \A m \in 0 .. n - 1 : f[m + 1] = G[<<m, f[m]>>]
            First(n) == CHOOSE f : Good(n, f)
            F == [n \in Nat |-> First(n)[n]]
<1>1. ASSUME NEW n \in Nat PROVE Good(n, First(n))
  <2>1. \E f \in [0 .. n -> S] : Follows(f, n, s0, G)
    BY RecursionUpTo
  <2>2. \E f : Good(n, f)
    BY <2>1 DEF Follows
  <2>. HIDE DEF Good
  <2>. QED BY <2>2
<1>2. ASSUME NEW n \in Nat, NEW f, NEW g, Good(n, f), Good(n + 1, g)
      PROVE  \A m \in 0 .. n : f[m] = g[m]
  <2>. DEFINE Same == {m \in Nat : m <= n => f[m] = g[m]}
  <2>1. 0 \in Same
    BY <1>2
  <2>2. ASSUME NEW m \in Same PROVE m + 1 \in Same
    <3>. SUFFICES ASSUME m + 1 <= n PROVE f[m + 1] = g[m + 1]
      OBVIOUS
    <3>1. m \in Nat /\ m <= n
      OBVIOUS
    <3>2. f[m] = g[m]
      BY <3>1
    <3>3. m \in 0 .. n - 1 /\ m \in 0 .. (n + 1) - 1
      BY <3>1
    <3>. QED BY <1>2, <3>2, <3>3
  <2>3. Same \in SUBSET Nat
    OBVIOUS
  <2>. HIDE DEF Same
  <2>4. Same = Nat
    BY <2>1, <2>2, <2>3, Induction
  <2>. QED BY <2>4 DEF Same
<1>. HIDE DEF First
<1>3. ASSUME NEW n \in Nat PROVE F[n + 1] = G[<<n, F[n]>>]
  <2>. DEFINE f == First(n)
              g == First(n + 1)
  <2>0. Good(n, f) /\ Good(n + 1, g)
    BY <1>1
  <2>. HIDE DEF f, g
  <2>1. \A m \in 0 .. n : f[m] = g[m]
    <3>. HIDE DEF Good
    <3>. QED BY <1>2, <2>0
  <2>2. g[n + 1] = G[<<n, g[n]>>]
    BY <2>0
  <2>3. f[n] = g[n]
    BY <2>1
  <2>. USE DEF f, g
  <2>. QED BY <2>2, <2>3
<1>4. F \in [Nat -> S] /\ F[0] = s0
  BY <1>1
<1>. HIDE DEF F
<1>. QED BY <1>3, <1>4 DEF FollowsAlways

(* The powers of two are what their recursion says.                         *)
LEMMA Pow2Def ==
    /\ Pow2 \in [Nat -> Nat] /\ Pow2[0] = 1
    /\ \A n \in Nat : Pow2[n + 1] = 2 * Pow2[n]
<1>. DEFINE G == [p \in Nat \X Nat |-> 2 * p[2]]
<1>1. G \in [Nat \X Nat -> Nat]
  OBVIOUS
<1>2. PICK f \in [Nat -> Nat] : FollowsAlways(f, 1, G)
  <2>1. 1 \in Nat
    OBVIOUS
  <2>. HIDE DEF G
  <2>. QED BY <1>1, <2>1, Recursion
<1>3. f[0] = 1 /\ \A n \in Nat : f[n + 1] = 2 * f[n]
  BY <1>2 DEF FollowsAlways
<1>4. f = [n \in Nat |-> IF n = 0 THEN 1 ELSE 2 * f[n - 1]]
  <2>1. ASSUME NEW n \in Nat PROVE f[n] = IF n = 0 THEN 1 ELSE 2 * f[n - 1]
    <3>1. CASE n # 0
      <4>1. n - 1 \in Nat /\ (n - 1) + 1 = n
        BY <3>1
      <4>. QED BY <1>3, <3>1, <4>1
    <3>. QED BY <1>3, <3>1
  <2>. QED BY <1>2, <2>1
<1>5. Pow2 = [n \in Nat |-> IF n = 0 THEN 1 ELSE 2 * Pow2[n - 1]]
  BY <1>4 DEF Pow2
<1>6. \A n \in Nat : Pow2[n] = IF n = 0 THEN 1 ELSE 2 * Pow2[n - 1]
  BY <1>5
<1>7. Pow2[0] = 1 /\ \A n \in Nat : Pow2[n + 1] = 2 * Pow2[n]
  BY <1>6
<1>. DEFINE P == {n \in Nat : Pow2[n] \in Nat}
<1>8. 0 \in P /\ \A n \in P : n + 1 \in P
  BY <1>7
<1>9. P = Nat
  <2>. P \in SUBSET Nat
    OBVIOUS
  <2>. HIDE DEF P
  <2>. QED BY <1>8, Induction
<1>10. \A n \in Nat : Pow2[n] \in Nat
  BY <1>9
<1>. QED BY <1>5, <1>7, <1>10

-----------------------------------------------------------------------------
(* Division with a remainder.                                               *)
LEMMA DivMod ==
    ASSUME NEW x \in Int, NEW b \in Nat \ {0}
    PROVE  /\ x \div b \in Int /\ x % b \in 0 .. b - 1
           /\ x = b * (x \div b) + (x % b)
OBVIOUS

(* A multiple and a remainder are divided into just these.                  *)
LEMMA DivModIs ==
    ASSUME NEW b \in Nat \ {0}, NEW q \in Int, NEW r \in 0 .. b - 1
    PROVE  (b * q + r) \div b = q /\ (b * q + r) % b = r
OBVIOUS

(* The remainder of what is at most one step outside.                       *)
LEMMA ModNear ==
    ASSUME NEW b \in Nat \ {0}, NEW x \in Int
    PROVE  /\ x \in 0 .. b - 1 => x % b = x
           /\ x \in b .. 2 * b - 1 => x % b = x - b
           /\ x \in -b .. -1 => x % b = x + b
OBVIOUS

(* A remainder and a quotient of multiples.                                 *)
LEMMA DivModMul ==
    ASSUME NEW b \in Nat \ {0}, NEW c \in Nat \ {0}, NEW x \in Int
    PROVE  /\ (x * c) % (b * c) = (x % b) * c
           /\ (x * c) \div (b * c) = x \div b
<1>. DEFINE q == x \div b
            r == x % b
            m == b * c
            s == r * c
            y == x * c
<1>1. q \in Int /\ r \in 0 .. b - 1 /\ x = b * q + r
  BY DivMod
<1>. HIDE DEF q, r
<1>2. m \in Nat \ {0} /\ s \in 0 .. m - 1
  <2>1. r * c >= 0 /\ (b - 1 - r) * c >= 0 /\ b * c > 0
    BY <1>1
  <2>2. (b - 1 - r) * c = b * c - c - r * c
    BY <1>1
  <2>. QED BY <1>1, <2>1, <2>2
<1>3. y = m * q + s
  BY <1>1
<1>. HIDE DEF m, s, y
<1>4. y % m = s /\ y \div m = q
  BY <1>1, <1>2, <1>3, DivModIs
<1>. QED BY <1>4 DEF q, r, m, s, y

(* Two divisions are one.                                                   *)
LEMMA DivDiv ==
    ASSUME NEW b \in Nat \ {0}, NEW c \in Nat \ {0}, NEW x \in Int
    PROVE  (x \div b) \div c = x \div (b * c)
<1>. DEFINE q == x \div b
            r == x % b
            p == q \div c
            s == q % c
            m == b * c
            t == b * s + r
<1>1. q \in Int /\ r \in 0 .. b - 1 /\ x = b * q + r
  BY DivMod
<1>2. p \in Int /\ s \in 0 .. c - 1 /\ q = c * p + s
  BY <1>1, DivMod
<1>. HIDE DEF q, r, p, s
<1>3. m \in Nat \ {0} /\ t \in 0 .. m - 1
  <2>1. b * s >= 0 /\ b * (c - 1 - s) >= 0 /\ b * c > 0
    BY <1>2
  <2>2. b * (c - 1 - s) = b * c - b - b * s
    BY <1>2
  <2>. QED BY <1>1, <1>2, <2>1, <2>2
<1>4. x = m * p + t
  BY <1>1, <1>2
<1>. HIDE DEF m, t
<1>5. x \div m = p
  BY <1>2, <1>3, <1>4, DivModIs
<1>. QED BY <1>5 DEF q, p, m

(* Numbers by a digit and the rest.                                         *)
LEMMA DigitsOrder ==
    ASSUME NEW b \in Nat \ {0}, NEW x \in Int, NEW y \in Int,
           NEW u \in 0 .. b - 1, NEW v \in 0 .. b - 1
    PROVE  /\ u + b * x < v + b * y <=> x < y \/ (x = y /\ u < v)
           /\ u + b * x = v + b * y <=> x = y /\ u = v
OBVIOUS

(* A digit and a number of m make one of b * m.                             *)
LEMMA DigitsIn ==
    ASSUME NEW b \in Nat \ {0}, NEW m \in Nat \ {0}, NEW u \in 0 .. b - 1, NEW x \in 0 .. m - 1
    PROVE  u + b * x \in 0 .. b * m - 1
<1>1. b * x >= 0 /\ b * (m - 1 - x) >= 0
  OBVIOUS
<1>2. b * (m - 1 - x) = b * m - b - b * x
  OBVIOUS
<1>. QED BY <1>1, <1>2

-----------------------------------------------------------------------------
(* Powers of two.                                                           *)
LEMMA Pow2Sum == \A m, n \in Nat : Pow2[m + n] = Pow2[m] * Pow2[n]
<1>. SUFFICES ASSUME NEW m \in Nat PROVE \A n \in Nat : Pow2[m + n] = Pow2[m] * Pow2[n]
  OBVIOUS
<1>. DEFINE Holds == {n \in Nat : Pow2[m + n] = Pow2[m] * Pow2[n]}
<1>1. 0 \in Holds
  BY Pow2Def
<1>2. ASSUME NEW n \in Holds PROVE n + 1 \in Holds
  <2>1. Pow2[m + (n + 1)] = 2 * Pow2[m + n] /\ Pow2[n + 1] = 2 * Pow2[n]
    BY Pow2Def
  <2>2. Pow2[m + n] = Pow2[m] * Pow2[n] /\ Pow2[m] \in Nat /\ Pow2[n] \in Nat
    BY Pow2Def
  <2>. QED BY <2>1, <2>2
<1>3. Holds \in SUBSET Nat
  OBVIOUS
<1>4. Holds = Nat
  <2>. HIDE DEF Holds
  <2>. QED BY <1>1, <1>2, <1>3, Induction
<1>. QED BY <1>4

(* Powers of two are positive.                                              *)
LEMMA Pow2Positive == \A n \in Nat : Pow2[n] \in Nat \ {0}
<1>. DEFINE Holds == {n \in Nat : Pow2[n] > 0}
<1>1. 0 \in Holds /\ \A n \in Holds : n + 1 \in Holds
  BY Pow2Def
<1>2. Holds = Nat
  <2>1. Holds \in SUBSET Nat
    OBVIOUS
  <2>. HIDE DEF Holds
  <2>. QED BY <1>1, <2>1, Induction
<1>. QED BY <1>2, Pow2Def

(* Powers of two grow.                                                      *)
LEMMA Pow2Grows == \A m, n \in Nat : m < n => Pow2[m] < Pow2[n]
<1>. SUFFICES ASSUME NEW m \in Nat, NEW n \in Nat, m < n PROVE Pow2[m] < Pow2[n]
  OBVIOUS
<1>. DEFINE k == n - m - 1
<1>1. k \in Nat /\ n = m + (k + 1)
  OBVIOUS
<1>. HIDE DEF k
<1>2. Pow2[n] = Pow2[m] * Pow2[k + 1] /\ Pow2[k + 1] = 2 * Pow2[k]
  <2>1. k + 1 \in Nat
    BY <1>1
  <2>2. Pow2[m + (k + 1)] = Pow2[m] * Pow2[k + 1]
    BY <2>1, Pow2Sum
  <2>. QED BY <1>1, <2>2, Pow2Def
<1>3. Pow2[m] \in Nat \ {0} /\ Pow2[k] \in Nat \ {0}
  BY <1>1, Pow2Positive
<1>4. Pow2[m] * (2 * Pow2[k]) > Pow2[m]
  BY <1>3
<1>. QED BY <1>2, <1>4

(* A limb has two values or more, and four limbs make a number.             *)
LEMMA LimbBaseIs ==
    /\ LimbBase \in Nat /\ LimbBase >= 2 /\ LimbBits \in Nat \ {0} /\ Width \in Nat
    /\ Space = LimbBase * (LimbBase * (LimbBase * LimbBase)) /\ Space \in Nat \ {0}
<1>1. LimbBits \in Nat /\ LimbBits > 0
  BY LimbBitsAssumption
<1>2. Pow2[0] < Pow2[LimbBits] /\ Pow2[0] = 1 /\ Pow2[LimbBits] \in Nat
  BY <1>1, Pow2Grows, Pow2Def
<1>3. /\ 2 * LimbBits \in Nat /\ 3 * LimbBits \in Nat /\ 4 * LimbBits \in Nat
      /\ 2 * LimbBits = LimbBits + LimbBits /\ 3 * LimbBits = LimbBits + 2 * LimbBits
      /\ 4 * LimbBits = LimbBits + 3 * LimbBits
  BY <1>1
<1>4. /\ Pow2[2 * LimbBits] = LimbBase * LimbBase
      /\ Pow2[3 * LimbBits] = LimbBase * Pow2[2 * LimbBits]
      /\ Pow2[4 * LimbBits] = LimbBase * Pow2[3 * LimbBits]
  BY <1>1, <1>3, Pow2Sum DEF LimbBase
<1>5. Pow2[4 * LimbBits] \in Nat \ {0}
  BY <1>3, Pow2Positive
<1>. QED BY <1>1, <1>2, <1>3, <1>4, <1>5 DEF LimbBase, Width, Space

-----------------------------------------------------------------------------
(* The integer of four limbs.                                               *)
LEMMA ValueIn == \A a \in UInts : Value(a) \in 0 .. Space - 1
<1>. SUFFICES ASSUME NEW a \in UInts PROVE Value(a) \in 0 .. Space - 1
  OBVIOUS
<1>. DEFINE B == LimbBase
            x == a[2] + B * a[3]
            y == a[1] + B * x
<1>1. /\ a[0] \in 0 .. B - 1 /\ a[1] \in 0 .. B - 1 /\ a[2] \in 0 .. B - 1 /\ a[3] \in 0 .. B - 1
      /\ B \in Nat \ {0} /\ Space = B * (B * (B * B))
  BY LimbBaseIs DEF UInts, Limbs
<1>2. Value(a) = a[0] + B * y
  BY DEF Value
<1>. HIDE DEF B
<1>3. x \in 0 .. B * B - 1
  BY <1>1, DigitsIn
<1>4. B * B \in Nat \ {0}
  BY <1>1
<1>. DEFINE B2 == B * B
            B3 == B * B2
<1>. HIDE DEF x, y, B2, B3
<1>5. y \in 0 .. B3 - 1
  BY <1>1, <1>3, <1>4, DigitsIn DEF y, B2, B3
<1>6. B3 \in Nat \ {0}
  BY <1>1, <1>4 DEF B3, B2
<1>7. a[0] + B * y \in 0 .. B * B3 - 1
  BY <1>1, <1>5, <1>6, DigitsIn
<1>. QED BY <1>1, <1>2, <1>7 DEF B3, B2

(* Numbers are compared by their limbs, and are what their limbs are.       *)
LEMMA LessIs ==
    ASSUME NEW a \in UInts, NEW b \in UInts
    PROVE  /\ Less(a, b) <=> Value(a) < Value(b)
           /\ a = b <=> Value(a) = Value(b)
           /\ AtMost(a, b) <=> Value(a) <= Value(b)
<1>. DEFINE B == LimbBase
            x == a[2] + B * a[3]
            y == a[1] + B * x
            u == b[2] + B * b[3]
            v == b[1] + B * u
<1>1. /\ a[0] \in 0 .. B - 1 /\ a[1] \in 0 .. B - 1 /\ a[2] \in 0 .. B - 1 /\ a[3] \in 0 .. B - 1
      /\ b[0] \in 0 .. B - 1 /\ b[1] \in 0 .. B - 1 /\ b[2] \in 0 .. B - 1 /\ b[3] \in 0 .. B - 1
      /\ B \in Nat \ {0}
  BY LimbBaseIs DEF UInts, Limbs
<1>2. Value(a) = a[0] + B * y /\ Value(b) = b[0] + B * v
  BY DEF Value
<1>3. /\ Less(a, b) <=> \/ a[3] < b[3]
                        \/ a[3] = b[3] /\ a[2] < b[2]
                        \/ a[3] = b[3] /\ a[2] = b[2] /\ a[1] < b[1]
                        \/ a[3] = b[3] /\ a[2] = b[2] /\ a[1] = b[1] /\ a[0] < b[0]
      /\ a = b <=> a[3] = b[3] /\ a[2] = b[2] /\ a[1] = b[1] /\ a[0] = b[0]
  BY DEF Less, UInts, Limbs
<1>. HIDE DEF B
<1>4. x \in Int /\ u \in Int
  BY <1>1
<1>5. /\ x < u <=> a[3] < b[3] \/ (a[3] = b[3] /\ a[2] < b[2])
      /\ x = u <=> a[3] = b[3] /\ a[2] = b[2]
  <2>. DEFINE a2 == a[2]
              a3 == a[3]
              b2 == b[2]
              b3 == b[3]
  <2>1. a2 \in 0 .. B - 1 /\ b2 \in 0 .. B - 1 /\ a3 \in Int /\ b3 \in Int
    BY <1>1
  <2>. HIDE DEF a2, a3, b2, b3
  <2>2. /\ a2 + B * a3 < b2 + B * b3 <=> a3 < b3 \/ (a3 = b3 /\ a2 < b2)
        /\ a2 + B * a3 = b2 + B * b3 <=> a3 = b3 /\ a2 = b2
    BY <1>1, <2>1, DigitsOrder
  <2>. QED BY <2>2 DEF a2, a3, b2, b3, x, u
<1>. HIDE DEF x, u
<1>6. y \in Int /\ v \in Int
  BY <1>1, <1>4
<1>7. (y < v <=> x < u \/ (x = u /\ a[1] < b[1])) /\ (y = v <=> x = u /\ a[1] = b[1])
  BY <1>1, <1>4, DigitsOrder
<1>. HIDE DEF y, v
<1>8. /\ a[0] + B * y < b[0] + B * v <=> y < v \/ (y = v /\ a[0] < b[0])
      /\ a[0] + B * y = b[0] + B * v <=> y = v /\ a[0] = b[0]
  BY <1>1, <1>6, DigitsOrder
<1>9. (Less(a, b) <=> Value(a) < Value(b)) /\ (a = b <=> Value(a) = Value(b))
  BY <1>2, <1>3, <1>5, <1>7, <1>8
<1>10. Value(a) \in Int /\ Value(b) \in Int
  BY ValueIn
<1>. QED BY <1>9, <1>10 DEF AtMost

(* A carry is 1 exactly if a limb and what is added to it go beyond a limb. *)
LEMMA CarryIs ==
    ASSUME NEW x \in 0 .. LimbBase - 1, NEW y \in 0 .. LimbBase - 1, NEW c \in 0 .. 1
    PROVE  LET sum   == (x + y) % LimbBase
               total == (sum + c) % LimbBase
               carry == IF sum < x \/ total < sum THEN 1 ELSE 0
           IN  /\ sum \in 0 .. LimbBase - 1 /\ total \in 0 .. LimbBase - 1
               /\ x + y + c = total + LimbBase * carry
<1>. DEFINE B == LimbBase
            sum == (x + y) % B
            total == (sum + c) % B
<1>1. B \in Nat \ {0} /\ B >= 2
  BY LimbBaseIs
<1>. HIDE DEF B
<1>2. sum = (IF x + y < B THEN x + y ELSE x + y - B) /\ sum \in 0 .. B - 1
  <2>. DEFINE z == x + y
  <2>1. z \in Int /\ (z \in 0 .. B - 1 \/ z \in B .. 2 * B - 1)
    BY <1>1 DEF B
  <2>. HIDE DEF z
  <2>2. (z % B) = IF z < B THEN z ELSE z - B
    <3>1. CASE z \in 0 .. B - 1
      <4>1. (z % B) = z
        BY <1>1, <2>1, <3>1, ModNear
      <4>. QED BY <1>1, <3>1, <4>1
    <3>2. CASE z \in B .. 2 * B - 1
      <4>1. (z % B) = z - B
        BY <1>1, <2>1, <3>2, ModNear
      <4>. QED BY <1>1, <3>2, <4>1
    <3>. QED BY <2>1, <3>1, <3>2
  <2>. QED BY <1>1, <2>1, <2>2 DEF z
<1>. HIDE DEF sum
<1>3. total = (IF sum + c < B THEN sum + c ELSE sum + c - B) /\ total \in 0 .. B - 1
  <2>. DEFINE z == sum + c
  <2>1. z \in Int /\ (z \in 0 .. B - 1 \/ z \in B .. 2 * B - 1)
    BY <1>1, <1>2
  <2>. HIDE DEF z
  <2>2. (z % B) = IF z < B THEN z ELSE z - B
    <3>1. CASE z \in 0 .. B - 1
      <4>1. (z % B) = z
        BY <1>1, <2>1, <3>1, ModNear
      <4>. QED BY <1>1, <3>1, <4>1
    <3>2. CASE z \in B .. 2 * B - 1
      <4>1. (z % B) = z - B
        BY <1>1, <2>1, <3>2, ModNear
      <4>. QED BY <1>1, <3>2, <4>1
    <3>. QED BY <2>1, <3>1, <3>2
  <2>. QED BY <1>1, <1>2, <2>1, <2>2 DEF z
<1>. HIDE DEF total
<1>. DEFINE carry == IF sum < x \/ total < sum THEN 1 ELSE 0
<1>4. x \in 0 .. B - 1 /\ y \in 0 .. B - 1
  BY DEF B
<1>5. x + y + c = total + B * carry
  <2>1. CASE carry = 0
    BY <1>1, <1>2, <1>3, <1>4, <2>1
  <2>2. CASE carry = 1
    BY <1>1, <1>2, <1>3, <1>4, <2>2
  <2>. QED BY <2>1, <2>2
<1>. QED BY <1>2, <1>3, <1>5 DEF sum, total, B

(* The limbs that operator+ makes, with the carries between them.           *)
LEMMA AddIs ==
    ASSUME NEW a \in UInts, NEW b \in UInts
    PROVE  \E c : /\ c = [i \in 0 .. 4 |->
                            IF i = 0 THEN 0
                            ELSE LET sum   == (a[i - 1] + b[i - 1]) % LimbBase
                                     total == (sum + c[i - 1]) % LimbBase
                                 IN  IF sum < a[i - 1] \/ total < sum THEN 1 ELSE 0]
                  /\ Add(a, b) =
                       [i \in Limbs |-> (((a[i] + b[i]) % LimbBase) + c[i]) % LimbBase]
<1>. DEFINE Sum(i) == (a[i] + b[i]) % LimbBase
            Carry(i, last) == IF Sum(i) < a[i] \/ (Sum(i) + last) % LimbBase < Sum(i) THEN 1 ELSE 0
            G == [p \in Nat \X (0 .. 1) |-> Carry(p[1], p[2])]
<1>1. G \in [Nat \X (0 .. 1) -> 0 .. 1]
  OBVIOUS
<1>2. PICK f \in [0 .. 4 -> 0 .. 1] : Follows(f, 4, 0, G)
  <2>1. 0 \in 0 .. 1
    OBVIOUS
  <2>. HIDE DEF G
  <2>. QED BY <1>1, <2>1, RecursionUpTo
<1>. HIDE DEF Carry
<1>3. f[0] = 0 /\ \A m \in 0 .. 3 : f[m + 1] = Carry(m, f[m])
  BY <1>2 DEF Follows
<1>4. f = [i \in 0 .. 4 |-> IF i = 0 THEN 0 ELSE Carry(i - 1, f[i - 1])]
  <2>1. ASSUME NEW i \in 0 .. 4, i # 0 PROVE f[i] = Carry(i - 1, f[i - 1])
    <3>1. i - 1 \in 0 .. 3 /\ (i - 1) + 1 = i
      BY <2>1
    <3>. QED BY <1>3, <3>1
  <2>. QED BY <1>2, <1>3, <2>1
<1>. QED BY <1>4 DEF Add, Carry

(* operator+ adds modulo 2^256.                                             *)
LEMMA AddExact ==
    ASSUME NEW a \in UInts, NEW b \in UInts
    PROVE  Add(a, b) \in UInts /\ Value(Add(a, b)) = (Value(a) + Value(b)) % Space
<1>. DEFINE B == LimbBase
            t == Add(a, b)
<1>1. PICK c : /\ c = [i \in 0 .. 4 |->
                            IF i = 0 THEN 0
                            ELSE LET sum   == (a[i - 1] + b[i - 1]) % LimbBase
                                     total == (sum + c[i - 1]) % LimbBase
                                 IN  IF sum < a[i - 1] \/ total < sum THEN 1 ELSE 0]
               /\ t = [i \in Limbs |-> (((a[i] + b[i]) % LimbBase) + c[i]) % LimbBase]
  BY AddIs
<1>2. c[0] = 0 /\ \A i \in 0 .. 4 : c[i] \in 0 .. 1
  BY <1>1
<1>3. \A i \in Limbs : c[i + 1] = LET sum   == (a[i] + b[i]) % LimbBase
                                      total == (sum + c[i]) % LimbBase
                                  IN  IF sum < a[i] \/ total < sum THEN 1 ELSE 0
  <2>1. \A i \in Limbs : i + 1 \in 0 .. 4 /\ i + 1 # 0 /\ (i + 1) - 1 = i
    BY DEF Limbs
  <2>. QED BY <1>1, <2>1
<1>4. \A i \in Limbs : t[i] = (((a[i] + b[i]) % LimbBase) + c[i]) % LimbBase
  BY <1>1
<1>5. /\ t \in [Limbs -> Nat]
      /\ a \in [Limbs -> 0 .. LimbBase - 1] /\ b \in [Limbs -> 0 .. LimbBase - 1]
      /\ B \in Nat \ {0}
  <2>1. t = [i \in Limbs |-> t[i]]
    BY <1>1
  <2>2. \A i \in Limbs : t[i] \in Nat
    <3>. HIDE DEF t
    <3>. SUFFICES ASSUME NEW i \in Limbs PROVE t[i] \in Nat
      OBVIOUS
    <3>1. a[i] \in 0 .. LimbBase - 1 /\ b[i] \in 0 .. LimbBase - 1 /\ c[i] \in 0 .. 1
      BY <1>2 DEF UInts, Limbs
    <3>. DEFINE x == a[i]
                y == b[i]
                z == c[i]
    <3>. HIDE DEF x, y, z
    <3>2. (((x + y) % LimbBase) + z) % LimbBase \in 0 .. LimbBase - 1
      BY <3>1, CarryIs DEF x, y, z
    <3>. QED BY <1>4, <3>2, LimbBaseIs DEF x, y, z
  <2>. HIDE DEF t
  <2>. QED BY <2>1, <2>2, LimbBaseIs DEF UInts
<1>. HIDE DEF t
<1>6. ASSUME NEW i \in Limbs
      PROVE  t[i] \in 0 .. LimbBase - 1 /\ a[i] + b[i] + c[i] = t[i] + LimbBase * c[i + 1]
  <2>1. a[i] \in 0 .. LimbBase - 1 /\ b[i] \in 0 .. LimbBase - 1 /\ c[i] \in 0 .. 1
    BY <1>2, <1>5 DEF Limbs
  <2>. DEFINE x == a[i]
              y == b[i]
              z == c[i]
              sum == (x + y) % LimbBase
              total == (sum + z) % LimbBase
              carry == IF sum < x \/ total < sum THEN 1 ELSE 0
  <2>2. x \in 0 .. LimbBase - 1 /\ y \in 0 .. LimbBase - 1 /\ z \in 0 .. 1
    BY <2>1
  <2>3. t[i] = total /\ c[i + 1] = carry
    BY <1>3, <1>4
  <2>. HIDE DEF x, y, z
  <2>4. total \in 0 .. LimbBase - 1 /\ x + y + z = total + LimbBase * carry
    BY <2>2, CarryIs
  <2>. HIDE DEF total, carry
  <2>. QED BY <2>3, <2>4 DEF x, y, z
<1>7. t \in UInts
  BY <1>5, <1>6 DEF UInts
<1>8. /\ a[0] + b[0] = t[0] + B * c[1] /\ a[1] + b[1] + c[1] = t[1] + B * c[2]
      /\ a[2] + b[2] + c[2] = t[2] + B * c[3] /\ a[3] + b[3] + c[3] = t[3] + B * c[4]
      /\ a[0] \in Int /\ a[1] \in Int /\ a[2] \in Int /\ a[3] \in Int
      /\ b[0] \in Int /\ b[1] \in Int /\ b[2] \in Int /\ b[3] \in Int
      /\ t[0] \in Int /\ t[1] \in Int /\ t[2] \in Int /\ t[3] \in Int
      /\ c[1] \in Int /\ c[2] \in Int /\ c[3] \in Int /\ c[4] \in Int
  <2>1. 0 \in Limbs /\ 1 \in Limbs /\ 2 \in Limbs /\ 3 \in Limbs
    BY DEF Limbs
  <2>2. /\ a[0] + b[0] + c[0] = t[0] + B * c[0 + 1] /\ a[1] + b[1] + c[1] = t[1] + B * c[1 + 1]
        /\ a[2] + b[2] + c[2] = t[2] + B * c[2 + 1] /\ a[3] + b[3] + c[3] = t[3] + B * c[3 + 1]
    BY <1>6, <2>1
  <2>3. /\ a[0] \in 0 .. B - 1 /\ a[1] \in 0 .. B - 1 /\ a[2] \in 0 .. B - 1 /\ a[3] \in 0 .. B - 1
        /\ b[0] \in 0 .. B - 1 /\ b[1] \in 0 .. B - 1 /\ b[2] \in 0 .. B - 1 /\ b[3] \in 0 .. B - 1
        /\ t[0] \in 0 .. B - 1 /\ t[1] \in 0 .. B - 1 /\ t[2] \in 0 .. B - 1 /\ t[3] \in 0 .. B - 1
    BY <1>5, <1>6, <2>1
  <2>4. c[1] \in 0 .. 1 /\ c[2] \in 0 .. 1 /\ c[3] \in 0 .. 1 /\ c[4] \in 0 .. 1
    BY <1>2
  <2>5. 0 + 1 = 1 /\ 1 + 1 = 2 /\ 2 + 1 = 3 /\ 3 + 1 = 4
    OBVIOUS
  <2>6. a[0] + b[0] + c[0] = a[0] + b[0]
    BY <1>2, <2>3
  <2>. QED BY <2>2, <2>3, <2>4, <2>5, <2>6
<1>9. Value(a) + Value(b) = Space * c[4] + Value(t)
  <2>1. B \in Nat /\ Space = B * (B * (B * B))
    BY LimbBaseIs
  <2>. HIDE DEF B
  <2>. DEFINE a0 == a[0]  a1 == a[1]  a2 == a[2]  a3 == a[3]
              b0 == b[0]  b1 == b[1]  b2 == b[2]  b3 == b[3]
              t0 == t[0]  t1 == t[1]  t2 == t[2]  t3 == t[3]
              c1 == c[1]  c2 == c[2]  c3 == c[3]  c4 == c[4]
  <2>2. /\ a0 + b0 = t0 + B * c1 /\ a1 + b1 + c1 = t1 + B * c2
        /\ a2 + b2 + c2 = t2 + B * c3 /\ a3 + b3 + c3 = t3 + B * c4
        /\ a0 \in Int /\ a1 \in Int /\ a2 \in Int /\ a3 \in Int
        /\ b0 \in Int /\ b1 \in Int /\ b2 \in Int /\ b3 \in Int
        /\ t0 \in Int /\ t1 \in Int /\ t2 \in Int /\ t3 \in Int
        /\ c1 \in Int /\ c2 \in Int /\ c3 \in Int /\ c4 \in Int
    BY <1>8
  <2>. HIDE DEF a0, a1, a2, a3, b0, b1, b2, b3, t0, t1, t2, t3, c1, c2, c3, c4
  <2>3. a0 + B * (a1 + B * (a2 + B * a3)) + (b0 + B * (b1 + B * (b2 + B * b3)))
          = B * (B * (B * B)) * c4 + (t0 + B * (t1 + B * (t2 + B * t3)))
    BY <2>1, <2>2
  <2>. QED BY <2>1, <2>3
          DEF Value, B, a0, a1, a2, a3, b0, b1, b2, b3, t0, t1, t2, t3, c1, c2, c3, c4
<1>10. Value(t) \in 0 .. Space - 1 /\ Space \in Nat \ {0} /\ c[4] \in Int
  BY <1>7, <1>8, ValueIn, LimbBaseIs
<1>11. (Space * c[4] + Value(t)) % Space = Value(t)
  BY <1>10, DivModIs
<1>. QED BY <1>7, <1>9, <1>11 DEF t

(* A borrow is 1 exactly if a limb is less than what is taken from it.      *)
LEMMA BorrowIs ==
    ASSUME NEW x \in 0 .. LimbBase - 1, NEW y \in 0 .. LimbBase - 1, NEW w \in 0 .. 1
    PROVE  LET diff   == (x - y) % LimbBase
               rest   == (diff - w) % LimbBase
               borrow == IF x < y \/ (w = 1 /\ diff = 0) THEN 1 ELSE 0
           IN  /\ diff \in 0 .. LimbBase - 1 /\ rest \in 0 .. LimbBase - 1
               /\ x - y - w = rest - LimbBase * borrow
<1>. DEFINE B == LimbBase
            diff == (x - y) % B
            rest == (diff - w) % B
            borrow == IF x < y \/ (w = 1 /\ diff = 0) THEN 1 ELSE 0
<1>1. B \in Nat \ {0} /\ B >= 2 /\ x \in 0 .. B - 1 /\ y \in 0 .. B - 1
  BY LimbBaseIs
<1>. HIDE DEF B
<1>2. diff = (IF x < y THEN x - y + B ELSE x - y) /\ diff \in 0 .. B - 1
  <2>. DEFINE z == x - y
  <2>1. z \in Int
    BY <1>1
  <2>2. CASE x < y
    <3>1. z \in -B .. -1
      BY <1>1, <2>2
    <3>. HIDE DEF z
    <3>2. (z % B) = z + B
      BY <1>1, <2>1, <3>1, ModNear
    <3>. QED BY <1>1, <2>2, <3>1, <3>2 DEF z
  <2>3. CASE ~(x < y)
    <3>1. z \in 0 .. B - 1
      BY <1>1, <2>3
    <3>. HIDE DEF z
    <3>2. (z % B) = z
      BY <1>1, <2>1, <3>1, ModNear
    <3>. QED BY <1>1, <2>3, <3>1, <3>2 DEF z
  <2>. QED BY <2>2, <2>3
<1>. HIDE DEF diff
<1>3. rest = (IF diff < w THEN diff - w + B ELSE diff - w) /\ rest \in 0 .. B - 1
  <2>. DEFINE z == diff - w
  <2>1. z \in Int
    BY <1>2
  <2>2. CASE diff < w
    <3>1. z \in -B .. -1
      BY <1>1, <1>2, <2>2
    <3>. HIDE DEF z
    <3>2. (z % B) = z + B
      BY <1>1, <2>1, <3>1, ModNear
    <3>. QED BY <1>1, <1>2, <2>2, <3>1, <3>2 DEF z
  <2>3. CASE ~(diff < w)
    <3>1. z \in 0 .. B - 1
      BY <1>1, <1>2, <2>3
    <3>. HIDE DEF z
    <3>2. (z % B) = z
      BY <1>1, <2>1, <3>1, ModNear
    <3>. QED BY <1>1, <1>2, <2>3, <3>1, <3>2 DEF z
  <2>. QED BY <2>2, <2>3
<1>. HIDE DEF rest
<1>4. x - y - w = rest - B * borrow
  <2>1. CASE borrow = 0
    BY <1>1, <1>2, <1>3, <2>1
  <2>2. CASE borrow = 1
    BY <1>1, <1>2, <1>3, <2>2
  <2>. QED BY <2>1, <2>2
<1>. QED BY <1>2, <1>3, <1>4 DEF diff, rest, B

(* The limbs that operator- makes, with the borrows between them.           *)
LEMMA SubtractIs ==
    ASSUME NEW a \in UInts, NEW b \in UInts
    PROVE  \E c : /\ c = [i \in 0 .. 4 |->
                            IF i = 0 THEN 0
                            ELSE IF a[i - 1] < b[i - 1]
                                      \/ (c[i - 1] = 1 /\ (a[i - 1] - b[i - 1]) % LimbBase = 0)
                                   THEN 1 ELSE 0]
                  /\ Subtract(a, b) =
                       [i \in Limbs |-> (((a[i] - b[i]) % LimbBase) - c[i]) % LimbBase]
<1>. DEFINE Diff(i) == (a[i] - b[i]) % LimbBase
            Borrow(i, last) == IF a[i] < b[i] \/ (last = 1 /\ Diff(i) = 0) THEN 1 ELSE 0
            G == [p \in Nat \X (0 .. 1) |-> Borrow(p[1], p[2])]
<1>1. G \in [Nat \X (0 .. 1) -> 0 .. 1]
  OBVIOUS
<1>2. PICK f \in [0 .. 4 -> 0 .. 1] : Follows(f, 4, 0, G)
  <2>1. 0 \in 0 .. 1
    OBVIOUS
  <2>. HIDE DEF G
  <2>. QED BY <1>1, <2>1, RecursionUpTo
<1>. HIDE DEF Borrow
<1>3. f[0] = 0 /\ \A m \in 0 .. 3 : f[m + 1] = Borrow(m, f[m])
  BY <1>2 DEF Follows
<1>4. f = [i \in 0 .. 4 |-> IF i = 0 THEN 0 ELSE Borrow(i - 1, f[i - 1])]
  <2>1. ASSUME NEW i \in 0 .. 4, i # 0 PROVE f[i] = Borrow(i - 1, f[i - 1])
    <3>1. i - 1 \in 0 .. 3 /\ (i - 1) + 1 = i
      BY <2>1
    <3>. QED BY <1>3, <3>1
  <2>. QED BY <1>2, <1>3, <2>1
<1>. QED BY <1>4 DEF Subtract, Borrow

(* operator- subtracts modulo 2^256.                                        *)
LEMMA SubtractExact ==
    ASSUME NEW a \in UInts, NEW b \in UInts
    PROVE  Subtract(a, b) \in UInts /\ Value(Subtract(a, b)) = (Value(a) - Value(b)) % Space
<1>. DEFINE B == LimbBase
            t == Subtract(a, b)
<1>1. PICK c : /\ c = [i \in 0 .. 4 |->
                            IF i = 0 THEN 0
                            ELSE IF a[i - 1] < b[i - 1]
                                      \/ (c[i - 1] = 1 /\ (a[i - 1] - b[i - 1]) % LimbBase = 0)
                                   THEN 1 ELSE 0]
               /\ t = [i \in Limbs |-> (((a[i] - b[i]) % LimbBase) - c[i]) % LimbBase]
  BY SubtractIs
<1>2. c[0] = 0 /\ \A i \in 0 .. 4 : c[i] \in 0 .. 1
  BY <1>1
<1>3. \A i \in Limbs : c[i + 1] =
       IF a[i] < b[i] \/ (c[i] = 1 /\ (a[i] - b[i]) % LimbBase = 0) THEN 1 ELSE 0
  <2>1. \A i \in Limbs : i + 1 \in 0 .. 4 /\ i + 1 # 0 /\ (i + 1) - 1 = i
    BY DEF Limbs
  <2>. QED BY <1>1, <2>1
<1>4. \A i \in Limbs : t[i] = (((a[i] - b[i]) % LimbBase) - c[i]) % LimbBase
  BY <1>1
<1>5. /\ t \in [Limbs -> Nat]
      /\ a \in [Limbs -> 0 .. LimbBase - 1] /\ b \in [Limbs -> 0 .. LimbBase - 1]
      /\ B \in Nat \ {0}
  <2>1. t = [i \in Limbs |-> t[i]]
    BY <1>1
  <2>2. \A i \in Limbs : t[i] \in Nat
    <3>. HIDE DEF t
    <3>. SUFFICES ASSUME NEW i \in Limbs PROVE t[i] \in Nat
      OBVIOUS
    <3>1. a[i] \in 0 .. LimbBase - 1 /\ b[i] \in 0 .. LimbBase - 1 /\ c[i] \in 0 .. 1
      BY <1>2 DEF UInts, Limbs
    <3>. DEFINE x == a[i]
                y == b[i]
                z == c[i]
    <3>. HIDE DEF x, y, z
    <3>2. (((x - y) % LimbBase) - z) % LimbBase \in 0 .. LimbBase - 1
      BY <3>1, BorrowIs DEF x, y, z
    <3>. QED BY <1>4, <3>2, LimbBaseIs DEF x, y, z
  <2>. HIDE DEF t
  <2>. QED BY <2>1, <2>2, LimbBaseIs DEF UInts
<1>. HIDE DEF t
<1>6. ASSUME NEW i \in Limbs
      PROVE  t[i] \in 0 .. LimbBase - 1 /\ a[i] - b[i] - c[i] = t[i] - LimbBase * c[i + 1]
  <2>1. a[i] \in 0 .. LimbBase - 1 /\ b[i] \in 0 .. LimbBase - 1 /\ c[i] \in 0 .. 1
    BY <1>2, <1>5 DEF Limbs
  <2>. DEFINE x == a[i]
              y == b[i]
              z == c[i]
              diff == (x - y) % LimbBase
              total == (diff - z) % LimbBase
              borrow == IF x < y \/ (z = 1 /\ diff = 0) THEN 1 ELSE 0
  <2>2. x \in 0 .. LimbBase - 1 /\ y \in 0 .. LimbBase - 1 /\ z \in 0 .. 1
    BY <2>1
  <2>3. t[i] = total /\ c[i + 1] = borrow
    BY <1>3, <1>4
  <2>. HIDE DEF x, y, z
  <2>4. total \in 0 .. LimbBase - 1 /\ x - y - z = total - LimbBase * borrow
    BY <2>2, BorrowIs
  <2>. HIDE DEF total, borrow
  <2>. QED BY <2>3, <2>4 DEF x, y, z
<1>7. t \in UInts
  BY <1>5, <1>6 DEF UInts
<1>8. /\ a[0] - b[0] = t[0] - B * c[1] /\ a[1] - b[1] - c[1] = t[1] - B * c[2]
      /\ a[2] - b[2] - c[2] = t[2] - B * c[3] /\ a[3] - b[3] - c[3] = t[3] - B * c[4]
      /\ a[0] \in Int /\ a[1] \in Int /\ a[2] \in Int /\ a[3] \in Int
      /\ b[0] \in Int /\ b[1] \in Int /\ b[2] \in Int /\ b[3] \in Int
      /\ t[0] \in Int /\ t[1] \in Int /\ t[2] \in Int /\ t[3] \in Int
      /\ c[1] \in Int /\ c[2] \in Int /\ c[3] \in Int /\ c[4] \in Int
  <2>1. 0 \in Limbs /\ 1 \in Limbs /\ 2 \in Limbs /\ 3 \in Limbs
    BY DEF Limbs
  <2>2. /\ a[0] - b[0] - c[0] = t[0] - B * c[0 + 1] /\ a[1] - b[1] - c[1] = t[1] - B * c[1 + 1]
        /\ a[2] - b[2] - c[2] = t[2] - B * c[2 + 1] /\ a[3] - b[3] - c[3] = t[3] - B * c[3 + 1]
    BY <1>6, <2>1
  <2>3. /\ a[0] \in 0 .. B - 1 /\ a[1] \in 0 .. B - 1 /\ a[2] \in 0 .. B - 1 /\ a[3] \in 0 .. B - 1
        /\ b[0] \in 0 .. B - 1 /\ b[1] \in 0 .. B - 1 /\ b[2] \in 0 .. B - 1 /\ b[3] \in 0 .. B - 1
        /\ t[0] \in 0 .. B - 1 /\ t[1] \in 0 .. B - 1 /\ t[2] \in 0 .. B - 1 /\ t[3] \in 0 .. B - 1
    BY <1>5, <1>6, <2>1
  <2>4. c[1] \in 0 .. 1 /\ c[2] \in 0 .. 1 /\ c[3] \in 0 .. 1 /\ c[4] \in 0 .. 1
    BY <1>2
  <2>5. 0 + 1 = 1 /\ 1 + 1 = 2 /\ 2 + 1 = 3 /\ 3 + 1 = 4
    OBVIOUS
  <2>6. a[0] - b[0] - c[0] = a[0] - b[0]
    BY <1>2, <2>3
  <2>. QED BY <2>2, <2>3, <2>4, <2>5, <2>6
<1>. DEFINE k == -c[4]
<1>9. Value(a) - Value(b) = Space * k + Value(t)
  <2>0. k \in Int /\ k = -c[4]
    BY <1>8
  <2>1. B \in Nat /\ Space = B * (B * (B * B))
    BY LimbBaseIs
  <2>. HIDE DEF B
  <2>. HIDE DEF k
  <2>. DEFINE a0 == a[0]  a1 == a[1]  a2 == a[2]  a3 == a[3]
              b0 == b[0]  b1 == b[1]  b2 == b[2]  b3 == b[3]
              t0 == t[0]  t1 == t[1]  t2 == t[2]  t3 == t[3]
              c1 == c[1]  c2 == c[2]  c3 == c[3]  c4 == c[4]
  <2>2. /\ a0 - b0 = t0 - B * c1 /\ a1 - b1 - c1 = t1 - B * c2
        /\ a2 - b2 - c2 = t2 - B * c3 /\ a3 - b3 - c3 = t3 - B * c4
        /\ a0 \in Int /\ a1 \in Int /\ a2 \in Int /\ a3 \in Int
        /\ b0 \in Int /\ b1 \in Int /\ b2 \in Int /\ b3 \in Int
        /\ t0 \in Int /\ t1 \in Int /\ t2 \in Int /\ t3 \in Int
        /\ c1 \in Int /\ c2 \in Int /\ c3 \in Int /\ c4 \in Int
    BY <1>8
  <2>4. k = -c4 /\ k \in Int
    BY <2>0
  <2>. HIDE DEF a0, a1, a2, a3, b0, b1, b2, b3, t0, t1, t2, t3, c1, c2, c3, c4
  <2>3. a0 + B * (a1 + B * (a2 + B * a3)) - (b0 + B * (b1 + B * (b2 + B * b3)))
          = B * (B * (B * B)) * k + (t0 + B * (t1 + B * (t2 + B * t3)))
    BY <2>1, <2>2, <2>4
  <2>5. /\ Value(a) = a0 + B * (a1 + B * (a2 + B * a3))
        /\ Value(b) = b0 + B * (b1 + B * (b2 + B * b3))
        /\ Value(t) = t0 + B * (t1 + B * (t2 + B * t3))
    BY DEF Value, B, a0, a1, a2, a3, b0, b1, b2, b3, t0, t1, t2, t3, c1, c2, c3, c4
  <2>. HIDE DEF a0, a1, a2, a3, b0, b1, b2, b3, t0, t1, t2, t3, c1, c2, c3, c4
  <2>. QED BY <2>1, <2>2, <2>3, <2>4, <2>5
<1>10. Value(t) \in 0 .. Space - 1 /\ Space \in Nat \ {0} /\ k \in Int
  BY <1>7, <1>8, ValueIn, LimbBaseIs
<1>. HIDE DEF k
<1>11. (Space * k + Value(t)) % Space = Value(t)
  BY <1>10, DivModIs
<1>. QED BY <1>7, <1>9, <1>11 DEF t

(* Sums, differences and comparisons are those of the integers.             *)
LEMMA SumsExact == \A a, b \in UInts : SumsAreExact(a, b)
BY AddExact, SubtractExact, LessIs DEF SumsAreExact

-----------------------------------------------------------------------------
(* Whole limbs, and the bits that are left.                                 *)
LEMMA LimbPowers ==
    /\ Pow2[0 * LimbBits] = 1 /\ Pow2[1 * LimbBits] = LimbBase
    /\ Pow2[2 * LimbBits] = LimbBase * LimbBase
    /\ Pow2[3 * LimbBits] = LimbBase * (LimbBase * LimbBase)
<1>1. LimbBits \in Nat
  BY LimbBitsAssumption
<1>2. /\ 0 * LimbBits = 0 /\ 1 * LimbBits = LimbBits
      /\ 2 * LimbBits = LimbBits + LimbBits /\ 3 * LimbBits = LimbBits + 2 * LimbBits
      /\ 2 * LimbBits \in Nat
  BY <1>1
<1>3. /\ Pow2[LimbBits + LimbBits] = LimbBase * LimbBase
      /\ Pow2[LimbBits + 2 * LimbBits] = LimbBase * Pow2[2 * LimbBits]
  BY <1>1, <1>2, Pow2Sum DEF LimbBase
<1>. QED BY <1>2, <1>3, Pow2Def DEF LimbBase

(* A shift is one of whole limbs and one of fewer bits than a limb has.     *)
LEMMA ShiftParts ==
    ASSUME NEW shift \in Nat, shift < Width
    PROVE  LET l == shift \div LimbBits
               s == shift % LimbBits
           IN  /\ l \in 0 .. 3 /\ s \in 0 .. LimbBits - 1 /\ LimbBits - s \in Nat
               /\ Pow2[s] * Pow2[LimbBits - s] = LimbBase
               /\ Pow2[shift] = Pow2[s] * Pow2[l * LimbBits]
               /\ Pow2[s] \in Nat \ {0} /\ Pow2[LimbBits - s] \in Nat \ {0}
<1>. DEFINE l == shift \div LimbBits
            s == shift % LimbBits
<1>1. LimbBits \in Nat \ {0} /\ Width = 4 * LimbBits
  BY LimbBitsAssumption DEF Width
<1>2. l \in Int /\ s \in 0 .. LimbBits - 1 /\ shift = LimbBits * l + s
  BY <1>1, DivMod
<1>. HIDE DEF l, s
<1>3. l \in 0 .. 3
  <2>1. CASE l < 0
    <3>1. LimbBits * (l + 1) <= 0
      BY <1>1, <1>2, <2>1
    <3>. QED BY <1>1, <1>2, <3>1
  <2>2. CASE l > 3
    <3>1. LimbBits * (l - 4) >= 0
      BY <1>1, <1>2, <2>2
    <3>. QED BY <1>1, <1>2, <3>1
  <2>. QED BY <1>2, <2>1, <2>2
<1>4. l * LimbBits \in Nat /\ LimbBits - s \in Nat /\ s \in Nat
  BY <1>1, <1>2, <1>3
<1>5. Pow2[shift] = Pow2[s] * Pow2[l * LimbBits]
  <2>1. shift = s + l * LimbBits
    BY <1>1, <1>2
  <2>. QED BY <1>4, <2>1, Pow2Sum
<1>6. Pow2[s] * Pow2[LimbBits - s] = LimbBase
  <2>1. LimbBits = s + (LimbBits - s)
    BY <1>1, <1>2
  <2>2. Pow2[s + (LimbBits - s)] = Pow2[s] * Pow2[LimbBits - s]
    BY <1>4, Pow2Sum
  <2>. QED BY <2>1, <2>2 DEF LimbBase
<1>7. Pow2[s] \in Nat \ {0} /\ Pow2[LimbBits - s] \in Nat \ {0}
  BY <1>4, Pow2Positive
<1>. QED BY <1>2, <1>3, <1>4, <1>5, <1>6, <1>7 DEF l, s

(* A limb is moved up: what stays in it, and what comes out of it.          *)
LEMMA LimbUp ==
    ASSUME NEW x \in 0 .. LimbBase - 1, NEW M \in Nat \ {0}, NEW N \in Nat \ {0}, M * N = LimbBase
    PROVE  /\ x * M = ((x * M) % LimbBase) + LimbBase * (x \div N)
           /\ (x * M) % LimbBase \in 0 .. LimbBase - M
           /\ x \div N \in 0 .. M - 1
<1>. DEFINE q == x \div N
            r == x % N
            B == LimbBase
<1>1. q \in Int /\ r \in 0 .. N - 1 /\ x = N * q + r /\ x \in 0 .. B - 1
  <2>1. x \in Int /\ x \in 0 .. B - 1
    OBVIOUS
  <2>2. x \div N \in Int /\ x % N \in 0 .. N - 1 /\ x = N * (x \div N) + (x % N)
    BY <2>1, DivMod
  <2>3. q = x \div N /\ r = x % N
    OBVIOUS
  <2>. HIDE DEF q, r, B
  <2>. QED BY <2>1, <2>2, <2>3
<1>2. ((x * M) % (N * M)) = r * M
  <2>1. x \in Int
    OBVIOUS
  <2>2. ((x * M) % (N * M)) = (x % N) * M
    BY <2>1, DivModMul
  <2>. QED BY <2>2
<1>. HIDE DEF q, r, B
<1>3. N * M = B /\ M * N = B /\ B \in Nat
  BY LimbBaseIs DEF B
<1>4. ((x * M) % B) = r * M
  BY <1>2, <1>3
<1>5. x * M = r * M + B * q
  <2>1. x * M = (N * M) * q + r * M
    BY <1>1
  <2>. QED BY <1>1, <1>3, <2>1
<1>6. r * M \in 0 .. B - M
  <2>1. r * M >= 0 /\ (N - 1 - r) * M >= 0
    BY <1>1
  <2>2. (N - 1 - r) * M = N * M - M - r * M
    BY <1>1
  <2>. QED BY <1>1, <1>3, <2>1, <2>2
<1>7. q \in 0 .. M - 1
  <2>1. CASE q < 0
    <3>1. N * (q + 1) <= 0
      BY <1>1, <2>1
    <3>. QED BY <1>1, <3>1
  <2>2. CASE q >= M
    <3>1. N * (q - M) >= 0
      BY <1>1, <2>2
    <3>2. N * (q - M) = N * q - N * M
      BY <1>1
    <3>. QED BY <1>1, <1>3, <3>1, <3>2
  <2>. QED BY <1>1, <2>1, <2>2
<1>. QED BY <1>4, <1>5, <1>6, <1>7 DEF q, B

(* shiftLeft() multiplies what is not shifted out.                          *)
LEMMA ShiftLeftExact ==
    ASSUME NEW a \in UInts, NEW shift \in Nat
    PROVE  /\ ShiftLeft(a, shift) \in UInts
           /\ Value(ShiftLeft(a, shift)) =
                IF shift >= Width THEN 0
                ELSE (Value(a) % Pow2[Width - shift]) * Pow2[shift]
<1>1. CASE shift >= Width
  <2>1. ShiftLeft(a, shift) = Zero
    BY <1>1 DEF ShiftLeft
  <2>2. Zero \in UInts /\ Zero = [i \in Limbs |-> 0]
    BY LimbBaseIs DEF Zero, FromLimb, UInts
  <2>3. Value(Zero) = 0
    BY <2>2, LimbBaseIs DEF Value, Limbs
  <2>. QED BY <1>1, <2>1, <2>2, <2>3
<1>2. CASE ~(shift >= Width)
  <2>. DEFINE B == LimbBase
              l == shift \div LimbBits
              s == shift % LimbBits
              M == Pow2[s]
              N == Pow2[LimbBits - s]
              g == [i \in Limbs |-> (a[i] * M) % B]
              h == [i \in Limbs |-> a[i] \div N]
              F == [i \in Limbs |-> g[i] + IF i > 0 THEN h[i - 1] ELSE 0]
              R == ShiftLeft(a, shift)
              P == Pow2[l * LimbBits]
  <2>1. /\ shift < Width /\ Width \in Nat /\ B \in Nat \ {0} /\ Space = B * (B * (B * B))
        /\ Space \in Nat \ {0}
    BY <1>2, LimbBaseIs
  <2>2. /\ l \in 0 .. 3 /\ M * N = B /\ Pow2[shift] = M * P
        /\ M \in Nat \ {0} /\ N \in Nat \ {0}
    BY <2>1, ShiftParts
  <2>3. R = [dst \in Limbs |-> IF dst < l THEN 0 ELSE F[dst - l]]
    <3>. HIDE DEF M, N, B
    <3>1. \A dst \in Limbs : dst - 1 \in Int /\ (dst > 0 => dst - 1 \in Limbs)
      BY DEF Limbs
    <3>2. \A src \in Limbs : F[src] = ((a[src] * M) % B) + IF src > 0 THEN a[src - 1] \div N ELSE 0
      BY <3>1
    <3>3. \A dst \in Limbs : ~(dst < l) => dst - l \in Limbs
      BY <2>2 DEF Limbs
    <3>4. R = [dst \in Limbs |->
                 IF dst < l THEN 0
                 ELSE ((a[dst - l] * M) % B)
                        + IF dst - l > 0 THEN a[(dst - l) - 1] \div N ELSE 0]
      BY <1>2 DEF ShiftLeft, M, N, B
    <3>. HIDE DEF F, R, l
    <3>. QED BY <3>2, <3>3, <3>4
  <2>4. /\ \A i \in Limbs : /\ a[i] \in 0 .. B - 1 /\ g[i] \in 0 .. B - M /\ h[i] \in 0 .. M - 1
                            /\ a[i] * M = g[i] + B * h[i]
        /\ M <= B
    <3>1. ASSUME NEW i \in Limbs
          PROVE  /\ a[i] \in 0 .. B - 1 /\ g[i] \in 0 .. B - M /\ h[i] \in 0 .. M - 1
                 /\ a[i] * M = g[i] + B * h[i]
      <4>. DEFINE x == a[i]
      <4>1. x \in 0 .. B - 1
        BY DEF UInts
      <4>2. g[i] = (x * M) % B /\ h[i] = x \div N
        OBVIOUS
      <4>. HIDE DEF x, g, h, M, N, l, s, P
      <4>3. /\ x * M = ((x * M) % B) + B * (x \div N)
            /\ (x * M) % B \in 0 .. B - M /\ x \div N \in 0 .. M - 1
        BY <2>2, <4>1, LimbUp
      <4>. QED BY <4>1, <4>2, <4>3 DEF x
    <3>2. M <= B
      <4>. HIDE DEF M, N, B
      <4>1. M * (N - 1) >= 0 /\ M * (N - 1) = M * N - M
        BY <2>2
      <4>. QED BY <2>1, <2>2, <4>1
    <3>. QED BY <3>1, <3>2
  <2>. HIDE DEF B, l, s, M, N, g, h, R, P
  <2>5. \A i \in Limbs : F[i] \in 0 .. B - 1
    <3>1. \A i \in Limbs : i > 0 => i - 1 \in Limbs
      BY DEF Limbs
    <3>. QED BY <2>1, <2>2, <2>4, <3>1
  <2>6. R \in UInts
    <3>1. \A dst \in Limbs : ~(dst < l) => dst - l \in Limbs
      BY <2>2 DEF Limbs
    <3>2. 0 \in 0 .. B - 1
      BY <2>1
    <3>. HIDE DEF F
    <3>3. \A dst \in Limbs : R[dst] \in 0 .. B - 1
      BY <2>3, <2>5, <3>1, <3>2
    <3>. QED BY <2>3, <3>3 DEF UInts, B
  <2>7. F[0] = g[0] /\ F[1] = g[1] + h[0] /\ F[2] = g[2] + h[1] /\ F[3] = g[3] + h[2]
    <3>1. g[0] \in Int
      BY <2>2, <2>4 DEF Limbs
    <3>. QED BY <3>1 DEF Limbs
  <2>. HIDE DEF F
  <2>. DEFINE a0 == a[0]  a1 == a[1]  a2 == a[2]  a3 == a[3]
              g0 == g[0]  g1 == g[1]  g2 == g[2]  g3 == g[3]
              h0 == h[0]  h1 == h[1]  h2 == h[2]  h3 == h[3]
              F0 == F[0]  F1 == F[1]  F2 == F[2]  F3 == F[3]
              V  == Value(a)
  <2>8. /\ a0 * M = g0 + B * h0 /\ a1 * M = g1 + B * h1 /\ a2 * M = g2 + B * h2
        /\ a3 * M = g3 + B * h3
        /\ F0 = g0 /\ F1 = g1 + h0 /\ F2 = g2 + h1 /\ F3 = g3 + h2
        /\ a0 \in Int /\ a1 \in Int /\ a2 \in Int /\ a3 \in Int
        /\ g0 \in Int /\ g1 \in Int /\ g2 \in Int /\ g3 \in Int
        /\ h0 \in Int /\ h1 \in Int /\ h2 \in Int /\ h3 \in Int
        /\ V = a0 + B * (a1 + B * (a2 + B * a3))
    BY <2>1, <2>2, <2>4, <2>7 DEF Limbs, Value, B
  <2>9. /\ F0 \in Int /\ F1 \in Int /\ F2 \in Int /\ F3 \in Int /\ V \in Int
    BY <2>8, ValueIn
  <2>. HIDE DEF a0, a1, a2, a3, g0, g1, g2, g3, h0, h1, h2, h3, F0, F1, F2, F3, V
  <2>10. V * M = F0 + B * (F1 + B * (F2 + B * F3)) + B * (B * (B * B)) * h3
    BY <2>1, <2>2, <2>8
  <2>11. \E q \in Int : V * (M * P) = Space * q + Value(R)
    <3>1. CASE l = 0
      <4>1. Value(R) = F0 + B * (F1 + B * (F2 + B * F3))
        BY <2>3, <3>1 DEF Value, Limbs, B, F0, F1, F2, F3
      <4>2. P = 1
        BY <3>1, LimbPowers DEF P
      <4>3. V * (M * P) = Space * h3 + Value(R)
        BY <2>1, <2>2, <2>8, <2>9, <2>10, <4>1, <4>2
      <4>. QED BY <2>8, <4>3
    <3>2. CASE l = 1
      <4>1. Value(R) = 0 + B * (F0 + B * (F1 + B * F2))
        BY <2>3, <3>2 DEF Value, Limbs, B, F0, F1, F2, F3
      <4>2. P = B
        BY <3>2, LimbPowers DEF P, B
      <4>3. V * (M * P) = Space * (F3 + B * h3) + Value(R)
        BY <2>1, <2>2, <2>8, <2>9, <2>10, <4>1, <4>2
      <4>4. F3 + B * h3 \in Int
        BY <2>1, <2>8, <2>9
      <4>. QED BY <4>3, <4>4
    <3>3. CASE l = 2
      <4>1. Value(R) = 0 + B * (0 + B * (F0 + B * F1))
        BY <2>3, <3>3 DEF Value, Limbs, B, F0, F1, F2, F3
      <4>2. P = B * B
        BY <3>3, LimbPowers DEF P, B
      <4>3. V * (M * P) = Space * (F2 + B * (F3 + B * h3)) + Value(R)
        BY <2>1, <2>2, <2>8, <2>9, <2>10, <4>1, <4>2
      <4>4. F2 + B * (F3 + B * h3) \in Int
        BY <2>1, <2>8, <2>9
      <4>. QED BY <4>3, <4>4
    <3>4. CASE l = 3
      <4>1. Value(R) = 0 + B * (0 + B * (0 + B * F0))
        BY <2>3, <3>4 DEF Value, Limbs, B, F0, F1, F2, F3
      <4>2. P = B * (B * B)
        BY <3>4, LimbPowers DEF P, B
      <4>3. V * (M * P) = Space * (F1 + B * (F2 + B * (F3 + B * h3))) + Value(R)
        BY <2>1, <2>2, <2>8, <2>9, <2>10, <4>1, <4>2
      <4>4. F1 + B * (F2 + B * (F3 + B * h3)) \in Int
        BY <2>1, <2>8, <2>9
      <4>. QED BY <4>3, <4>4
    <3>. QED BY <2>2, <3>1, <3>2, <3>3, <3>4
  <2>12. Value(R) \in 0 .. Space - 1
    BY <2>6, ValueIn
  <2>. DEFINE m == V * Pow2[shift]
  <2>13. (m % Space) = Value(R)
    <3>1. PICK q \in Int : m = Space * q + Value(R)
      BY <2>2, <2>11
    <3>. HIDE DEF m
    <3>. QED BY <2>1, <2>12, <3>1, DivModIs
  <2>14. (m % Space) = (V % Pow2[Width - shift]) * Pow2[shift]
    <3>1. Width - shift \in Nat /\ Width = (Width - shift) + shift
      BY <2>1
    <3>2. Pow2[Width - shift] * Pow2[shift] = Space
      BY <3>1, Pow2Sum DEF Space
    <3>3. Pow2[Width - shift] \in Nat \ {0} /\ Pow2[shift] \in Nat \ {0}
      BY <3>1, Pow2Positive
    <3>. QED BY <2>9, <3>2, <3>3, DivModMul
  <2>. QED BY <1>2, <2>6, <2>13, <2>14 DEF R, V
<1>. QED BY <1>1, <1>2

(* A limb is moved down: what stays in it, and what goes into the one below. *)
LEMMA LimbDown ==
    ASSUME NEW x \in 0 .. LimbBase - 1, NEW M \in Nat \ {0}, NEW N \in Nat \ {0}, M * N = LimbBase
    PROVE  /\ x = M * (x \div M) + (x % M)
           /\ (x * N) % LimbBase = (x % M) * N
           /\ x \div M \in 0 .. N - 1 /\ x % M \in 0 .. M - 1
<1>. DEFINE q == x \div M
            r == x % M
            B == LimbBase
<1>1. q \in Int /\ r \in 0 .. M - 1 /\ x = M * q + r /\ x \in 0 .. B - 1
  <2>1. x \in Int /\ x \in 0 .. B - 1
    OBVIOUS
  <2>2. x \div M \in Int /\ x % M \in 0 .. M - 1 /\ x = M * (x \div M) + (x % M)
    BY <2>1, DivMod
  <2>3. q = x \div M /\ r = x % M
    OBVIOUS
  <2>. HIDE DEF q, r, B
  <2>. QED BY <2>1, <2>2, <2>3
<1>2. ((x * N) % (M * N)) = r * N
  <2>1. x \in Int
    OBVIOUS
  <2>2. ((x * N) % (M * N)) = (x % M) * N
    BY <2>1, DivModMul
  <2>. QED BY <2>2
<1>. HIDE DEF q, r, B
<1>3. M * N = B
  BY DEF B
<1>4. q \in 0 .. N - 1
  <2>1. CASE q < 0
    <3>1. M * (q + 1) <= 0
      BY <1>1, <2>1
    <3>. QED BY <1>1, <3>1
  <2>2. CASE q >= N
    <3>1. M * (q - N) >= 0
      BY <1>1, <2>2
    <3>2. M * (q - N) = M * q - M * N
      BY <1>1
    <3>. QED BY <1>1, <1>3, <3>1, <3>2
  <2>. QED BY <1>1, <2>1, <2>2
<1>. QED BY <1>1, <1>2, <1>3, <1>4 DEF q, r, B

(* shiftRight() divides.                                                    *)
LEMMA ShiftRightExact ==
    ASSUME NEW a \in UInts, NEW shift \in Nat
    PROVE  /\ ShiftRight(a, shift) \in UInts
           /\ Value(ShiftRight(a, shift)) =
                IF shift >= Width THEN 0 ELSE Value(a) \div Pow2[shift]
<1>1. CASE shift >= Width
  <2>1. ShiftRight(a, shift) = Zero
    BY <1>1 DEF ShiftRight
  <2>2. Zero \in UInts /\ Zero = [i \in Limbs |-> 0]
    BY LimbBaseIs DEF Zero, FromLimb, UInts
  <2>3. Value(Zero) = 0
    BY <2>2, LimbBaseIs DEF Value, Limbs
  <2>. QED BY <1>1, <2>1, <2>2, <2>3
<1>2. CASE ~(shift >= Width)
  <2>. DEFINE B == LimbBase
              l == shift \div LimbBits
              s == shift % LimbBits
              M == Pow2[s]
              N == Pow2[LimbBits - s]
              u == [i \in Limbs |-> a[i] \div M]
              r == [i \in Limbs |-> a[i] % M]
              F == [i \in Limbs |-> u[i] + IF i < 3 THEN r[i + 1] * N ELSE 0]
              R == ShiftRight(a, shift)
              P == Pow2[l * LimbBits]
  <2>1. /\ shift < Width /\ Width \in Nat /\ B \in Nat \ {0} /\ Space = B * (B * (B * B))
        /\ Space \in Nat \ {0}
    BY <1>2, LimbBaseIs
  <2>2. /\ l \in 0 .. 3 /\ M * N = B /\ Pow2[shift] = M * P
        /\ M \in Nat \ {0} /\ N \in Nat \ {0}
    BY <2>1, ShiftParts
  <2>3. \A i \in Limbs : /\ a[i] \in 0 .. B - 1 /\ u[i] \in 0 .. N - 1 /\ r[i] \in 0 .. M - 1
                         /\ a[i] = M * u[i] + r[i]
                         /\ (a[i] * N) % B = r[i] * N
    <3>. SUFFICES ASSUME NEW i \in Limbs
         PROVE  /\ a[i] \in 0 .. B - 1 /\ u[i] \in 0 .. N - 1 /\ r[i] \in 0 .. M - 1
                /\ a[i] = M * u[i] + r[i]
                /\ (a[i] * N) % B = r[i] * N
      OBVIOUS
    <3>. DEFINE x == a[i]
    <3>1. x \in 0 .. B - 1
      BY DEF UInts
    <3>2. u[i] = x \div M /\ r[i] = x % M
      OBVIOUS
    <3>. HIDE DEF x, u, r, M, N, l, s, P
    <3>3. /\ x = M * (x \div M) + (x % M)
          /\ (x * N) % B = (x % M) * N
          /\ x \div M \in 0 .. N - 1 /\ x % M \in 0 .. M - 1
      BY <2>2, <3>1, LimbDown
    <3>. QED BY <3>1, <3>2, <3>3 DEF x
  <2>4. R = [dst \in Limbs |-> IF dst + l > 3 THEN 0 ELSE F[dst + l]]
    <3>. HIDE DEF M, N, B, u, r
    <3>1. \A dst \in Limbs : dst < 3 => dst + 1 \in Limbs
      BY DEF Limbs
    <3>2. \A src \in Limbs : F[src] = (a[src] \div M) + IF src < 3 THEN (a[src + 1] * N) % B ELSE 0
      BY <2>3, <3>1 DEF u
    <3>3. \A dst \in Limbs : ~(dst + l > 3) => dst + l \in Limbs
      BY <2>2 DEF Limbs
    <3>4. R = [dst \in Limbs |->
                 IF dst + l > 3 THEN 0
                 ELSE (a[dst + l] \div M)
                        + IF dst + l < 3 THEN (a[(dst + l) + 1] * N) % B ELSE 0]
      BY <1>2 DEF ShiftRight, M, N, B
    <3>. HIDE DEF F, R, l
    <3>. QED BY <3>2, <3>3, <3>4
  <2>. HIDE DEF B, l, s, M, N, u, r, R, P
  <2>5. \A i \in Limbs : F[i] \in 0 .. B - 1
    <3>. SUFFICES ASSUME NEW i \in Limbs PROVE F[i] \in 0 .. B - 1
      OBVIOUS
    <3>1. CASE i < 3
      <4>. DEFINE v == r[i + 1]
                  w == u[i]
      <4>1. i + 1 \in Limbs
        BY <3>1 DEF Limbs
      <4>2. F[i] = w + v * N /\ v \in 0 .. M - 1 /\ w \in 0 .. N - 1
        BY <2>3, <3>1, <4>1
      <4>. HIDE DEF v, w, F
      <4>3. v * N >= 0 /\ (M - 1 - v) * N >= 0 /\ (M - 1 - v) * N = M * N - N - v * N
        BY <2>2, <4>2
      <4>. QED BY <2>1, <2>2, <4>2, <4>3
    <3>2. CASE ~(i < 3)
      <4>1. F[i] = u[i] /\ u[i] \in 0 .. N - 1
        BY <2>2, <2>3, <3>2
      <4>2. N <= B
        <5>1. (M - 1) * N >= 0 /\ (M - 1) * N = M * N - N
          BY <2>2
        <5>. QED BY <2>1, <2>2, <5>1
      <4>. HIDE DEF F
      <4>. QED BY <2>1, <2>2, <4>1, <4>2
    <3>. QED BY <3>1, <3>2
  <2>6. R \in UInts
    <3>1. \A dst \in Limbs : ~(dst + l > 3) => dst + l \in Limbs
      BY <2>2 DEF Limbs
    <3>2. 0 \in 0 .. B - 1
      BY <2>1
    <3>. HIDE DEF F
    <3>3. \A dst \in Limbs : R[dst] \in 0 .. B - 1
      BY <2>4, <2>5, <3>1, <3>2
    <3>. QED BY <2>4, <3>3 DEF UInts, B
  <2>7. /\ F[0] = u[0] + r[1] * N /\ F[1] = u[1] + r[2] * N
        /\ F[2] = u[2] + r[3] * N /\ F[3] = u[3]
    <3>1. u[3] \in Int
      BY <2>2, <2>3 DEF Limbs
    <3>. QED BY <3>1 DEF Limbs
  <2>. HIDE DEF F
  <2>. DEFINE a0 == a[0]  a1 == a[1]  a2 == a[2]  a3 == a[3]
              u0 == u[0]  u1 == u[1]  u2 == u[2]  u3 == u[3]
              r0 == r[0]  r1 == r[1]  r2 == r[2]  r3 == r[3]
              F0 == F[0]  F1 == F[1]  F2 == F[2]  F3 == F[3]
              V  == Value(a)
  <2>8. /\ a0 = M * u0 + r0 /\ a1 = M * u1 + r1 /\ a2 = M * u2 + r2 /\ a3 = M * u3 + r3
        /\ F0 = u0 + r1 * N /\ F1 = u1 + r2 * N /\ F2 = u2 + r3 * N /\ F3 = u3
        /\ u0 \in Int /\ u1 \in Int /\ u2 \in Int /\ u3 \in Int
        /\ r0 \in 0 .. M - 1 /\ r1 \in Int /\ r2 \in Int /\ r3 \in Int
        /\ V = a0 + B * (a1 + B * (a2 + B * a3))
    BY <2>1, <2>2, <2>3, <2>7 DEF Limbs, Value, B
  <2>9. /\ F0 \in 0 .. B - 1 /\ F1 \in 0 .. B - 1 /\ F2 \in 0 .. B - 1 /\ F3 \in 0 .. B - 1
        /\ V \in Int
    BY <2>5, ValueIn DEF Limbs
  <2>. HIDE DEF a0, a1, a2, a3, u0, u1, u2, u3, r0, r1, r2, r3, F0, F1, F2, F3, V
  <2>10. V = M * (F0 + B * (F1 + B * (F2 + B * F3))) + r0
    <3>1. /\ M * F0 = M * u0 + B * r1 /\ M * F1 = M * u1 + B * r2
          /\ M * F2 = M * u2 + B * r3 /\ M * F3 = M * u3
      <4>1. /\ M * (r1 * N) = (M * N) * r1 /\ M * (r2 * N) = (M * N) * r2
            /\ M * (r3 * N) = (M * N) * r3
        BY <2>2, <2>8
      <4>2. /\ M * F0 = M * u0 + M * (r1 * N) /\ M * F1 = M * u1 + M * (r2 * N)
            /\ M * F2 = M * u2 + M * (r3 * N)
        BY <2>2, <2>8
      <4>. QED BY <2>2, <2>8, <4>1, <4>2
    <3>2. M * (F0 + B * (F1 + B * (F2 + B * F3))) =
            M * F0 + B * (M * F1 + B * (M * F2 + B * (M * F3)))
      BY <2>1, <2>2, <2>9
    <3>3. M * F0 + B * (M * F1 + B * (M * F2 + B * (M * F3))) + r0 =
            M * u0 + B * r1 + B * (M * u1 + B * r2 + B * (M * u2 + B * r3 + B * (M * u3))) + r0
      BY <3>1
    <3>4. M * u0 + B * r1 + B * (M * u1 + B * r2 + B * (M * u2 + B * r3 + B * (M * u3))) + r0 =
            (M * u0 + r0) + B * ((M * u1 + r1) + B * ((M * u2 + r2) + B * (M * u3 + r3)))
      BY <2>1, <2>2, <2>8
    <3>. QED BY <2>8, <3>2, <3>3, <3>4
  <2>11. P \in Nat \ {0}
    <3>1. l * LimbBits \in Nat
      BY <2>2, LimbBitsAssumption
    <3>. QED BY <3>1, Pow2Positive DEF P
  <2>12. Value(R) \in Nat
    BY <2>6, ValueIn
  <2>13. \E low \in 0 .. P - 1 : V = M * (P * Value(R) + low) + r0
    <3>1. CASE l = 0
      <4>1. Value(R) = F0 + B * (F1 + B * (F2 + B * F3))
        BY <2>4, <3>1 DEF Value, Limbs, B, F0, F1, F2, F3
      <4>2. P = 1
        BY <3>1, LimbPowers DEF P
      <4>3. P * Value(R) + 0 = Value(R) /\ 0 \in 0 .. P - 1
        BY <2>12, <4>2
      <4>. QED BY <2>10, <4>1, <4>3
    <3>2. CASE l = 1
      <4>. DEFINE low == F0
      <4>1. Value(R) = F1 + B * (F2 + B * (F3 + B * 0))
        BY <2>4, <3>2 DEF Value, Limbs, B, F0, F1, F2, F3
      <4>2. P = B
        BY <3>2, LimbPowers DEF P, B
      <4>3. P * Value(R) + low = F0 + B * (F1 + B * (F2 + B * F3))
        BY <2>1, <2>9, <4>1, <4>2
      <4>. QED BY <2>9, <2>10, <4>2, <4>3
    <3>3. CASE l = 2
      <4>. DEFINE low == F0 + B * F1
      <4>1. Value(R) = F2 + B * (F3 + B * (0 + B * 0))
        BY <2>4, <3>3 DEF Value, Limbs, B, F0, F1, F2, F3
      <4>2. P = B * B
        BY <3>3, LimbPowers DEF P, B
      <4>3. P * Value(R) + low = F0 + B * (F1 + B * (F2 + B * F3))
        BY <2>1, <2>9, <4>1, <4>2
      <4>4. low \in 0 .. P - 1
        BY <2>1, <2>9, <4>2, DigitsIn
      <4>. HIDE DEF low
      <4>. QED BY <2>10, <4>3, <4>4
    <3>4. CASE l = 3
      <4>. DEFINE low == F0 + B * (F1 + B * F2)
      <4>1. Value(R) = F3 + B * (0 + B * (0 + B * 0))
        BY <2>4, <3>4 DEF Value, Limbs, B, F0, F1, F2, F3
      <4>2. P = B * (B * B)
        BY <3>4, LimbPowers DEF P, B
      <4>3. P * Value(R) + low = F0 + B * (F1 + B * (F2 + B * F3))
        BY <2>1, <2>9, <4>1, <4>2
      <4>4. low \in 0 .. P - 1
        <5>. DEFINE x == F1 + B * F2
                    m == B * B
        <5>1. x \in 0 .. m - 1
          BY <2>1, <2>9, DigitsIn
        <5>2. m \in Nat \ {0}
          BY <2>1
        <5>. HIDE DEF x, m
        <5>3. F0 + B * x \in 0 .. B * m - 1
          BY <2>1, <2>9, <5>1, <5>2, DigitsIn
        <5>. QED BY <4>2, <5>3 DEF x, m
      <4>. HIDE DEF low
      <4>. QED BY <2>10, <4>3, <4>4
    <3>. QED BY <2>2, <3>1, <3>2, <3>3, <3>4
  <2>14. V \div Pow2[shift] = Value(R)
    <3>1. PICK low \in 0 .. P - 1 : V = M * (P * Value(R) + low) + r0
      BY <2>13
    <3>. DEFINE X == Value(R)
                m == M * P
                y == M * low + r0
    <3>2. V = m * X + y
      BY <2>2, <2>8, <2>11, <2>12, <3>1
    <3>3. m \in Nat \ {0} /\ y \in 0 .. m - 1
      <4>1. r0 + M * low \in 0 .. M * P - 1
        BY <2>2, <2>8, <2>11, DigitsIn
      <4>2. M * low \in Int /\ r0 \in Int /\ r0 + M * low = M * low + r0
        BY <2>2, <2>8
      <4>3. M * P \in Nat \ {0}
        BY <2>2, <2>11
      <4>. QED BY <4>1, <4>2, <4>3
    <3>4. X \in Int
      BY <2>12
    <3>. HIDE DEF X, m, y
    <3>5. (m * X + y) \div m = X
      BY <3>3, <3>4, DivModIs
    <3>. QED BY <2>2, <3>2, <3>5 DEF X, m
  <2>. QED BY <1>2, <2>6, <2>14 DEF R, V
<1>. QED BY <1>1, <1>2

-----------------------------------------------------------------------------
(* A set of numbers with a bound has a greatest element, which Max returns. *)
LEMMA MaxOf ==
    ASSUME NEW T \in SUBSET Nat, T # {}, NEW n \in Nat, \A x \in T : x <= n
    PROVE  Max(T) \in T /\ \A x \in T : x <= Max(T)
<1>. DEFINE U == {n - x : x \in T}
<1>1. U \in SUBSET Nat /\ U # {}
  <2>1. \A x \in T : n - x \in Nat
    OBVIOUS
  <2>2. U # {}
    OBVIOUS
  <2>. QED BY <2>1, <2>2
<1>2. PICK u \in U : \A v \in U : u <= v
  <2>. HIDE DEF U
  <2>. QED BY <1>1, LeastOf
<1>3. PICK x \in T : u = n - x
  OBVIOUS
<1>4. \A y \in T : x >= y
  <2>. SUFFICES ASSUME NEW y \in T PROVE x >= y
    OBVIOUS
  <2>1. n - y \in U
    OBVIOUS
  <2>2. u <= n - y
    BY <1>2, <2>1
  <2>. QED BY <1>3, <2>2
<1>5. Max(T) \in T /\ \A y \in T : Max(T) >= y
  BY <1>4 DEF Max
<1>. QED BY <1>5

(* isZero() says whether the number is 0.                                   *)
LEMMA IsZeroIs == \A a \in UInts : IsZero(a) <=> Value(a) = 0
<1>. SUFFICES ASSUME NEW a \in UInts PROVE IsZero(a) <=> Value(a) = 0
  OBVIOUS
<1>1. Zero \in UInts /\ Value(Zero) = 0
  <2>1. Zero \in UInts /\ Zero = [i \in Limbs |-> 0]
    BY LimbBaseIs DEF Zero, FromLimb, UInts
  <2>. QED BY <2>1, LimbBaseIs DEF Value, Limbs
<1>2. IsZero(a) <=> a = Zero
  BY DEF IsZero, Zero, FromLimb, UInts
<1>. QED BY <1>1, <1>2, LessIs

(* The power of two just above a number has its length for exponent.        *)
LEMMA BitLengthIs ==
    ASSUME NEW a \in UInts, ~IsZero(a)
    PROVE  /\ BitLength(a) \in 1 .. Width
           /\ Pow2[BitLength(a) - 1] <= Value(a) /\ Value(a) < Pow2[BitLength(a)]
<1>. DEFINE B    == LimbBase
            Used == {i \in Limbs : a[i] # 0}
            t    == Max(Used)
            x    == a[t]
            Bits == {k \in 1 .. LimbBits : x >= Pow2[k - 1]}
            k    == Max(Bits)
            P    == Pow2[t * LimbBits]
<1>1. B \in Nat \ {0} /\ LimbBits \in Nat \ {0} /\ Width = 4 * LimbBits
      /\ B = Pow2[LimbBits]
  BY LimbBaseIs, LimbBitsAssumption DEF Width, LimbBase
<1>2. t \in Used /\ \A i \in Used : i <= t
  <2>1. Used \in SUBSET Nat /\ Used # {} /\ \A i \in Used : i <= 3
    BY DEF IsZero, Limbs
  <2>. HIDE DEF Used
  <2>. QED BY <2>1, MaxOf
<1>3. BitLength(a) = t * LimbBits + k
  BY DEF BitLength
<1>. HIDE DEF t
<1>4. t \in 0 .. 3 /\ x \in 1 .. B - 1 /\ \A i \in Limbs : i > t => a[i] = 0
  BY <1>2 DEF Limbs, UInts
<1>. HIDE DEF x, Used
<1>5. k \in Bits /\ \A j \in Bits : j <= k
  <2>1. 1 \in Bits
    <3>1. 1 - 1 = 0 /\ 1 \in 1 .. LimbBits
      BY <1>1
    <3>2. x >= Pow2[0]
      BY <1>4, Pow2Def
    <3>. QED BY <3>1, <3>2
  <2>2. Bits \in SUBSET Nat /\ \A j \in Bits : j <= LimbBits
    OBVIOUS
  <2>. HIDE DEF Bits
  <2>. QED BY <1>1, <2>1, <2>2, MaxOf
<1>. HIDE DEF k
<1>6. k \in 1 .. LimbBits /\ Pow2[k - 1] <= x /\ x < Pow2[k]
  <2>1. k \in 1 .. LimbBits /\ x >= Pow2[k - 1] /\ k - 1 \in Nat /\ k \in Nat
    BY <1>5
  <2>2. Pow2[k - 1] \in Nat /\ Pow2[k] \in Nat /\ x \in Nat
    BY <1>4, <2>1, Pow2Def
  <2>3. CASE k = LimbBits
    BY <1>1, <1>4, <2>1, <2>2, <2>3
  <2>4. CASE k # LimbBits
    <3>1. k + 1 \in 1 .. LimbBits /\ (k + 1) - 1 = k /\ ~(k + 1 <= k)
      BY <1>1, <2>1, <2>4
    <3>2. ~(x >= Pow2[k])
      BY <1>5, <3>1
    <3>. QED BY <2>1, <2>2, <3>2
  <2>. QED BY <2>3, <2>4
<1>. HIDE DEF Bits
<1>7. t * LimbBits \in Nat /\ P \in Nat \ {0}
  <2>1. t * LimbBits \in Nat
    BY <1>1, <1>4
  <2>. QED BY <2>1, Pow2Positive
<1>8. x * P <= Value(a) /\ Value(a) < (x + 1) * P
  <2>. DEFINE a0 == a[0]  a1 == a[1]  a2 == a[2]  a3 == a[3]
  <2>1. /\ a0 \in 0 .. B - 1 /\ a1 \in 0 .. B - 1 /\ a2 \in 0 .. B - 1 /\ a3 \in 0 .. B - 1
        /\ Value(a) = a0 + B * (a1 + B * (a2 + B * a3))
    BY DEF UInts, Limbs, Value
  <2>2. (t < 3 => a3 = 0) /\ (t < 2 => a2 = 0) /\ (t < 1 => a1 = 0)
    BY <1>4 DEF Limbs
  <2>. HIDE DEF a0, a1, a2, a3, B
  <2>3. CASE t = 0
    <3>1. x = a0 /\ P = 1
      BY <2>3, LimbPowers DEF x, a0
    <3>2. Value(a) = a0
      BY <1>1, <2>1, <2>2, <2>3
    <3>. QED BY <1>4, <3>1, <3>2
  <2>4. CASE t = 1
    <3>1. x = a1 /\ P = B
      BY <2>4, LimbPowers DEF x, a1, B
    <3>2. Value(a) = a0 + a1 * B /\ (a1 + 1) * B = a1 * B + B
      BY <1>1, <2>1, <2>2, <2>4
    <3>. HIDE DEF P
    <3>3. a1 * B \in Int /\ a0 \in Int /\ B \in Int /\ a0 >= 0 /\ a0 < B
      BY <1>1, <2>1
    <3>. QED BY <3>1, <3>2, <3>3
  <2>5. CASE t = 2
    <3>1. x = a2 /\ P = B * B
      BY <2>5, LimbPowers DEF x, a2, B
    <3>. DEFINE m == B * B
                low == a0 + B * a1
    <3>2. low \in 0 .. m - 1 /\ m \in Nat
      BY <1>1, <2>1, DigitsIn
    <3>3. Value(a) = low + a2 * m /\ (a2 + 1) * m = a2 * m + m
      BY <1>1, <2>1, <2>2, <2>5
    <3>. HIDE DEF P, m, low
    <3>4. a2 * m \in Int
      BY <2>1, <3>2
    <3>. QED BY <3>1, <3>2, <3>3, <3>4 DEF m
  <2>6. CASE t = 3
    <3>1. x = a3 /\ P = B * (B * B)
      BY <2>6, LimbPowers DEF x, a3, B
    <3>. DEFINE n == B * B
                m == B * n
                mid == a1 + B * a2
                low == a0 + B * mid
    <3>2. mid \in 0 .. n - 1 /\ n \in Nat \ {0}
      BY <1>1, <2>1, DigitsIn
    <3>3. low \in 0 .. m - 1 /\ m \in Nat
      <4>. HIDE DEF mid, n
      <4>. QED BY <1>1, <2>1, <3>2, DigitsIn
    <3>4. Value(a) = low + a3 * m /\ (a3 + 1) * m = a3 * m + m
      BY <1>1, <2>1, <2>2, <2>6
    <3>. HIDE DEF P, m, low
    <3>5. a3 * m \in Int
      BY <2>1, <3>3
    <3>. QED BY <3>1, <3>3, <3>4, <3>5 DEF m
  <2>. QED BY <1>4, <2>3, <2>4, <2>5, <2>6
<1>. DEFINE L == t * LimbBits + k
<1>9. L \in 1 .. Width
  <2>1. (3 - t) * LimbBits >= 0 /\ (3 - t) * LimbBits = 3 * LimbBits - t * LimbBits
    BY <1>1, <1>4
  <2>. QED BY <1>1, <1>6, <1>7, <2>1
<1>10. Pow2[L - 1] = Pow2[k - 1] * P /\ Pow2[L] = Pow2[k] * P
  <2>1. k - 1 \in Nat /\ k \in Nat /\ L - 1 = (k - 1) + t * LimbBits /\ L = k + t * LimbBits
    BY <1>6, <1>7
  <2>. QED BY <1>7, <2>1, Pow2Sum
<1>11. Pow2[k - 1] * P <= x * P /\ (x + 1) * P <= Pow2[k] * P
  <2>. DEFINE y == Pow2[k - 1]
              z == Pow2[k]
  <2>1. y \in Nat /\ z \in Nat /\ y <= x /\ x + 1 <= z /\ x \in Nat
    BY <1>4, <1>6, Pow2Def
  <2>. HIDE DEF y, z, P
  <2>2. (x - y) * P >= 0 /\ (z - (x + 1)) * P >= 0
    BY <1>7, <2>1
  <2>3. (x - y) * P = x * P - y * P /\ (z - (x + 1)) * P = z * P - (x + 1) * P
    BY <1>7, <2>1
  <2>. QED BY <1>7, <2>1, <2>2, <2>3 DEF y, z
<1>12. Value(a) \in Int /\ Pow2[k - 1] * P \in Int /\ Pow2[k] * P \in Int
       /\ x * P \in Int /\ (x + 1) * P \in Int
  <2>1. Pow2[k - 1] \in Nat /\ Pow2[k] \in Nat
    BY <1>6, Pow2Def
  <2>. QED BY <1>4, <1>7, <2>1, ValueIn
<1>. HIDE DEF P, L
<1>. QED BY <1>3, <1>8, <1>9, <1>10, <1>11, <1>12 DEF L

(* Shifts and the length in bits are those of the integers.                 *)
LEMMA ShiftsExact == \A a \in UInts, shift \in Nat : ShiftsAreExact(a, shift)
<1>. SUFFICES ASSUME NEW a \in UInts, NEW shift \in Nat PROVE ShiftsAreExact(a, shift)
  OBVIOUS
<1>. DEFINE L == BitLength(a)
<1>0. Width \in Nat /\ Value(a) \in 0 .. Space - 1 /\ Space \in Nat
  BY LimbBaseIs, ValueIn
<1>1. L <= shift <=> (shift >= Width \/ Value(a) < Pow2[shift])
  <2>1. CASE IsZero(a)
    <3>1. L = 0 /\ Value(a) = 0
      BY <2>1, IsZeroIs DEF BitLength
    <3>2. Pow2[shift] \in Nat \ {0}
      BY Pow2Positive
    <3>. QED BY <3>1, <3>2
  <2>2. CASE ~IsZero(a)
    <3>1. L \in 1 .. Width /\ Pow2[L - 1] <= Value(a) /\ Value(a) < Pow2[L]
      BY <2>2, BitLengthIs
    <3>. HIDE DEF L
    <3>2. L \in Nat /\ L - 1 \in Nat
      BY <1>0, <3>1
    <3>3. Pow2[L] \in Nat /\ Pow2[L - 1] \in Nat /\ Pow2[shift] \in Nat
      BY <3>2, Pow2Def
    <3>4. CASE L <= shift
      <4>1. Pow2[L] <= Pow2[shift]
        BY <3>2, <3>3, <3>4, Pow2Grows
      <4>. QED BY <1>0, <3>1, <3>3, <3>4, <4>1
    <3>5. CASE ~(L <= shift)
      <4>1. L - 1 = shift \/ shift < L - 1
        BY <3>2, <3>5
      <4>2. Pow2[shift] <= Pow2[L - 1]
        BY <3>2, <3>3, <4>1, Pow2Grows
      <4>. QED BY <1>0, <3>1, <3>3, <3>5, <4>2
    <3>. QED BY <3>4, <3>5
  <2>. QED BY <2>1, <2>2
<1>. QED BY <1>1, ShiftLeftExact, ShiftRightExact DEF ShiftsAreExact

-----------------------------------------------------------------------------
(* Long division.                                                           *)

(* A bit of a number is what its limb has in that place.                    *)
LEMMA BitOfIs ==
    ASSUME NEW a \in UInts, NEW bit \in 0 .. Width - 1
    PROVE  BitOf(a, bit) = (Value(a) \div Pow2[bit]) % 2
<1>. DEFINE B == LimbBase
            l == bit \div LimbBits
            s == bit % LimbBits
            M == Pow2[s]
            N == Pow2[LimbBits - s]
            K == Pow2[LimbBits - s - 1]
            P == Pow2[l * LimbBits]
            R == ShiftRight(a, bit)
            u == a[l] \div M
<1>1. /\ l \in 0 .. 3 /\ s \in 0 .. LimbBits - 1 /\ M * N = B
      /\ M \in Nat \ {0} /\ N \in Nat \ {0} /\ B \in Nat \ {0} /\ ~(bit >= Width) /\ bit \in Nat
  <2>1. bit \in Nat /\ bit < Width /\ ~(bit >= Width) /\ B \in Nat \ {0}
    BY LimbBaseIs
  <2>2. /\ l \in 0 .. 3 /\ s \in 0 .. LimbBits - 1 /\ M * N = B /\ Pow2[bit] = M * P
        /\ M \in Nat \ {0} /\ N \in Nat \ {0}
    BY <2>1, ShiftParts
  <2>. QED BY <2>1, <2>2
<1>2. N = 2 * K /\ K \in Nat
  <2>1. LimbBits - s - 1 \in Nat /\ (LimbBits - s - 1) + 1 = LimbBits - s
    BY <1>1, LimbBitsAssumption
  <2>. QED BY <2>1, Pow2Def
<1>3. \E e \in Int : R[0] = u + 2 * e
  <2>1. R[0] = u + IF l < 3 THEN (a[l + 1] * N) % B ELSE 0
    <3>1. R = [dst \in Limbs |->
                 IF dst + l > 3 THEN 0
                 ELSE (a[dst + l] \div M)
                        + IF dst + l < 3 THEN (a[(dst + l) + 1] * N) % B ELSE 0]
      BY <1>1 DEF ShiftRight
    <3>2. 0 + l = l /\ ~(l > 3) /\ 0 \in Limbs
      BY <1>1 DEF Limbs
    <3>. HIDE DEF R, u, l, s, M, N, B
    <3>. QED BY <3>1, <3>2 DEF u
  <2>2. a[l] \in 0 .. B - 1
    BY <1>1 DEF UInts, Limbs
  <2>3. u \in Int
    <3>1. a[l] \in Int
      BY <2>2
    <3>. DEFINE x == a[l]
    <3>. HIDE DEF x, M
    <3>. QED BY <1>1, <3>1, DivMod DEF x
  <2>4. CASE l < 3
    <3>. DEFINE x == a[l + 1]
    <3>1. x \in 0 .. B - 1
      BY <1>1, <2>4 DEF UInts, Limbs
    <3>2. (x * N) % B = (x % M) * N /\ x % M \in 0 .. M - 1
      <4>. HIDE DEF x, M, N
      <4>. QED BY <1>1, <3>1, LimbDown
    <3>. DEFINE y == x % M
    <3>. HIDE DEF x, y, M, N, B, K, u, R, l
    <3>3. R[0] = u + y * N /\ y \in Int
      BY <2>1, <2>4, <3>2, <1>1 DEF x, y
    <3>4. y * N = 2 * (y * K) /\ y * K \in Int
      BY <1>2, <3>3
    <3>. QED BY <3>3, <3>4
  <2>5. CASE ~(l < 3)
    <3>. HIDE DEF R, u, l
    <3>1. R[0] = u + 2 * 0
      BY <2>1, <2>3, <2>5
    <3>2. 0 \in Int
      OBVIOUS
    <3>. QED BY <3>1, <3>2
  <2>. QED BY <2>4, <2>5
<1>4. u \in Int
  <2>1. a[l] \in Int
    BY <1>1 DEF UInts, Limbs
  <2>. DEFINE x == a[l]
  <2>. HIDE DEF x, M
  <2>. QED BY <1>1, <2>1, DivMod DEF x
<1>5. Value(a) \div Pow2[bit] = Value(R)
  BY <1>1, ShiftRightExact
<1>6. BitOf(a, bit) = u % 2
  BY DEF BitOf
<1>7. R \in UInts
  BY <1>1, ShiftRightExact
<1>. HIDE DEF R, u, l, s, M, N, K
<1>8. \E y \in Int : Value(R) = 2 * y + R[0]
  <2>. DEFINE H == Pow2[LimbBits - 1]
              R0 == R[0]  R1 == R[1]  R2 == R[2]  R3 == R[3]
              z == R1 + B * (R2 + B * R3)
  <2>1. B = 2 * H /\ H \in Nat
    <3>1. LimbBits - 1 \in Nat /\ (LimbBits - 1) + 1 = LimbBits
      BY LimbBitsAssumption
    <3>. QED BY <3>1, Pow2Def DEF LimbBase
  <2>2. R0 \in Int /\ R1 \in Int /\ R2 \in Int /\ R3 \in Int /\ Value(R) = R0 + B * z
    BY <1>7 DEF Value, UInts, Limbs
  <2>. HIDE DEF R0, R1, R2, R3, H, B
  <2>3. z \in Int
    BY <1>1, <2>2
  <2>. HIDE DEF z
  <2>4. Value(R) = 2 * (H * z) + R0 /\ H * z \in Int
    BY <2>1, <2>2, <2>3
  <2>. QED BY <2>4 DEF R0
<1>9. PICK e \in Int, y \in Int : Value(R) = 2 * y + (u + 2 * e)
  BY <1>3, <1>8
<1>10. Value(R) % 2 = u % 2
  <2>. DEFINE v == Value(R)
  <2>1. v = 2 * (y + e) + u
    BY <1>4, <1>9
  <2>. HIDE DEF v
  <2>2. v % 2 = u % 2
    BY <1>4, <2>1
  <2>. QED BY <2>2 DEF v
<1>. QED BY <1>5, <1>6, <1>10

(* A clear bit is set: nothing else changes.                                *)
LEMMA SetBit ==
    ASSUME NEW a \in UInts, NEW bit \in 0 .. Width - 1,
           (Value(a) \div Pow2[bit]) % 2 = 0
    PROVE  LET set == [a EXCEPT ![bit \div LimbBits] = @ + Pow2[bit % LimbBits]]
           IN  set \in UInts /\ Value(set) = Value(a) + Pow2[bit]
<1>. DEFINE B == LimbBase
            l == bit \div LimbBits
            s == bit % LimbBits
            M == Pow2[s]
            N == Pow2[LimbBits - s]
            K == Pow2[LimbBits - s - 1]
            P == Pow2[l * LimbBits]
            x == a[l]
            q == x \div M
            r == x % M
            t == [a EXCEPT ![l] = @ + M]
<1>1. /\ l \in 0 .. 3 /\ s \in 0 .. LimbBits - 1 /\ M * N = B
      /\ M \in Nat \ {0} /\ N \in Nat \ {0} /\ B \in Nat \ {0} /\ Pow2[bit] = M * P
  <2>1. bit \in Nat /\ bit < Width /\ ~(bit >= Width) /\ B \in Nat \ {0}
    BY LimbBaseIs
  <2>2. /\ l \in 0 .. 3 /\ s \in 0 .. LimbBits - 1 /\ M * N = B /\ Pow2[bit] = M * P
        /\ M \in Nat \ {0} /\ N \in Nat \ {0}
    BY <2>1, ShiftParts
  <2>. QED BY <2>1, <2>2
<1>2. N = 2 * K /\ K \in Nat
  <2>1. LimbBits - s - 1 \in Nat /\ (LimbBits - s - 1) + 1 = LimbBits - s
    BY <1>1, LimbBitsAssumption
  <2>. QED BY <2>1, Pow2Def
<1>3. q % 2 = 0
  BY BitOfIs DEF BitOf
<1>4. x \in 0 .. B - 1
  BY <1>1 DEF UInts, Limbs
<1>5. x = M * q + r /\ q \in 0 .. N - 1 /\ r \in 0 .. M - 1
  <2>. HIDE DEF x, M, N
  <2>. QED BY <1>1, <1>4, LimbDown
<1>. HIDE DEF l, s, M, N, K, P, x, q, r
<1>6. x + M \in 0 .. B - 1
  <2>1. q <= N - 2
    BY <1>2, <1>3, <1>5
  <2>2. M * (N - 2 - q) >= 0 /\ M * (N - 2 - q) = M * N - 2 * M - M * q
    BY <1>1, <1>5, <2>1
  <2>. QED BY <1>1, <1>4, <1>5, <2>2
<1>7. t \in UInts
  BY <1>6 DEF UInts, x
<1>8. Value(t) = Value(a) + M * P
  <2>. DEFINE a0 == a[0]  a1 == a[1]  a2 == a[2]  a3 == a[3]
  <2>1. /\ a0 \in Int /\ a1 \in Int /\ a2 \in Int /\ a3 \in Int
        /\ Value(a) = a0 + B * (a1 + B * (a2 + B * a3))
    BY DEF UInts, Limbs, Value
  <2>2. CASE l = 0
    <3>1. Value(t) = (a0 + M) + B * (a1 + B * (a2 + B * a3)) /\ P = 1
      BY <2>2, LimbPowers DEF Value, UInts, Limbs, P
    <3>. HIDE DEF a0, a1, a2, a3, B, t
    <3>. QED BY <1>1, <2>1, <3>1
  <2>3. CASE l = 1
    <3>1. Value(t) = a0 + B * ((a1 + M) + B * (a2 + B * a3)) /\ P = B
      BY <2>3, LimbPowers DEF Value, UInts, Limbs, P
    <3>. HIDE DEF a0, a1, a2, a3, B, t
    <3>. QED BY <1>1, <2>1, <3>1
  <2>4. CASE l = 2
    <3>1. Value(t) = a0 + B * (a1 + B * ((a2 + M) + B * a3)) /\ P = B * B
      BY <2>4, LimbPowers DEF Value, UInts, Limbs, P
    <3>. HIDE DEF a0, a1, a2, a3, B, t
    <3>. QED BY <1>1, <2>1, <3>1
  <2>5. CASE l = 3
    <3>1. Value(t) = a0 + B * (a1 + B * (a2 + B * (a3 + M))) /\ P = B * (B * B)
      BY <2>5, LimbPowers DEF Value, UInts, Limbs, P
    <3>. HIDE DEF a0, a1, a2, a3, B, t
    <3>. QED BY <1>1, <2>1, <3>1
  <2>. QED BY <1>1, <2>2, <2>3, <2>4, <2>5
<1>. QED BY <1>1, <1>7, <1>8 DEF t, l, s, M

(* A doubled number takes in a bit at the bottom.                           *)
LEMMA TakeBit ==
    ASSUME NEW a \in UInts, NEW v \in Int, Value(a) = 2 * v, NEW b \in 0 .. 1
    PROVE  LET with == [a EXCEPT ![0] = @ + b]
           IN  with \in UInts /\ Value(with) = 2 * v + b
<1>. DEFINE H == Pow2[LimbBits - 1]
            B == LimbBase
            a0 == a[0]  a1 == a[1]  a2 == a[2]  a3 == a[3]
            z == a1 + B * (a2 + B * a3)
            t == [a EXCEPT ![0] = @ + b]
<1>1. B = 2 * H /\ H \in Nat \ {0} /\ B \in Nat
  <2>1. LimbBits - 1 \in Nat /\ (LimbBits - 1) + 1 = LimbBits
    BY LimbBitsAssumption
  <2>. QED BY <2>1, Pow2Def, Pow2Positive DEF LimbBase
<1>2. /\ a0 \in 0 .. B - 1 /\ a1 \in Int /\ a2 \in Int /\ a3 \in Int
      /\ Value(a) = a0 + B * z
  BY DEF UInts, Limbs, Value
<1>3. t[0] = a0 + b /\ t[1] = a1 /\ t[2] = a2 /\ t[3] = a3
  BY DEF UInts, Limbs
<1>4. a0 + b \in 0 .. B - 1
  <2>. HIDE DEF a0, a1, a2, a3, H, B
  <2>1. z \in Int
    BY <1>1, <1>2
  <2>. HIDE DEF z
  <2>2. a0 = 2 * (v - H * z) /\ H * z \in Int
    <3>1. B * z = 2 * (H * z) /\ H * z \in Int
      BY <1>1, <2>1
    <3>2. a0 = 2 * v - 2 * (H * z)
      BY <1>2, <3>1
    <3>. QED BY <3>1, <3>2
  <2>. DEFINE w == v - H * z
  <2>3. w \in Int /\ a0 = 2 * w
    BY <2>2
  <2>. HIDE DEF w
  <2>. QED BY <1>1, <1>2, <2>3
<1>5. t \in UInts
  BY <1>4 DEF UInts
<1>6. Value(t) = (a0 + b) + B * z
  BY <1>3 DEF Value
<1>7. z \in Int
  <2>. HIDE DEF a1, a2, a3, B
  <2>. QED BY <1>1, <1>2
<1>. HIDE DEF z, a0, t, B
<1>8. B * z \in Int
  BY <1>1, <1>7
<1>. QED BY <1>2, <1>5, <1>6, <1>8 DEF t

(* The steps as they follow each other.                                     *)
LEMMA DivideStepsIs ==
    ASSUME NEW a, NEW b
    PROVE  \E f : /\ f[0] = [quotient |-> Zero, rem |-> Zero]
                  /\ \A n \in 1 .. Width : f[n] = DivideStep(a, b, n, f[n - 1])
                  /\ DivideSteps(a, b) = f[Width]
<1>. DEFINE s0 == [quotient |-> Zero, rem |-> Zero]
            Good(k, f) == f = [n \in 0 .. k |-> IF n = 0 THEN s0 ELSE DivideStep(a, b, n, f[n - 1])]
            Has == {k \in Nat : \E f : Good(k, f)}
<1>. HIDE DEF s0
<1>1. 0 \in Has
  <2>1. Good(0, [n \in 0 .. 0 |-> s0])
    OBVIOUS
  <2>. QED BY <2>1
<1>2. ASSUME NEW k \in Has PROVE k + 1 \in Has
  <2>1. PICK f : Good(k, f)
    OBVIOUS
  <2>. DEFINE g == [n \in 0 .. k + 1 |-> IF n = k + 1 THEN DivideStep(a, b, k + 1, f[k]) ELSE f[n]]
  <2>2. ASSUME NEW n \in 0 .. k + 1
        PROVE  g[n] = IF n = 0 THEN s0 ELSE DivideStep(a, b, n, g[n - 1])
    <3>1. CASE n = 0
      <4>1. g[0] = f[0] /\ f[0] = s0
        BY <2>1
      <4>. QED BY <3>1, <4>1
    <3>2. CASE n \in 1 .. k
      <4>1. /\ n - 1 \in 0 .. k /\ n - 1 # k + 1 /\ n # k + 1 /\ n - 1 \in 0 .. k + 1
              /\ n \in 0 .. k /\ n # 0
        BY <3>2
      <4>2. g[n] = f[n] /\ g[n - 1] = f[n - 1]
        BY <4>1
      <4>3. f[n] = DivideStep(a, b, n, f[n - 1])
        BY <2>1, <4>1
      <4>. QED BY <4>1, <4>2, <4>3
    <3>3. CASE n = k + 1
      <4>1. (k + 1) - 1 = k /\ k \in 0 .. k + 1 /\ k # k + 1 /\ k + 1 # 0 /\ k + 1 \in 0 .. k + 1
        OBVIOUS
      <4>2. g[k + 1] = DivideStep(a, b, k + 1, f[k]) /\ g[k] = f[k]
        BY <4>1
      <4>. HIDE DEF g
      <4>. QED BY <3>3, <4>1, <4>2
    <3>. QED BY <3>1, <3>2, <3>3
  <2>3. Good(k + 1, g)
    <3>1. g = [n \in 0 .. k + 1 |-> g[n]]
      OBVIOUS
    <3>. HIDE DEF g
    <3>. QED BY <2>2, <3>1
  <2>. HIDE DEF Good, g
  <2>. QED BY <2>3
<1>3. Has = Nat
  <2>1. Has \in SUBSET Nat
    OBVIOUS
  <2>. HIDE DEF Has
  <2>. QED BY <1>1, <1>2, <2>1, Induction
<1>4. \E f : Good(Width, f)
  BY <1>3, LimbBaseIs
<1>5. \E f : Good(Width, f) /\ DivideSteps(a, b) = f[Width]
  BY <1>4 DEF DivideSteps, DivideStep, s0
<1>6. PICK f : Good(Width, f) /\ DivideSteps(a, b) = f[Width]
  BY <1>5
<1>7. f[0] = s0 /\ \A n \in 1 .. Width : f[n] = DivideStep(a, b, n, f[n - 1])
  BY <1>6, LimbBaseIs
<1>. QED BY <1>6, <1>7 DEF s0

(* After n steps: the quotient and the remainder of the highest n bits.     *)
Divided(a, b, n, state) ==
    /\ state = [quotient |-> state.quotient, rem |-> state.rem]
    /\ state.quotient \in UInts /\ state.rem \in UInts
    /\ Value(state.rem) < Value(b)
    /\ \E q \in Nat : /\ Value(state.quotient) = q * Pow2[Width - n]
                      /\ Value(a) \div Pow2[Width - n] = q * Value(b) + Value(state.rem)

(* One step of the loop of divide() keeps what the loop maintains.          *)
LEMMA DividedStep ==
    ASSUME NEW a \in UInts, NEW b \in UInts, Value(b) > 0, NEW n \in 1 .. Width, NEW last,
           Divided(a, b, n - 1, last)
    PROVE  Divided(a, b, n, DivideStep(a, b, n, last))
<1>. DEFINE bit == Width - n
            P   == Pow2[bit]
            V   == Value(a)
            D   == Value(b)
            R   == Value(last.rem)
            Q   == Value(last.quotient)
            H   == V \div P
            c   == BitOf(a, bit)
            sh  == ShiftLeft(last.rem, 1)
            rem == [sh EXCEPT ![0] = @ + c]
            set == [last.quotient EXCEPT ![bit \div LimbBits] = @ + Pow2[bit % LimbBits]]
<1>1. /\ bit \in 0 .. Width - 1 /\ bit \in Nat /\ Width \in Nat /\ Width - (n - 1) = bit + 1
      /\ P \in Nat \ {0} /\ Pow2[bit + 1] = 2 * P /\ n - 1 \in Nat /\ Width - 1 \in Nat
  <2>1. Width \in Nat /\ bit \in 0 .. Width - 1 /\ bit \in Nat /\ Width - (n - 1) = bit + 1
        /\ n - 1 \in Nat /\ Width - 1 \in Nat
    BY LimbBaseIs
  <2>. QED BY <2>1, Pow2Def, Pow2Positive
<1>2. V \in 0 .. Space - 1 /\ D \in 1 .. Space - 1 /\ Space = Pow2[Width] /\ Space \in Nat
  BY ValueIn, LimbBaseIs DEF Space
<1>3. /\ last.quotient \in UInts /\ last.rem \in UInts /\ R < D
      /\ last = [quotient |-> last.quotient, rem |-> last.rem]
  BY DEF Divided
<1>4. PICK q \in Nat : Q = q * (2 * P) /\ V \div (2 * P) = q * D + R
  BY <1>1 DEF Divided
<1>5. R \in Nat /\ Q \in Nat
  BY <1>3, ValueIn
<1>6. c = H % 2 /\ c \in 0 .. 1 /\ H \in Int
  <2>1. H \in Int
    <3>. HIDE DEF V, P
    <3>. QED BY <1>1, <1>2, DivMod
  <2>. HIDE DEF H
  <2>2. H % 2 \in 0 .. 1
    BY <2>1
  <2>3. c = H % 2
    BY <1>1, BitOfIs DEF H
  <2>. QED BY <2>1, <2>2, <2>3
<1>7. H = 2 * (q * D + R) + c
  <2>1. H \div 2 = V \div (P * 2)
    <3>1. 2 \in Nat \ {0} /\ V \in Int
      BY <1>2
    <3>. HIDE DEF V, P
    <3>. QED BY <1>1, <3>1, DivDiv
  <2>2. P * 2 = 2 * P
    BY <1>1
  <2>. HIDE DEF H, c
  <2>3. H = 2 * (H \div 2) + (H % 2)
    BY <1>6
  <2>. QED BY <1>4, <1>6, <2>1, <2>2, <2>3
<1>8. R < Pow2[Width - 1]
  <2>1. Pow2[Width] = 2 * Pow2[Width - 1] /\ Pow2[Width - 1] \in Nat
    <3>1. (Width - 1) + 1 = Width
      BY <1>1
    <3>. QED BY <1>1, <3>1, Pow2Def
  <2>2. R <= V \div (2 * P)
    <3>1. q * D >= 0
      BY <1>2, <1>4
    <3>. HIDE DEF D, R, V, P
    <3>. QED BY <1>2, <1>4, <1>5, <3>1
  <2>3. 2 * P * (V \div (2 * P)) <= V
    <3>. DEFINE m == 2 * P
    <3>1. m \in Nat \ {0}
      BY <1>1
    <3>. HIDE DEF m, V
    <3>2. m * (V \div m) <= V
      BY <1>2, <3>1, DivMod
    <3>. QED BY <3>2 DEF m
  <2>. DEFINE h == V \div (2 * P)
  <2>4. h \in Nat
    <3>1. q * D \in Nat
      BY <1>2, <1>4
    <3>. QED BY <1>4, <1>5, <3>1
  <2>. HIDE DEF h, V, P, R
  <2>5. 2 * h <= 2 * P * h
    <3>1. (P - 1) * (2 * h) >= 0 /\ (P - 1) * (2 * h) = 2 * P * h - 2 * h
      BY <1>1, <2>4
    <3>. QED BY <1>1, <2>4, <3>1
  <2>6. 2 * P * h \in Int
    BY <1>1, <2>4
  <2>. QED BY <1>2, <1>5, <2>1, <2>2, <2>3, <2>4, <2>5, <2>6 DEF h
<1>9. sh \in UInts /\ Value(sh) = 2 * R
  <2>1. 1 \in Nat /\ ~(1 >= Width) /\ Pow2[1] = 2
    <3>1. Width >= 4
      BY LimbBaseIs DEF Width
    <3>2. Pow2[0 + 1] = 2 * Pow2[0] /\ Pow2[0] = 1 /\ 0 + 1 = 1
      <4>1. 0 \in Nat
        OBVIOUS
      <4>. QED BY <4>1, Pow2Def
    <3>3. Pow2[1] = 2
      BY <3>2
    <3>. QED BY <1>1, <3>1, <3>3
  <2>2. sh \in UInts /\ Value(sh) = (R % Pow2[Width - 1]) * Pow2[1]
    BY <1>3, <2>1, ShiftLeftExact
  <2>3. (R % Pow2[Width - 1]) = R
    <3>. DEFINE m == Pow2[Width - 1]
    <3>1. m \in Nat \ {0} /\ R \in 0 .. m - 1 /\ R \in Int
      BY <1>1, <1>5, <1>8, Pow2Positive
    <3>. HIDE DEF m, R
    <3>2. (R % m) = R
      BY <3>1, ModNear
    <3>. QED BY <3>2 DEF m
  <2>. QED BY <1>5, <2>1, <2>2, <2>3
<1>10. rem \in UInts /\ Value(rem) = 2 * R + c
  <2>1. R \in Int /\ c \in 0 .. 1
    BY <1>5, <1>6
  <2>. HIDE DEF sh, c, R
  <2>. QED BY <1>9, <2>1, TakeBit
<1>11. CASE AtMost(b, rem)
  <2>. DEFINE next == [rem |-> Subtract(rem, b), quotient |-> set]
  <2>1. DivideStep(a, b, n, last) = next
    BY <1>11 DEF DivideStep
  <2>2. D <= Value(rem)
    <3>. HIDE DEF rem
    <3>. QED BY <1>10, <1>11, LessIs
  <2>3. Subtract(rem, b) \in UInts /\ Value(Subtract(rem, b)) = Value(rem) - D
    <3>. HIDE DEF rem
    <3>. DEFINE d == Value(rem) - D
    <3>1. Value(rem) \in 0 .. Space - 1
      BY <1>10, ValueIn
    <3>2. d \in 0 .. Space - 1 /\ d \in Int /\ Space \in Nat \ {0}
      BY <1>2, <2>2, <3>1, LimbBaseIs
    <3>3. Subtract(rem, b) \in UInts /\ Value(Subtract(rem, b)) = d % Space
      BY <1>10, SubtractExact
    <3>. HIDE DEF d
    <3>4. (d % Space) = d
      BY <3>2, ModNear
    <3>. QED BY <3>3, <3>4 DEF d
  <2>4. set \in UInts /\ Value(set) = Q + P
    <3>1. (Q \div P) % 2 = 0
      <4>. DEFINE k == 2 * q
      <4>1. Q = P * k + 0 /\ k \in Int /\ 0 \in 0 .. P - 1
        BY <1>1, <1>4
      <4>. HIDE DEF k, Q, P
      <4>2. Q \div P = k
        BY <1>1, <4>1, DivModIs
      <4>3. k % 2 = 0
        BY <1>4 DEF k
      <4>. QED BY <4>2, <4>3
    <3>. QED BY <1>1, <1>3, <3>1, SetBit
  <2>5. Value(set) = (2 * q + 1) * P /\ 2 * q + 1 \in Nat
    BY <1>1, <1>4, <2>4
  <2>6. H = (2 * q + 1) * D + (Value(rem) - D)
    <3>. HIDE DEF H, D, R, rem, c
    <3>. QED BY <1>2, <1>4, <1>5, <1>6, <1>7, <1>10
  <2>7. Value(rem) - D < D
    <3>. HIDE DEF rem, D, R, c
    <3>. QED BY <1>2, <1>3, <1>5, <1>6, <1>10
  <2>. HIDE DEF rem, set
  <2>8. next.rem = Subtract(rem, b) /\ next.quotient = set
        /\ next = [quotient |-> next.quotient, rem |-> next.rem]
    OBVIOUS
  <2>. HIDE DEF next
  <2>9. Divided(a, b, n, next)
    BY <2>3, <2>4, <2>5, <2>6, <2>7, <2>8 DEF Divided
  <2>. QED BY <2>1, <2>9
<1>12. CASE ~AtMost(b, rem)
  <2>. DEFINE next == [last EXCEPT !.rem = rem]
  <2>1. DivideStep(a, b, n, last) = next
    BY <1>12 DEF DivideStep
  <2>2. Value(rem) < D
    <3>. HIDE DEF rem
    <3>1. Value(rem) \in Int
      BY <1>10, ValueIn
    <3>. QED BY <1>2, <1>10, <1>12, <3>1, LessIs
  <2>3. Q = (2 * q) * P /\ 2 * q \in Nat /\ H = (2 * q) * D + Value(rem)
    <3>. HIDE DEF H, D, R, rem, c, Q, P
    <3>. QED BY <1>1, <1>2, <1>4, <1>5, <1>6, <1>7, <1>10
  <2>. HIDE DEF rem
  <2>4. next.rem = rem /\ next.quotient = last.quotient
        /\ next = [quotient |-> next.quotient, rem |-> next.rem]
    BY <1>3
  <2>. HIDE DEF next
  <2>5. Divided(a, b, n, next)
    BY <1>3, <1>10, <2>2, <2>3, <2>4 DEF Divided
  <2>. QED BY <2>1, <2>5
<1>. QED BY <1>11, <1>12

(* The long division of divide() is the division of the integers.           *)
LEMMA DivideExact ==
    ASSUME NEW a \in UInts, NEW b \in UInts, ~IsZero(b)
    PROVE  /\ Divide(a, b) \in UInts /\ Value(Divide(a, b)) = Value(a) \div Value(b)
           /\ Remainder(a, b) \in UInts /\ Value(Remainder(a, b)) = Value(a) % Value(b)
<1>. DEFINE V == Value(a)
            D == Value(b)
<1>1. V \in 0 .. Space - 1 /\ D \in Nat \ {0} /\ D > 0 /\ Width \in Nat /\ Space = Pow2[Width]
      /\ Space \in Nat \ {0}
  BY ValueIn, IsZeroIs, LimbBaseIs DEF Space
<1>2. PICK f : /\ f[0] = [quotient |-> Zero, rem |-> Zero]
               /\ \A n \in 1 .. Width : f[n] = DivideStep(a, b, n, f[n - 1])
               /\ DivideSteps(a, b) = f[Width]
  BY DivideStepsIs
<1>. DEFINE Right == {n \in Nat : n <= Width => Divided(a, b, n, f[n])}
<1>3. 0 \in Right
  <2>1. Zero \in UInts /\ Value(Zero) = 0
    <3>1. Zero \in UInts /\ Zero = [i \in Limbs |-> 0]
      BY LimbBaseIs DEF Zero, FromLimb, UInts
    <3>. QED BY <3>1, LimbBaseIs DEF Value, Limbs
  <2>2. V \div Space = 0
    <3>1. V = Space * 0 + V
      BY <1>1
    <3>2. 0 \in Int
      OBVIOUS
    <3>. HIDE DEF V
    <3>. QED BY <1>1, <3>1, <3>2, DivModIs
  <2>3. Width - 0 = Width /\ 0 = 0 * Pow2[Width] /\ 0 = 0 * D + 0
    BY <1>1
  <2>4. Divided(a, b, 0, f[0])
    BY <1>1, <1>2, <2>1, <2>2, <2>3 DEF Divided
  <2>. QED BY <2>4
<1>4. ASSUME NEW n \in Right PROVE n + 1 \in Right
  <2>. SUFFICES ASSUME n + 1 <= Width PROVE Divided(a, b, n + 1, f[n + 1])
    OBVIOUS
  <2>1. n + 1 \in 1 .. Width /\ (n + 1) - 1 = n /\ n <= Width
    BY <1>1
  <2>2. Divided(a, b, n, f[n])
    BY <2>1
  <2>3. f[n + 1] = DivideStep(a, b, n + 1, f[n])
    BY <1>2, <2>1
  <2>. QED BY <1>1, <2>1, <2>2, <2>3, DividedStep
<1>5. Right = Nat
  <2>1. Right \in SUBSET Nat
    OBVIOUS
  <2>. HIDE DEF Right
  <2>. QED BY <1>3, <1>4, <2>1, Induction
<1>. DEFINE s == f[Width]
<1>6. Divided(a, b, Width, s)
  BY <1>1, <1>5
<1>. HIDE DEF s
<1>7. Pow2[Width - Width] = 1
  <2>1. Width - Width = 0
    BY <1>1
  <2>. QED BY <2>1, Pow2Def
<1>8. PICK q \in Nat : Value(s.quotient) = q /\ V = q * D + Value(s.rem)
  <2>1. PICK q \in Nat : Value(s.quotient) = q * 1 /\ V \div 1 = q * D + Value(s.rem)
    BY <1>6, <1>7 DEF Divided
  <2>2. V \div 1 = V
    BY <1>1
  <2>. QED BY <2>1, <2>2
<1>9. Value(s.rem) \in 0 .. D - 1
  BY <1>1, <1>6, ValueIn DEF Divided
<1>10. V \div D = q /\ V % D = Value(s.rem)
  <2>. DEFINE r == Value(s.rem)
  <2>1. V = D * q + r /\ r \in 0 .. D - 1 /\ q \in Int
    BY <1>1, <1>8, <1>9
  <2>. HIDE DEF r, D, V
  <2>2. (D * q + r) \div D = q /\ (D * q + r) % D = r
    BY <1>1, <2>1, DivModIs
  <2>. QED BY <2>1, <2>2 DEF r
<1>11. s.quotient \in UInts /\ s.rem \in UInts
  BY <1>6 DEF Divided
<1>. QED BY <1>2, <1>8, <1>10, <1>11 DEF Divide, Remainder, s

(* Exact truncating division, for every numerator and denominator.          *)
LEMMA QuotientsExact == \A a, b \in UInts : QuotientsAreExact(a, b)
BY DivideExact DEF QuotientsAreExact

-----------------------------------------------------------------------------
(* Compact targets and share difficulties.                                  *)

(* Multiplication keeps an order, and a factor can be taken out of it.      *)
LEMMA TimesOrder ==
    ASSUME NEW x \in Int, NEW y \in Int, NEW m \in Nat \ {0}
    PROVE  (x <= y <=> x * m <= y * m) /\ (x < y <=> x * m < y * m)
<1>1. x * m \in Int /\ y * m \in Int
  OBVIOUS
<1>2. CASE x < y
  <2>1. (y - x) * m > 0 /\ (y - x) * m = y * m - x * m
    BY <1>2
  <2>. QED BY <1>1, <1>2, <2>1
<1>3. CASE x = y
  BY <1>1, <1>3
<1>4. CASE x > y
  <2>1. (x - y) * m > 0 /\ (x - y) * m = x * m - y * m
    BY <1>4
  <2>. QED BY <1>1, <1>4, <2>1
<1>. QED BY <1>2, <1>3, <1>4

(* A quotient is the largest number whose product does not go beyond.       *)
LEMMA QuotientAtLeast ==
    ASSUME NEW x \in Int, NEW b \in Nat \ {0}, NEW k \in Int
    PROVE  k <= x \div b <=> k * b <= x
<1>. DEFINE q == x \div b
            r == x % b
<1>1. q \in Int /\ r \in 0 .. b - 1 /\ x = b * q + r
  BY DivMod
<1>. HIDE DEF q, r
<1>2. CASE k <= q
  <2>1. k * b <= q * b
    BY <1>1, <1>2, TimesOrder
  <2>2. q * b = b * q /\ k * b \in Int /\ q * b \in Int
    BY <1>1
  <2>. QED BY <1>1, <1>2, <2>1, <2>2 DEF q
<1>3. CASE k >= q + 1
  <2>1. (q + 1) * b <= k * b
    <3>1. q + 1 \in Int
      BY <1>1
    <3>. QED BY <1>3, <3>1, TimesOrder
  <2>2. (q + 1) * b = b * q + b /\ k * b \in Int /\ b * q \in Int
    BY <1>1
  <2>. QED BY <1>1, <1>3, <2>1, <2>2 DEF q
<1>. QED BY <1>1, <1>2, <1>3

(* A quotient lies around the exact one.                                    *)
LEMMA QuotientIn ==
    ASSUME NEW x \in Nat, NEW b \in Nat \ {0}
    PROVE  x \div b \in 0 .. x /\ (x \div b) * b <= x /\ x < (x \div b + 1) * b
<1>. DEFINE q == x \div b
            r == x % b
<1>1. q \in Int /\ r \in 0 .. b - 1 /\ x = b * q + r
  BY DivMod
<1>. HIDE DEF r
<1>2. 0 <= q
  BY QuotientAtLeast
<1>3. q <= x
  <2>. HIDE DEF q
  <2>1. b * q = q + (b - 1) * q /\ (b - 1) * q >= 0 /\ (b - 1) * q \in Int
    BY <1>1, <1>2
  <2>. QED BY <1>1, <2>1
<1>4. q * b = b * q /\ (q + 1) * b = b * q + b /\ b * q \in Int
  <2>. HIDE DEF q
  <2>. QED BY <1>1
<1>. HIDE DEF q
<1>. QED BY <1>1, <1>2, <1>3, <1>4 DEF q

(* The parameters of nBits and of share difficulties.                       *)
LEMMA ParametersAre ==
    /\ ByteBits \in Nat \ {0} /\ 3 * ByteBits \in Nat /\ 3 * ByteBits <= LimbBits
    /\ ScaleBits \in Nat \ {0} /\ ScaleBits < LimbBits /\ LimbBits \in Nat
    /\ DifficultyOneLimb \in 1 .. Pow2[LimbBits - ScaleBits] - 1
    /\ Width \in Nat /\ Width = 4 * LimbBits
BY DifficultyAssumption, LimbBitsAssumption DEF Width

(* A number made of one limb is that limb.                                  *)
LEMMA FromLimbIs ==
    ASSUME NEW v \in 0 .. LimbBase - 1
    PROVE  FromLimb(v) \in UInts /\ Value(FromLimb(v)) = v
<1>1. FromLimb(v) \in UInts
  BY LimbBaseIs DEF FromLimb, UInts
<1>2. Value(FromLimb(v)) = v + LimbBase * (0 + LimbBase * (0 + LimbBase * 0))
  BY DEF FromLimb, Value, Limbs
<1>. QED BY <1>1, <1>2, LimbBaseIs

(* Zero is 0.                                                               *)
LEMMA ZeroIs == Zero \in UInts /\ Value(Zero) = 0 /\ IsZero(Zero)
<1>1. 0 \in 0 .. LimbBase - 1
  BY LimbBaseIs
<1>2. Zero \in UInts /\ Value(Zero) = 0
  BY <1>1, FromLimbIs DEF Zero
<1>. QED BY <1>2, IsZeroIs

(* The sign bit is the highest of the three bytes of the word.              *)
LEMMA SignBitIs ==
    /\ SignBit \in Nat \ {0} /\ Pow2[3 * ByteBits] = 2 * SignBit
    /\ Pow2[3 * ByteBits] \in Nat /\ Pow2[3 * ByteBits] <= LimbBase
    /\ ByteBase \in Nat \ {0} /\ ByteBase >= 2
<1>1. 3 * ByteBits - 1 \in Nat /\ (3 * ByteBits - 1) + 1 = 3 * ByteBits
  BY ParametersAre
<1>2. Pow2[3 * ByteBits] <= LimbBase
  <2>1. 3 * ByteBits = LimbBits \/ 3 * ByteBits < LimbBits
    BY ParametersAre
  <2>2. Pow2[3 * ByteBits] \in Nat /\ Pow2[LimbBits] \in Nat
    BY ParametersAre, Pow2Def
  <2>3. 3 * ByteBits < LimbBits => Pow2[3 * ByteBits] < Pow2[LimbBits]
    BY ParametersAre, Pow2Grows
  <2>. QED BY <2>1, <2>2, <2>3 DEF LimbBase
<1>3. Pow2[0] < Pow2[ByteBits] /\ Pow2[0] = 1 /\ Pow2[ByteBits] \in Nat
  <2>1. 0 \in Nat /\ 0 < ByteBits /\ ByteBits \in Nat
    BY ParametersAre
  <2>. QED BY <2>1, Pow2Grows, Pow2Def
<1>. QED BY <1>1, <1>2, <1>3, Pow2Def, Pow2Positive DEF SignBit, ByteBase

(* The mantissa is the word without its sign bit.                           *)
LEMMA MantissaIs ==
    ASSUME NEW nBits, nBits.word \in Word
    PROVE  /\ Mantissa(nBits) \in 0 .. SignBit - 1 /\ Mantissa(nBits) \in 0 .. LimbBase - 1
           /\ nBits.word < SignBit => Mantissa(nBits) = nBits.word
<1>. DEFINE w == nBits.word
<1>1. w \in Int /\ w >= 0
  BY DEF Word
<1>. HIDE DEF w
<1>2. (w % SignBit) \in 0 .. SignBit - 1 /\ (w < SignBit => (w % SignBit) = w)
  <2>1. SignBit \in Nat \ {0}
    BY SignBitIs
  <2>2. (w % SignBit) \in 0 .. SignBit - 1
    BY <1>1, <2>1, DivMod
  <2>3. w < SignBit => w \in 0 .. SignBit - 1
    BY <1>1, <2>1
  <2>. QED BY <1>1, <2>1, <2>2, <2>3, ModNear
<1>3. SignBit <= LimbBase
  BY SignBitIs, LimbBaseIs
<1>. QED BY <1>2, <1>3, SignBitIs, LimbBaseIs DEF Mantissa, w

-----------------------------------------------------------------------------
(* What a compact target means: decoding.                                   *)

(* A compact target overflows if its shifted mantissa has more than 256 bits. *)
LEMMA OverflowIs ==
    ASSUME NEW nBits, nBits.word \in Word, nBits.exponent \in Nat
    PROVE  LET shift == ByteBits * ShiftBytes(nBits)
           IN  Overflows(nBits) <=>
                 ~ (\/ shift <= 0 \/ Mantissa(nBits) = 0
                    \/ shift < Width /\ Mantissa(nBits) < Pow2[Width - shift])
<1>. DEFINE e == nBits.exponent
            s == ByteBits * (e - 3)
            m == Mantissa(nBits)
            L == BitLength(FromLimb(m))
<1>1. e \in Nat /\ m \in 0 .. LimbBase - 1
  BY MantissaIs
<1>2. /\ s \in Int /\ (e > 3 <=> s > 0) /\ s = (e - 3) * ByteBits
      /\ s = ByteBits * ShiftBytes(nBits) /\ s = ShiftBytes(nBits) * ByteBits
  <2>1. e - 3 \in Int
    BY <1>1
  <2>. DEFINE k == e - 3
  <2>2. k \in Int /\ (e > 3 <=> k > 0)
    BY <1>1
  <2>. HIDE DEF k, e
  <2>3. ByteBits * k \in Int /\ (k > 0 <=> ByteBits * k > 0) /\ ByteBits * k = k * ByteBits
    BY <2>2, ParametersAre
  <2>. QED BY <2>2, <2>3 DEF k, ShiftBytes, e
<1>3. FromLimb(m) \in UInts /\ Value(FromLimb(m)) = m
  <2>. HIDE DEF m
  <2>. QED BY <1>1, FromLimbIs
<1>4. L \in 0 .. Width
  <2>1. CASE IsZero(FromLimb(m))
    BY <2>1, ParametersAre DEF BitLength
  <2>2. CASE ~IsZero(FromLimb(m))
    BY <1>3, <2>2, BitLengthIs, ParametersAre
  <2>. QED BY <2>1, <2>2
<1>5. ASSUME s \in 1 .. Width
      PROVE  L + s > Width <=> ~(m < Pow2[Width - s])
  <2>1. Width - s \in Nat /\ ~(Width - s >= Width)
    BY <1>5, ParametersAre
  <2>2. L <= Width - s <=> m < Pow2[Width - s]
    <3>. HIDE DEF s
    <3>1. ShiftsAreExact(FromLimb(m), Width - s)
      BY <1>3, <2>1, ShiftsExact
    <3>. QED BY <1>3, <2>1, <3>1 DEF ShiftsAreExact
  <2>. HIDE DEF L, m, s
  <2>. QED BY <1>4, <1>5, <2>2, ParametersAre
<1>6. Overflows(nBits) <=> e > 3 /\ m # 0 /\ (s > Width \/ L + s > Width)
  BY <1>2 DEF Overflows
<1>7. Pow2[0] = 1 /\ Width - Width = 0
  BY Pow2Def, ParametersAre
<1>8. Overflows(nBits) <=> ~(s <= 0 \/ m = 0 \/ (s < Width /\ m < Pow2[Width - s]))
  <2>. HIDE DEF L, m, s, e
  <2>1. CASE s <= 0
    BY <1>2, <1>6, <2>1
  <2>2. CASE s \in 1 .. Width - 1
    <3>1. s \in 1 .. Width /\ s < Width /\ ~(s > Width) /\ s > 0
      BY <2>2, ParametersAre
    <3>. QED BY <1>2, <1>5, <1>6, <3>1
  <2>3. CASE s = Width
    <3>1. s \in 1 .. Width /\ ~(s < Width) /\ s > 0
      BY <2>3, ParametersAre
    <3>2. L + s > Width <=> ~(m < 1)
      BY <1>5, <1>7, <2>3, <3>1
    <3>. QED BY <1>1, <1>2, <1>6, <3>1, <3>2
  <2>4. CASE s > Width
    <3>1. s > 0 /\ ~(s < Width)
      BY <2>4, ParametersAre, <1>2
    <3>. QED BY <1>2, <1>6, <2>4, <3>1
  <2>. QED BY <1>2, <2>1, <2>2, <2>3, <2>4, ParametersAre
<1>. QED BY <1>2, <1>8

(* A compact target is decoded to what its definition says, or refused.     *)
LEMMA DecodesExact ==
    ASSUME NEW nBits, nBits.word \in Word, nBits.exponent \in Nat
    PROVE  DecodesItsValue(nBits) /\ DecodeCompactBits(nBits) \in UInts
<1>. DEFINE e == nBits.exponent
            s == ByteBits * (e - 3)
            m == Mantissa(nBits)
            T == DecodeCompactBits(nBits)
            fits == \/ s <= 0 \/ m = 0
                    \/ s < Width /\ m < Pow2[Width - s]
<1>1. e \in Nat /\ m \in 0 .. LimbBase - 1 /\ m \in Nat
  BY MantissaIs
<1>2. /\ s \in Int /\ (e > 3 <=> s > 0) /\ (e < 3 <=> s < 0) /\ s = (e - 3) * ByteBits
      /\ s = ByteBits * ShiftBytes(nBits) /\ s = ShiftBytes(nBits) * ByteBits
      /\ ByteBits * (3 - e) = -s
  <2>. DEFINE k == e - 3
  <2>1. k \in Int /\ (e > 3 <=> k > 0) /\ (e < 3 <=> k < 0) /\ 3 - e = -k
    BY <1>1
  <2>. HIDE DEF k
  <2>2. /\ ByteBits * k \in Int /\ (k > 0 <=> ByteBits * k > 0) /\ (k < 0 <=> ByteBits * k < 0)
        /\ ByteBits * k = k * ByteBits /\ ByteBits * (-k) = -(ByteBits * k)
    BY <2>1, ParametersAre
  <2>. QED BY <2>1, <2>2 DEF k, ShiftBytes
<1>3. Overflows(nBits) <=> ~fits
  BY <1>2, OverflowIs
<1>4. Accepted(nBits) <=> ~Negative(nBits) /\ fits
  BY <1>3 DEF Accepted
<1>5. CASE ~Accepted(nBits)
  BY <1>2, <1>4, <1>5, ZeroIs DEF DecodeCompactBits, DecodesItsValue
<1>6. CASE Accepted(nBits)
  <2>1. /\ T \in UInts
        /\ Value(T) = IF m = 0 THEN 0 ELSE IF s >= 0 THEN m * Pow2[s] ELSE m \div Pow2[-s]
    <3>1. CASE e <= 3
      <4>. DEFINE p == Pow2[-s]
      <4>1. p \in Nat \ {0} /\ (s = 0 => p = 1 /\ Pow2[s] = 1) /\ s <= 0
        <5>1. -s \in Nat /\ s <= 0 /\ (s = 0 => -s = 0)
          BY <1>1, <1>2, <3>1
        <5>. QED BY <5>1, Pow2Positive, Pow2Def
      <4>2. T = FromLimb(m \div p)
        BY <1>2, <1>6, <3>1 DEF DecodeCompactBits
      <4>. HIDE DEF T, p, m, s, e
      <4>3. m \div p \in 0 .. m /\ (m = 0 => m \div p = 0)
        BY <1>1, <4>1, QuotientIn
      <4>4. m \div p \in 0 .. LimbBase - 1
        BY <1>1, <4>3, LimbBaseIs
      <4>5. T \in UInts /\ Value(T) = m \div p
        BY <4>2, <4>4, FromLimbIs
      <4>6. CASE s = 0
        <5>1. m \div p = m /\ m * Pow2[s] = m
          BY <1>1, <4>1, <4>6
        <5>. QED BY <4>3, <4>5, <4>6, <5>1
      <4>7. CASE s < 0
        BY <1>2, <4>3, <4>5, <4>7 DEF p
      <4>. QED BY <1>2, <4>1, <4>6, <4>7
    <3>2. CASE e > 3
      <4>1. T = ShiftLeft(FromLimb(m), s) /\ s \in Nat /\ s > 0
        BY <1>1, <1>2, <1>6, <3>2 DEF DecodeCompactBits
      <4>2. FromLimb(m) \in UInts /\ Value(FromLimb(m)) = m
        <5>. HIDE DEF m
        <5>. QED BY <1>1, FromLimbIs
      <4>3. T \in UInts /\ Value(T) = IF s >= Width THEN 0 ELSE (m % Pow2[Width - s]) * Pow2[s]
        <5>. HIDE DEF m, s, T
        <5>. QED BY <4>1, <4>2, ShiftLeftExact
      <4>4. CASE m = 0
        <5>1. ASSUME ~(s >= Width) PROVE (0 % Pow2[Width - s]) * Pow2[s] = 0
          <6>. DEFINE p == Pow2[Width - s]
                      r == Pow2[s]
          <6>1. p \in Nat \ {0} /\ r \in Nat
            <7>1. Width - s \in Nat
              BY <4>1, <5>1, ParametersAre
            <7>. HIDE DEF s
            <7>. QED BY <4>1, <7>1, Pow2Positive
          <6>. HIDE DEF p, r
          <6>2. (0 % p) = 0
            BY <6>1
          <6>3. 0 * r = 0
            BY <6>1
          <6>. QED BY <6>2, <6>3 DEF p, r
        <5>. QED BY <4>3, <4>4, <5>1
      <4>5. CASE m # 0
        <5>1. s < Width /\ m < Pow2[Width - s]
          BY <1>4, <1>6, <4>1, <4>5
        <5>2. Width - s \in Nat /\ ~(s >= Width)
          BY <4>1, <5>1, ParametersAre
        <5>. DEFINE p == Pow2[Width - s]
        <5>3. p \in Nat \ {0} /\ m \in 0 .. p - 1 /\ m \in Int
          <6>. HIDE DEF s, m
          <6>. QED BY <1>1, <5>1, <5>2, Pow2Positive
        <5>. HIDE DEF p, m
        <5>4. (m % p) = m
          BY <5>3, ModNear
        <5>. QED BY <4>1, <4>3, <4>5, <5>2, <5>4 DEF p
      <4>. QED BY <4>4, <4>5
    <3>. QED BY <1>1, <3>1, <3>2
  <2>. HIDE DEF T, m
  <2>2. DecodesItsValue(nBits)
    BY <1>2, <1>4, <1>6, <2>1 DEF DecodesItsValue, T, m
  <2>. QED BY <2>1, <2>2 DEF T
<1>. QED BY <1>5, <1>6

-----------------------------------------------------------------------------
(* Encoding: the exponent decides which bits of the target lead.            *)

(* The target in units of what an exponent stands for.                      *)
Leading(v, e) ==
    IF e <= 3 THEN v * Pow2[ByteBits * (3 - e)] ELSE v \div Pow2[ByteBits * (e - 3)]

Canonical(w) == w \in Pow2[2 * ByteBits - 1] .. SignBit - 1

(* Powers of whole bytes.                                                   *)
LEMMA BytePowers ==
    ASSUME NEW j \in Nat, NEW k \in Nat
    PROVE  /\ ByteBits * j \in Nat /\ Pow2[ByteBits * j] \in Nat \ {0}
           /\ Pow2[ByteBits * (j + k)] = Pow2[ByteBits * j] * Pow2[ByteBits * k]
           /\ Pow2[ByteBits * 0] = 1 /\ Pow2[ByteBits * 1] = ByteBase
           /\ j <= k => Pow2[ByteBits * j] <= Pow2[ByteBits * k]
<1>1. /\ ByteBits * j \in Nat /\ ByteBits * k \in Nat
      /\ ByteBits * (j + k) = ByteBits * j + ByteBits * k
      /\ ByteBits * 0 = 0 /\ ByteBits * 1 = ByteBits
  BY ParametersAre
<1>2. Pow2[ByteBits * j] \in Nat \ {0} /\ Pow2[ByteBits * k] \in Nat \ {0}
  BY <1>1, Pow2Positive
<1>3. Pow2[ByteBits * (j + k)] = Pow2[ByteBits * j] * Pow2[ByteBits * k]
  BY <1>1, Pow2Sum
<1>4. j <= k => Pow2[ByteBits * j] <= Pow2[ByteBits * k]
  <2>. SUFFICES ASSUME j <= k PROVE Pow2[ByteBits * j] <= Pow2[ByteBits * k]
    OBVIOUS
  <2>1. ByteBits * (k - j) >= 0 /\ ByteBits * (k - j) = ByteBits * k - ByteBits * j
    BY ParametersAre
  <2>2. ByteBits * j = ByteBits * k \/ ByteBits * j < ByteBits * k
    BY <1>1, <2>1
  <2>. QED BY <1>1, <1>2, <2>2, Pow2Grows
<1>. QED BY <1>1, <1>2, <1>3, <1>4, Pow2Def DEF ByteBase

(* The least word of a canonical encoding, and its place below the sign bit. *)
LEMMA CanonicalIs ==
    /\ Pow2[2 * ByteBits - 1] \in Nat \ {0}
    /\ SignBit = Pow2[2 * ByteBits - 1] * ByteBase
    /\ Pow2[2 * ByteBits] = 2 * Pow2[2 * ByteBits - 1]
    /\ Pow2[2 * ByteBits] <= SignBit /\ Pow2[3 * ByteBits] = Pow2[2 * ByteBits] * ByteBase
<1>1. /\ 2 * ByteBits - 1 \in Nat /\ (2 * ByteBits - 1) + ByteBits = 3 * ByteBits - 1
      /\ (2 * ByteBits - 1) + 1 = 2 * ByteBits /\ 2 * ByteBits + ByteBits = 3 * ByteBits
      /\ ByteBits \in Nat /\ 2 * ByteBits \in Nat /\ 3 * ByteBits - 1 \in Nat
      /\ 2 * ByteBits <= 3 * ByteBits - 1
  BY ParametersAre
<1>2. Pow2[2 * ByteBits - 1] \in Nat \ {0} /\ Pow2[2 * ByteBits] = 2 * Pow2[2 * ByteBits - 1]
  BY <1>1, Pow2Def, Pow2Positive
<1>3. Pow2[(2 * ByteBits - 1) + ByteBits] = Pow2[2 * ByteBits - 1] * Pow2[ByteBits]
  BY <1>1, Pow2Sum
<1>4. Pow2[2 * ByteBits + ByteBits] = Pow2[2 * ByteBits] * Pow2[ByteBits]
  BY <1>1, Pow2Sum
<1>5. Pow2[2 * ByteBits] <= Pow2[3 * ByteBits - 1]
  <2>1. Pow2[2 * ByteBits] \in Nat /\ Pow2[3 * ByteBits - 1] \in Nat
    BY <1>1, Pow2Def
  <2>2. 2 * ByteBits = 3 * ByteBits - 1 \/ 2 * ByteBits < 3 * ByteBits - 1
    BY <1>1
  <2>. QED BY <1>1, <2>1, <2>2, Pow2Grows
<1>. QED BY <1>1, <1>2, <1>3, <1>4, <1>5 DEF SignBit, ByteBase

(* One more in the exponent is one byte less.                               *)
LEMMA LeadingNext ==
    ASSUME NEW v \in Nat, NEW e \in Nat
    PROVE  Leading(v, e) \in Nat /\ Leading(v, e + 1) = Leading(v, e) \div ByteBase
<1>1. ByteBase \in Nat \ {0}
  BY SignBitIs
<1>2. CASE e < 3
  <2>. DEFINE k == 2 - e
              p == Pow2[ByteBits * k]
              y == v * p
  <2>1. k \in Nat /\ 3 - e = k + 1 /\ 3 - (e + 1) = k /\ e <= 3 /\ e + 1 <= 3
    BY <1>2
  <2>2. p \in Nat \ {0} /\ Pow2[ByteBits * (k + 1)] = p * ByteBase
    <3>. HIDE DEF k
    <3>1. 1 \in Nat
      OBVIOUS
    <3>2. p \in Nat \ {0} /\ Pow2[ByteBits * (k + 1)] = p * Pow2[ByteBits * 1]
      BY <2>1, <3>1, BytePowers
    <3>3. Pow2[ByteBits * 1] = ByteBase
      BY <3>1, BytePowers
    <3>. QED BY <3>2, <3>3
  <2>3. Leading(v, e) = v * Pow2[ByteBits * (k + 1)] /\ Leading(v, e + 1) = v * Pow2[ByteBits * k]
    BY <2>1 DEF Leading
  <2>. HIDE DEF k, p
  <2>4. y \in Nat /\ v * (p * ByteBase) = ByteBase * y + 0
    BY <1>1, <2>2
  <2>. HIDE DEF y
  <2>5. (ByteBase * y + 0) \div ByteBase = y /\ ByteBase * y + 0 \in Nat
    <3>1. 0 \in 0 .. ByteBase - 1 /\ y \in Int /\ ByteBase * y + 0 \in Nat
      BY <1>1, <2>4
    <3>. QED BY <1>1, <3>1, DivModIs
  <2>. QED BY <2>2, <2>3, <2>4, <2>5 DEF y, p
<1>3. CASE e >= 3
  <2>. DEFINE k == e - 3
              p == Pow2[ByteBits * k]
  <2>1. k \in Nat /\ (e + 1) - 3 = k + 1 /\ ~(e + 1 <= 3)
    BY <1>3
  <2>2. p \in Nat \ {0} /\ Pow2[ByteBits * (k + 1)] = p * ByteBase
    <3>. HIDE DEF k
    <3>1. 1 \in Nat
      OBVIOUS
    <3>2. p \in Nat \ {0} /\ Pow2[ByteBits * (k + 1)] = p * Pow2[ByteBits * 1]
      BY <2>1, <3>1, BytePowers
    <3>3. Pow2[ByteBits * 1] = ByteBase
      BY <3>1, BytePowers
    <3>. QED BY <3>2, <3>3
  <2>3. Leading(v, e) = v \div p
    <3>1. CASE e = 3
      <4>1. 3 - 3 = 0 /\ k = 0 /\ e <= 3
        BY <3>1
      <4>2. Pow2[ByteBits * 0] = 1
        BY BytePowers
      <4>3. Leading(v, e) = v * 1 /\ p = 1
        BY <3>1, <4>1, <4>2 DEF Leading
      <4>. QED BY <4>3
    <3>2. CASE e > 3
      BY <3>2 DEF Leading
    <3>. QED BY <1>3, <3>1, <3>2
  <2>4. Leading(v, e + 1) = v \div (p * ByteBase)
    BY <2>1, <2>2 DEF Leading
  <2>. HIDE DEF k, p
  <2>5. v \div p \in Nat /\ v \in Int
    BY <2>2, QuotientIn
  <2>. QED BY <1>1, <2>2, <2>3, <2>4, <2>5, DivDiv
<1>. QED BY <1>2, <1>3

(* The leading bytes fall by a byte, at least, with each exponent.          *)
LEMMA LeadingFalls ==
    ASSUME NEW v \in Nat, NEW e \in Nat, NEW f \in Nat, e < f
    PROVE  Leading(v, f) <= Leading(v, e) \div ByteBase
<1>. DEFINE Falls == {k \in Nat : Leading(v, (e + 1) + k) <= Leading(v, e + 1)}
<1>1. 0 \in Falls
  <2>1. (e + 1) + 0 = e + 1 /\ e + 1 \in Nat
    OBVIOUS
  <2>2. Leading(v, e + 1) \in Nat
    BY <2>1, LeadingNext
  <2>. QED BY <2>1, <2>2
<1>2. ASSUME NEW k \in Falls PROVE k + 1 \in Falls
  <2>. DEFINE n == (e + 1) + k
  <2>1. n \in Nat /\ (e + 1) + (k + 1) = n + 1 /\ e + 1 \in Nat /\ k \in Nat
    OBVIOUS
  <2>2. Leading(v, n) <= Leading(v, e + 1)
    OBVIOUS
  <2>. HIDE DEF n
  <2>3. /\ Leading(v, n) \in Nat /\ Leading(v, n + 1) = Leading(v, n) \div ByteBase
        /\ Leading(v, e + 1) \in Nat
    BY <2>1, LeadingNext
  <2>4. Leading(v, n) \div ByteBase \in 0 .. Leading(v, n)
    BY <2>3, QuotientIn, SignBitIs
  <2>. QED BY <2>1, <2>2, <2>3, <2>4
<1>3. Falls = Nat
  <2>1. Falls \in SUBSET Nat
    OBVIOUS
  <2>. HIDE DEF Falls
  <2>. QED BY <1>1, <1>2, <2>1, Induction
<1>4. f - e - 1 \in Nat /\ (e + 1) + (f - e - 1) = f
  OBVIOUS
<1>5. Leading(v, f) <= Leading(v, e + 1)
  BY <1>3, <1>4
<1>. QED BY <1>5, LeadingNext

(* Only one exponent leaves a canonical word.                               *)
LEMMA ExponentBound ==
    ASSUME NEW v \in Nat, NEW e \in Nat, NEW f \in Nat,
           Leading(v, e) < SignBit, Canonical(Leading(v, f))
    PROVE  f <= e
<1>. SUFFICES ASSUME e < f PROVE FALSE
  OBVIOUS
<1>. DEFINE c == Pow2[2 * ByteBits - 1]
            x == Leading(v, e)
            y == Leading(v, f)
<1>1. c \in Nat \ {0} /\ SignBit = c * ByteBase /\ ByteBase \in Nat \ {0} /\ c <= y
  BY CanonicalIs, SignBitIs DEF Canonical
<1>2. x \in Nat /\ y \in Nat /\ y <= x \div ByteBase
  BY LeadingNext, LeadingFalls
<1>. HIDE DEF c, x, y
<1>3. x \div ByteBase \in Nat
  BY <1>1, <1>2, QuotientIn
<1>4. c <= x \div ByteBase
  BY <1>1, <1>2, <1>3
<1>5. c * ByteBase <= x
  BY <1>1, <1>2, <1>4, QuotientAtLeast
<1>. QED BY <1>1, <1>2, <1>5 DEF x

(* A number that a limb can hold is in the lowest one.                      *)
LEMMA LowestLimb ==
    ASSUME NEW a \in UInts, Value(a) < LimbBase
    PROVE  a[0] = Value(a)
<1>1. Value(a) \in 0 .. LimbBase - 1
  BY ValueIn, LimbBaseIs
<1>2. a = FromLimb(Value(a))
  BY <1>1, FromLimbIs, LessIs
<1>3. FromLimb(Value(a))[0] = Value(a)
  BY DEF FromLimb, Limbs
<1>. QED BY <1>2, <1>3

(* leadingWord() is the three leading bytes, the highest not zero.          *)
LEMMA LeadingWordIs ==
    ASSUME NEW t \in UInts, ~IsZero(t)
    PROVE  /\ SignificantBytes(t) \in Nat \ {0}
           /\ LeadingWord(t) = Leading(Value(t), SignificantBytes(t))
           /\ LeadingWord(t) \in Pow2[2 * ByteBits] .. Pow2[3 * ByteBits] - 1
<1>. DEFINE L == BitLength(t)
            V == Value(t)
            n == SignificantBytes(t)
            b == ByteBits
<1>1. L \in 1 .. Width /\ Pow2[L - 1] <= V /\ V < Pow2[L] /\ V \in Nat
  BY BitLengthIs, ValueIn, LimbBaseIs
<1>2. b \in Nat \ {0} /\ Width \in Nat
  BY ParametersAre
<1>3. n = (L + b - 1) \div b
  BY DEF SignificantBytes
<1>. HIDE DEF L, V, n, b
<1>4. n \in Nat \ {0} /\ n * b <= L + b - 1 /\ L + b - 1 < (n + 1) * b
  <2>. DEFINE x == L + b - 1
  <2>1. x \in Nat /\ 1 * b <= x
    BY <1>1, <1>2
  <2>. HIDE DEF x
  <2>2. x \div b \in Nat /\ (x \div b) * b <= x /\ x < (x \div b + 1) * b
    BY <1>2, <2>1, QuotientIn
  <2>3. 1 <= x \div b
    BY <1>2, <2>1, QuotientAtLeast
  <2>. QED BY <1>3, <2>2, <2>3 DEF x
<1>5. /\ n - 1 \in Nat /\ b * (n - 1) <= L - 1 /\ L <= b * n /\ b * (n - 1) \in Nat /\ b * n \in Nat
      /\ L - 1 \in Nat /\ L \in Nat
  <2>1. n * b = b * n /\ (n + 1) * b = b * n + b /\ b * (n - 1) = b * n - b /\ b * n \in Nat
    BY <1>2, <1>4
  <2>2. n - 1 \in Nat
    BY <1>4
  <2>3. b * (n - 1) \in Nat
    BY <1>2, <2>2
  <2>. QED BY <1>1, <1>2, <1>4, <2>1, <2>2, <2>3
<1>6. Pow2[b * (n - 1)] <= V /\ V < Pow2[b * n]
  <2>1. /\ Pow2[L - 1] \in Nat /\ Pow2[L] \in Nat
        /\ Pow2[b * (n - 1)] \in Nat /\ Pow2[b * n] \in Nat
    BY <1>5, Pow2Def
  <2>2. Pow2[b * (n - 1)] <= Pow2[L - 1]
    <3>1. b * (n - 1) = L - 1 \/ b * (n - 1) < L - 1
      BY <1>5
    <3>. QED BY <1>5, <2>1, <3>1, Pow2Grows
  <2>3. Pow2[L] <= Pow2[b * n]
    <3>1. L = b * n \/ L < b * n
      BY <1>5
    <3>. QED BY <1>5, <2>1, <3>1, Pow2Grows
  <2>. QED BY <1>1, <2>1, <2>2, <2>3
<1>7. /\ Pow2[b * 2] = Pow2[2 * b] /\ Pow2[b * 3] = Pow2[3 * b]
      /\ Pow2[3 * b] \in Nat /\ Pow2[2 * b] \in Nat /\ Pow2[3 * b] <= LimbBase
  <2>1. b * 2 = 2 * b /\ b * 3 = 3 * b /\ 2 * b \in Nat /\ 3 * b \in Nat
    BY <1>2
  <2>. QED BY <2>1, Pow2Def, SignBitIs DEF b
<1>8. CASE n <= 3
  <2>. DEFINE k == 3 - n
              p == Pow2[b * k]
  <2>1. k \in Nat /\ n + k = 3 /\ (n - 1) + k = 2 /\ n \in Nat
    BY <1>4, <1>8
  <2>2. /\ p \in Nat \ {0}
        /\ Pow2[b * 3] = Pow2[b * n] * p /\ Pow2[b * 2] = Pow2[b * (n - 1)] * p
        /\ Pow2[b * n] \in Nat /\ Pow2[b * (n - 1)] \in Nat /\ Pow2[b * n] <= Pow2[b * 3]
    <3>. HIDE DEF k
    <3>1. Pow2[b * (n + k)] = Pow2[b * n] * p /\ Pow2[b * ((n - 1) + k)] = Pow2[b * (n - 1)] * p
      BY <1>5, <2>1, BytePowers DEF b
    <3>2. p \in Nat \ {0} /\ Pow2[b * n] \in Nat /\ Pow2[b * (n - 1)] \in Nat
      BY <1>5, <2>1, BytePowers DEF b
    <3>3. n <= 3 /\ 3 \in Nat
      BY <1>8
    <3>4. Pow2[b * n] <= Pow2[b * 3]
      BY <2>1, <3>3, BytePowers DEF b
    <3>. QED BY <2>1, <3>1, <3>2, <3>4
  <2>3. t[0] = V
    <3>1. LimbBase \in Nat
      BY LimbBaseIs
    <3>2. V < LimbBase
      BY <1>1, <1>6, <1>7, <2>2, <3>1
    <3>. QED BY <3>2, LowestLimb DEF V
  <2>4. LeadingWord(t) = V * p
    BY <1>8, <2>3 DEF LeadingWord, n, b
  <2>5. Leading(V, n) = V * p
    BY <1>8 DEF Leading, b
  <2>. HIDE DEF k, p
  <2>6. Pow2[b * (n - 1)] * p <= V * p /\ V * p < Pow2[b * n] * p
    BY <1>1, <1>6, <2>2, TimesOrder
  <2>7. V * p \in Nat
    BY <1>1, <2>2
  <2>. QED BY <1>4, <1>7, <2>2, <2>4, <2>5, <2>6, <2>7 DEF V, n, b
<1>9. CASE n > 3
  <2>. DEFINE k == n - 3
              s == b * k
              p == Pow2[s]
              S == ShiftRight(t, s)
              w == V \div p
  <2>1. k \in Nat /\ 3 + k = n /\ 2 + k = n - 1 /\ 2 \in Nat /\ 3 \in Nat /\ k <= n - 1
    BY <1>4, <1>9
  <2>2. /\ p \in Nat \ {0} /\ s \in Nat
        /\ Pow2[b * n] = Pow2[b * 3] * p /\ Pow2[b * (n - 1)] = Pow2[b * 2] * p
    <3>. HIDE DEF k
    <3>1. Pow2[b * (3 + k)] = Pow2[b * 3] * p /\ Pow2[b * (2 + k)] = Pow2[b * 2] * p
      BY <2>1, BytePowers DEF b
    <3>2. p \in Nat \ {0} /\ s \in Nat
      BY <2>1, BytePowers DEF b
    <3>. QED BY <2>1, <3>1, <3>2
  <2>3. s < Width
    <3>1. b * ((n - 1) - k) >= 0 /\ b * ((n - 1) - k) = b * (n - 1) - s
      BY <1>2, <1>5, <2>1
    <3>. QED BY <1>1, <1>2, <1>5, <2>2, <3>1
  <2>4. S \in UInts /\ Value(S) = w
    <3>. HIDE DEF s
    <3>1. ~(s >= Width)
      BY <1>2, <2>2, <2>3
    <3>. QED BY <2>2, <3>1, ShiftRightExact DEF V
  <2>5. LeadingWord(t) = (S[0] % Pow2[3 * b])
    BY <1>4, <1>9 DEF LeadingWord, n, b
  <2>6. Leading(V, n) = w
    BY <1>4, <1>9 DEF Leading, b
  <2>. HIDE DEF k, p, S
  <2>7. Pow2[2 * b] <= w
    BY <1>1, <1>6, <1>7, <2>2, QuotientAtLeast
  <2>8. w < Pow2[3 * b]
    <3>1. ~(Pow2[3 * b] <= w)
      <4>1. Pow2[3 * b] * p \in Int
        BY <1>7, <2>2
      <4>2. ~(Pow2[3 * b] * p <= V)
        BY <1>1, <1>6, <1>7, <2>2, <4>1
      <4>. QED BY <1>1, <1>7, <2>2, <4>2, QuotientAtLeast
    <3>2. w \in Nat
      BY <1>1, <2>2, QuotientIn
    <3>. QED BY <1>7, <3>1, <3>2
  <2>9. w \in Nat
    BY <1>1, <2>2, QuotientIn
  <2>. HIDE DEF w
  <2>10. S[0] = w
    <3>1. Value(S) < LimbBase
      BY <1>7, <2>4, <2>8, <2>9, LimbBaseIs
    <3>. QED BY <2>4, <3>1, LowestLimb
  <2>11. (w % Pow2[3 * b]) = w
    <3>. DEFINE m == Pow2[3 * b]
    <3>1. m \in Nat \ {0} /\ w \in 0 .. m - 1 /\ w \in Int
      BY <1>7, <2>8, <2>9
    <3>. HIDE DEF m
    <3>2. (w % m) = w
      BY <3>1, ModNear
    <3>. QED BY <3>2 DEF m
  <2>. QED BY <1>4, <1>7, <2>5, <2>6, <2>7, <2>8, <2>9, <2>10, <2>11 DEF V, n, b
<1>. QED BY <1>4, <1>8, <1>9

(* What encodeCompactBits() makes is canonical: the sign bit is never set.  *)
LEMMA EncodeIs ==
    ASSUME NEW t \in UInts, ~IsZero(t)
    PROVE  LET nBits == EncodeCompactBits(t)
           IN  /\ nBits = [exponent |-> nBits.exponent, word |-> nBits.word]
               /\ nBits.exponent \in Nat \ {0} /\ nBits.word = Leading(Value(t), nBits.exponent)
               /\ Canonical(nBits.word)
<1>. DEFINE nBits == EncodeCompactBits(t)
            V == Value(t)
            n == SignificantBytes(t)
            w == LeadingWord(t)
            c == Pow2[2 * ByteBits - 1]
<1>1. /\ n \in Nat \ {0} /\ w = Leading(V, n)
      /\ w \in Pow2[2 * ByteBits] .. Pow2[3 * ByteBits] - 1 /\ V \in Nat
  BY LeadingWordIs, ValueIn
<1>2. /\ c \in Nat \ {0} /\ SignBit = c * ByteBase /\ ByteBase \in Nat \ {0}
      /\ Pow2[2 * ByteBits] = 2 * c /\ Pow2[2 * ByteBits] <= SignBit
      /\ Pow2[3 * ByteBits] = Pow2[2 * ByteBits] * ByteBase /\ SignBit \in Nat
      /\ Pow2[3 * ByteBits] = 2 * SignBit
  BY CanonicalIs, SignBitIs
<1>3. CASE w >= SignBit
  <2>. DEFINE x == w \div ByteBase
  <2>1. nBits = [exponent |-> n + 1, word |-> x]
    BY <1>3 DEF EncodeCompactBits, IsZero
  <2>2. x = Leading(V, n + 1) /\ n + 1 \in Nat \ {0}
    <3>. HIDE DEF n, V, w
    <3>1. n \in Nat
      BY <1>1
    <3>. QED BY <1>1, <3>1, LeadingNext
  <2>. HIDE DEF w, n, c, V
  <2>3. c <= x
    <3>1. c * ByteBase <= w /\ w \in Nat
      BY <1>1, <1>2, <1>3
    <3>. QED BY <1>2, <3>1, QuotientAtLeast
  <2>4. x \in Nat /\ x < 2 * c
    <3>1. x \in Nat
      BY <1>1, <1>2, QuotientIn
    <3>2. ~(2 * c <= x)
      <4>1. ~((2 * c) * ByteBase <= w) /\ 2 * c \in Int /\ w \in Int
        BY <1>1, <1>2
      <4>. QED BY <1>2, <4>1, QuotientAtLeast
    <3>. QED BY <1>2, <3>1, <3>2
  <2>. HIDE DEF x
  <2>5. Canonical(x)
    BY <1>2, <2>3, <2>4 DEF Canonical, c
  <2>. QED BY <2>1, <2>2, <2>5 DEF V
<1>4. CASE ~(w >= SignBit)
  <2>1. nBits = [exponent |-> n, word |-> w]
    BY <1>4 DEF EncodeCompactBits, IsZero
  <2>. HIDE DEF w, n, c, V
  <2>2. Canonical(w)
    BY <1>1, <1>2, <1>4 DEF Canonical, c
  <2>. QED BY <1>1, <2>1, <2>2 DEF V
<1>. QED BY <1>3, <1>4

(* What the leading bits stand for is the target without its lower bits.    *)
LEMMA DecodeLeading ==
    ASSUME NEW v \in 1 .. Space - 1, NEW e \in Nat, Canonical(Leading(v, e))
    PROVE  LET nBits == [exponent |-> e, word |-> Leading(v, e)]
               unit  == Pow2[ByteBits * (IF e > 3 THEN e - 3 ELSE 0)]
           IN  /\ nBits.word \in Word /\ Accepted(nBits) /\ DecodeCompactBits(nBits) \in UInts
               /\ v - Value(DecodeCompactBits(nBits)) \in 0 .. unit - 1
               /\ Value(DecodeCompactBits(nBits)) > 0
               /\ Value(DecodeCompactBits(nBits)) % unit = 0
               /\ Leading(Value(DecodeCompactBits(nBits)), e) = Leading(v, e)
<1>. DEFINE w == Leading(v, e)
            nBits == [exponent |-> e, word |-> w]
            T == DecodeCompactBits(nBits)
            m == Mantissa(nBits)
            k == IF e > 3 THEN e - 3 ELSE 0
            p == Pow2[ByteBits * k]
            s == ByteBits * (e - 3)
<1>1. w \in 1 .. SignBit - 1
  BY CanonicalIs DEF Canonical
<1>2. v \in Nat /\ v > 0 /\ v < Pow2[Width] /\ Pow2[Width] \in Nat /\ Width \in Nat
  BY LimbBaseIs DEF Space
<1>. HIDE DEF w
<1>3. nBits.word = w /\ nBits.exponent = e /\ nBits.word \in Word
  BY <1>1, SignBitIs DEF Word
<1>4. m = w
  <2>1. nBits.word < SignBit
    BY <1>1, <1>3, SignBitIs
  <2>. HIDE DEF nBits
  <2>. QED BY <1>3, <2>1, MantissaIs
<1>5. k \in Nat /\ p \in Nat \ {0} /\ Pow2[ByteBits * 0] = 1
  <2>1. k \in Nat /\ 0 \in Nat
    OBVIOUS
  <2>. HIDE DEF k
  <2>. QED BY <2>1, BytePowers
<1>6. ~Negative(nBits)
  BY <1>1, <1>3, SignBitIs DEF Negative
<1>7. /\ Accepted(nBits)
           <=> ~Negative(nBits) /\ (s <= 0 \/ m = 0 \/ (s < Width /\ m < Pow2[Width - s]))
      /\ Accepted(nBits) =>
           Value(T) = IF m = 0 THEN 0 ELSE IF s >= 0 THEN m * Pow2[s] ELSE m \div Pow2[-s]
      /\ T \in UInts
  <2>. HIDE DEF nBits, m, T
  <2>. QED BY <1>3, DecodesExact DEF DecodesItsValue, ShiftBytes, m, T
<1>. HIDE DEF nBits, T, m
<1>8. CASE e <= 3
  <2>. DEFINE j == 3 - e
              r == Pow2[ByteBits * j]
  <2>1. j \in Nat /\ k = 0 /\ p = 1
    BY <1>5, <1>8
  <2>2. r \in Nat \ {0} /\ ByteBits * j \in Nat
    <3>. HIDE DEF j
    <3>. QED BY <2>1, BytePowers
  <2>3. w = v * r
    BY <1>8 DEF Leading, w
  <2>4. s = -(ByteBits * j)
    <3>1. e - 3 = -j /\ j \in Int
      BY <2>1
    <3>. HIDE DEF j
    <3>. QED BY <2>1, <3>1, ParametersAre
  <2>5. s <= 0 /\ s \in Int /\ -s = ByteBits * j
    <3>. HIDE DEF s, j
    <3>. QED BY <2>2, <2>4
  <2>6. Accepted(nBits)
    BY <1>6, <1>7, <2>5
  <2>7. Value(T) = v
    <3>1. CASE s = 0
      <4>1. ByteBits * j = 0
        BY <2>4, <2>5, <3>1, <2>2
      <4>2. r = 1
        BY <4>1, Pow2Def
      <4>3. Pow2[s] = 1
        BY <3>1, Pow2Def
      <4>. HIDE DEF s, r
      <4>. QED BY <1>1, <1>2, <1>4, <1>7, <2>3, <2>6, <3>1, <4>2, <4>3
    <3>2. CASE s # 0
      <4>1. Value(T) = w \div r
        <5>. HIDE DEF s
        <5>. QED BY <1>1, <1>4, <1>7, <2>5, <2>6, <3>2
      <4>2. w = r * v + 0 /\ 0 \in 0 .. r - 1
        <5>. HIDE DEF r
        <5>. QED BY <1>2, <2>2, <2>3
      <4>3. w \div r = v
        <5>. HIDE DEF r
        <5>1. v \in Int
          BY <1>2
        <5>. QED BY <2>2, <4>2, <5>1, DivModIs
      <4>. QED BY <4>1, <4>3
    <3>. QED BY <3>1, <3>2
  <2>8. v - v \in 0 .. 1 - 1 /\ v % 1 = 0
    BY <1>2
  <2>. HIDE DEF p, k
  <2>. QED BY <1>2, <1>3, <1>7, <2>1, <2>6, <2>7, <2>8 DEF p, k, w, nBits, T
<1>9. CASE e > 3
  <2>1. k = e - 3 /\ s = ByteBits * k /\ ~(e <= 3)
    BY <1>9
  <2>2. s \in Nat /\ s > 0 /\ p = Pow2[s]
    <3>1. k > 0
      BY <1>9
    <3>. HIDE DEF k
    <3>. QED BY <1>5, <2>1, <3>1, ParametersAre
  <2>3. w = v \div p
    BY <2>1 DEF Leading, w
  <2>. HIDE DEF s, p, k
  <2>4. w * p <= v /\ v < (w + 1) * p /\ w \in Nat /\ w * p \in Nat
    <3>1. v \div p \in 0 .. v /\ (v \div p) * p <= v /\ v < (v \div p + 1) * p
      BY <1>2, <1>5, QuotientIn
    <3>. QED BY <1>1, <1>2, <1>5, <2>3, <3>1
  <2>5. s < Width
    <3>. SUFFICES ASSUME ~(s < Width) PROVE FALSE
      OBVIOUS
    <3>1. Pow2[Width] <= p
      <4>1. s = Width \/ Width < s
        BY <1>2, <2>2
      <4>. QED BY <1>2, <1>5, <2>2, <4>1, Pow2Grows
    <3>2. p <= w * p
      <4>1. 1 * p <= w * p /\ 1 * p = p
        <5>1. 1 \in Int /\ w \in Int /\ 1 <= w
          BY <1>1
        <5>. QED BY <1>5, <5>1, TimesOrder
      <4>. QED BY <4>1
    <3>. QED BY <1>2, <1>5, <2>4, <3>1, <3>2
  <2>6. w < Pow2[Width - s]
    <3>. DEFINE q == Pow2[Width - s]
    <3>1. Width - s \in Nat /\ Width = (Width - s) + s
      BY <1>2, <2>2, <2>5
    <3>2. q \in Nat /\ Pow2[Width] = q * p
      BY <2>2, <3>1, Pow2Sum, Pow2Def
    <3>. HIDE DEF q
    <3>3. w * p < q * p
      BY <1>2, <2>4, <3>2
    <3>4. w < q
      BY <1>5, <2>4, <3>2, <3>3, TimesOrder
    <3>. QED BY <3>4 DEF q
  <2>7. Accepted(nBits)
    BY <1>4, <1>6, <1>7, <2>5, <2>6
  <2>8. Value(T) = w * p
    BY <1>1, <1>4, <1>7, <2>2, <2>7
  <2>9. v - w * p \in 0 .. p - 1
    <3>1. (w + 1) * p = w * p + p
      BY <1>5, <2>4
    <3>. QED BY <1>2, <1>5, <2>4, <3>1
  <2>10. w * p > 0
    BY <1>1, <1>5, <2>4
  <2>11. (w * p) % p = 0 /\ (w * p) \div p = w
    <3>1. w * p = p * w + 0 /\ 0 \in 0 .. p - 1 /\ w \in Int
      BY <1>5, <2>4
    <3>. DEFINE y == w * p
    <3>. HIDE DEF y
    <3>2. (y % p) = 0 /\ y \div p = w
      <4>1. y = p * w + 0
        BY <3>1 DEF y
      <4>. QED BY <1>5, <3>1, <4>1, DivModIs
    <3>. QED BY <3>2 DEF y
  <2>12. Leading(w * p, e) = (w * p) \div p
    BY <2>1 DEF Leading, p, k
  <2>13. /\ nBits.word \in Word /\ Accepted(nBits) /\ T \in UInts
         /\ v - Value(T) \in 0 .. p - 1 /\ Value(T) > 0 /\ Value(T) % p = 0
         /\ Leading(Value(T), e) = w
    BY <1>3, <1>7, <2>7, <2>8, <2>9, <2>10, <2>11, <2>12
  <2>. QED BY <2>13 DEF p, k, w, nBits, T
<1>. QED BY <1>8, <1>9

(* Encoding a target drops no more than the bytes below its word.           *)
LEMMA EncodesTight == \A t \in UInts : EncodingIsTight(t)
<1>. SUFFICES ASSUME NEW t \in UInts PROVE EncodingIsTight(t)
  OBVIOUS
<1>. DEFINE nBits   == EncodeCompactBits(t)
            decoded == DecodeCompactBits(nBits)
            lost    == Value(t) - Value(decoded)
            k       == IF nBits.exponent > 3 THEN nBits.exponent - 3 ELSE 0
<1>. SUFFICES /\ nBits.word \in Word /\ Accepted(nBits)
              /\ lost \in 0 .. Pow2[ByteBits * k] - 1
              /\ EncodeCompactBits(decoded) = nBits
  BY DEF EncodingIsTight
<1>1. CASE IsZero(t)
  <2>1. nBits = [exponent |-> 0, word |-> 0] /\ k = 0
    BY <1>1 DEF EncodeCompactBits
  <2>2. nBits.word \in Word /\ nBits.exponent \in Nat /\ nBits.exponent = 0 /\ nBits.word = 0
    BY <2>1, SignBitIs DEF Word
  <2>. HIDE DEF nBits
  <2>3. Mantissa(nBits) = 0
    BY <2>2, MantissaIs, SignBitIs
  <2>4. Accepted(nBits)
    BY <2>3 DEF Accepted, Negative, Overflows
  <2>5. decoded \in UInts /\ Value(decoded) = 0
    BY <2>2, <2>3, <2>4, DecodesExact DEF DecodesItsValue
  <2>6. Value(t) = 0 /\ IsZero(decoded)
    BY <1>1, <2>5, IsZeroIs
  <2>7. EncodeCompactBits(decoded) = nBits
    BY <2>1, <2>6 DEF EncodeCompactBits
  <2>8. lost = 0 /\ Pow2[ByteBits * k] = 1
    <3>1. Pow2[ByteBits * 0] = 1
      BY BytePowers
    <3>. QED BY <2>1, <2>5, <2>6, <3>1
  <2>. QED BY <2>2, <2>4, <2>7, <2>8
<1>2. CASE ~IsZero(t)
  <2>. DEFINE e == nBits.exponent
              v == Value(t)
              n == [exponent |-> e, word |-> Leading(v, e)]
  <2>1. nBits = n /\ e \in Nat /\ Canonical(Leading(v, e))
    BY <1>2, EncodeIs
  <2>2. v \in 1 .. Space - 1
    BY <1>2, ValueIn, IsZeroIs
  <2>3. /\ n.word \in Word /\ Accepted(n) /\ DecodeCompactBits(n) \in UInts
        /\ v - Value(DecodeCompactBits(n))
             \in 0 .. Pow2[ByteBits * (IF e > 3 THEN e - 3 ELSE 0)] - 1
        /\ Value(DecodeCompactBits(n)) > 0
        /\ Leading(Value(DecodeCompactBits(n)), e) = Leading(v, e)
    <3>. HIDE DEF e, v
    <3>. QED BY <2>1, <2>2, DecodeLeading
  <2>. HIDE DEF nBits, e, v
  <2>4. /\ nBits.word \in Word /\ Accepted(nBits) /\ decoded \in UInts
        /\ v - Value(decoded) \in 0 .. Pow2[ByteBits * k] - 1
        /\ Value(decoded) > 0 /\ Leading(Value(decoded), e) = Leading(v, e)
    BY <2>1, <2>3 DEF e
  <2>. DEFINE again == EncodeCompactBits(decoded)
              d     == Value(decoded)
              f     == again.exponent
  <2>5. ~IsZero(decoded) /\ d \in Nat /\ v \in Nat
    BY <2>2, <2>4, ValueIn, IsZeroIs
  <2>6. /\ again = [exponent |-> f, word |-> again.word] /\ f \in Nat
        /\ again.word = Leading(d, f) /\ Canonical(Leading(d, f))
    <3>. HIDE DEF decoded
    <3>. QED BY <2>4, <2>5, EncodeIs
  <2>. HIDE DEF again, d, f, decoded
  <2>7. f = e
    <3>1. Leading(d, e) < SignBit /\ Leading(d, f) < SignBit
      BY <2>1, <2>4, <2>6, CanonicalIs, SignBitIs DEF Canonical, d
    <3>2. f <= e
      BY <2>1, <2>5, <2>6, <3>1, ExponentBound
    <3>3. e <= f
      BY <2>1, <2>4, <2>5, <2>6, <3>1, ExponentBound DEF d
    <3>. QED BY <2>1, <2>6, <3>2, <3>3
  <2>8. again = nBits
    BY <2>1, <2>4, <2>6, <2>7 DEF d
  <2>. QED BY <2>4, <2>8 DEF v, again, decoded
<1>. QED BY <1>1, <1>2

(* Decoding and encoding again gives the canonical form of the same target. *)
LEMMA RoundTripsExact ==
    ASSUME NEW nBits, nBits.word \in Word, nBits.exponent \in Nat
    PROVE  RoundTrips(nBits)
<1>. DEFINE t == DecodeCompactBits(nBits)
            n == EncodeCompactBits(t)
            d == DecodeCompactBits(n)
            e == nBits.exponent
            f == n.exponent
            m == Mantissa(nBits)
            v == Value(t)
            s == ByteBits * (e - 3)
<1>. SUFFICES d = t
  BY DEF RoundTrips
<1>1. t \in UInts /\ DecodesItsValue(nBits) /\ EncodingIsTight(t) /\ v \in Nat /\ v < Space
      /\ Space \in Nat
  BY DecodesExact, EncodesTight, ValueIn, LimbBaseIs
<1>2. m \in 0 .. SignBit - 1 /\ e \in Nat
  BY MantissaIs
<1>3. CASE IsZero(t)
  <2>1. v = 0 /\ n = [exponent |-> 0, word |-> 0]
    BY <1>1, <1>3, IsZeroIs DEF EncodeCompactBits
  <2>2. n.word \in Word /\ n.exponent \in Nat /\ n.exponent = 0 /\ n.word = 0
    BY <2>1, SignBitIs DEF Word
  <2>3. v - Value(d) \in 0 .. Pow2[ByteBits * 0] - 1
    BY <1>1, <2>2 DEF EncodingIsTight
  <2>4. Pow2[ByteBits * 0] = 1
    BY BytePowers
  <2>. HIDE DEF n
  <2>5. d \in UInts
    BY <2>2, DecodesExact
  <2>6. Value(d) = v
    BY <2>1, <2>3, <2>4, <2>5, ValueIn
  <2>. HIDE DEF t, d
  <2>. QED BY <1>1, <2>5, <2>6, LessIs DEF v
<1>4. CASE ~IsZero(t)
  <2>. DEFINE w == Leading(v, f)
              r == [exponent |-> f, word |-> w]
              k == IF f > 3 THEN f - 3 ELSE 0
              p == Pow2[ByteBits * k]
  <2>1. n = r /\ f \in Nat /\ Canonical(w)
    <3>. HIDE DEF t
    <3>. QED BY <1>1, <1>4, EncodeIs DEF v
  <2>2. v \in 1 .. Space - 1
    BY <1>1, <1>4, IsZeroIs
  <2>3. /\ d \in UInts /\ v - Value(d) \in 0 .. p - 1 /\ Value(d) % p = 0 /\ Value(d) > 0
    <3>1. /\ DecodeCompactBits(r) \in UInts /\ v - Value(DecodeCompactBits(r)) \in 0 .. p - 1
          /\ Value(DecodeCompactBits(r)) % p = 0 /\ Value(DecodeCompactBits(r)) > 0
      <4>. HIDE DEF f, v
      <4>. QED BY <2>1, <2>2, DecodeLeading
    <3>. HIDE DEF r, p, v
    <3>. QED BY <2>1, <3>1
  <2>4. k \in Nat /\ p \in Nat \ {0}
    <3>1. k \in Nat
      BY <2>1
    <3>. HIDE DEF k
    <3>. QED BY <3>1, BytePowers
  <2>5. v % p = 0
    <3>0. Accepted(nBits) /\ m # 0 /\ v = IF s >= 0 THEN m * Pow2[s] ELSE m \div Pow2[-s]
      <4>1. Accepted(nBits)
        BY <1>4, ZeroIs DEF DecodeCompactBits
      <4>2. v = IF m = 0 THEN 0 ELSE IF s >= 0 THEN m * Pow2[s] ELSE m \div Pow2[-s]
        BY <1>1, <4>1 DEF DecodesItsValue, ShiftBytes
      <4>3. m # 0
        <5>. HIDE DEF m, v, s
        <5>. QED BY <2>2, <4>2
      <4>. QED BY <4>1, <4>2, <4>3
    <3>. HIDE DEF t, n, d, m, v, r
    <3>1. CASE e <= 3
      <4>1. v < SignBit
        <5>. DEFINE j == 3 - e
                    q == Pow2[-s]
        <5>1. j \in Nat /\ e - 3 = -j
          BY <1>2, <3>1
        <5>2. -s \in Nat /\ (s >= 0 => s = 0)
          <6>1. s = ByteBits * (-j) /\ ByteBits * j \in Nat /\ ByteBits * (-j) = -(ByteBits * j)
            <7>. HIDE DEF j
            <7>. QED BY <5>1, ParametersAre
          <6>. HIDE DEF s
          <6>. QED BY <5>1, <6>1, ParametersAre
        <5>. HIDE DEF s
        <5>3. q \in Nat \ {0}
          BY <5>2, Pow2Positive
        <5>. HIDE DEF q
        <5>4. m \div q \in 0 .. m
          BY <1>2, <5>3, QuotientIn
        <5>5. CASE s >= 0
          <6>1. v = m * 1
            BY <3>0, <5>2, <5>5, Pow2Def
          <6>. QED BY <1>2, <6>1, SignBitIs
        <5>6. CASE ~(s >= 0)
          BY <1>2, <3>0, <5>4, <5>6, SignBitIs DEF q
        <5>. QED BY <5>5, <5>6
      <4>2. Leading(v, 3) = v
        <5>0. 0 \in Nat /\ 3 - 3 = 0
          OBVIOUS
        <5>1. 3 - 3 = 0 /\ Pow2[ByteBits * 0] = 1
          BY <5>0, BytePowers
        <5>2. Leading(v, 3) = v * 1
          BY <5>1 DEF Leading
        <5>. QED BY <1>1, <5>2
      <4>3. f <= 3
        <5>1. 3 \in Nat
          OBVIOUS
        <5>. HIDE DEF f
        <5>. QED BY <1>1, <2>1, <4>1, <4>2, <5>1, ExponentBound
      <4>0. k = 0 /\ 0 \in Nat
        BY <2>1, <4>3
      <4>. HIDE DEF k
      <4>4. p = 1
        BY <4>0, BytePowers
      <4>. HIDE DEF p
      <4>. QED BY <1>1, <4>4
    <3>2. CASE e > 3
      <4>. DEFINE j == e - 3
                  q == Pow2[s]
      <4>1. j \in Nat /\ j > 0 /\ ~(e <= 3)
        BY <1>2, <3>2
      <4>2. s \in Nat /\ q \in Nat \ {0} /\ s >= 0 /\ s = ByteBits * j
        <5>. HIDE DEF j
        <5>1. ByteBits * j \in Nat /\ Pow2[ByteBits * j] \in Nat \ {0}
          BY <4>1, BytePowers
        <5>. QED BY <5>1 DEF j
      <4>3. v = m * q
        BY <3>0, <4>2
      <4>4. Leading(v, e) = m
        <5>1. Leading(v, e) = v \div q
          BY <4>1, <4>2 DEF Leading
        <5>. HIDE DEF q
        <5>2. v = q * m + 0 /\ 0 \in 0 .. q - 1 /\ m \in Int
          BY <1>2, <4>2, <4>3
        <5>3. v \div q = m
          BY <4>2, <5>2, DivModIs
        <5>. QED BY <5>1, <5>3
      <4>5. f <= e
        <5>1. Leading(v, e) < SignBit
          BY <1>2, <4>4, SignBitIs
        <5>. HIDE DEF e, f
        <5>. QED BY <1>1, <1>2, <2>1, <5>1, ExponentBound
      <4>6. k <= j
        BY <1>2, <2>1, <4>1, <4>5
      <4>. DEFINE i == j - k
                  g == Pow2[ByteBits * i]
      <4>7. i \in Nat /\ k + i = j
        BY <2>4, <4>1, <4>6
      <4>8. Pow2[ByteBits * (k + i)] = p * g /\ g \in Nat
        <5>. HIDE DEF i, k
        <5>. QED BY <2>4, <4>7, BytePowers
      <4>9. q = p * g
        BY <4>2, <4>7, <4>8
      <4>. HIDE DEF p, q, g
      <4>. DEFINE y == m * g
      <4>10. v = p * y + 0 /\ y \in Int /\ 0 \in 0 .. p - 1
        BY <1>2, <2>4, <4>3, <4>8, <4>9
      <4>. HIDE DEF y
      <4>11. (p * y + 0) % p = 0
        BY <2>4, <4>10, DivModIs
      <4>. QED BY <4>10, <4>11
    <3>. QED BY <1>2, <3>1, <3>2
  <2>6. Value(d) = v
    <3>. DEFINE x == Value(d)
                l == v - x
    <3>1. x \in Nat
      BY <2>3, ValueIn
    <3>. HIDE DEF x, p, v
    <3>2. x = p * (x \div p) + 0 /\ v = p * (v \div p) + 0 /\ x \div p \in Int /\ v \div p \in Int
      <4>1. x = p * (x \div p) + (x % p) /\ v = p * (v \div p) + (v % p)
            /\ x \div p \in Int /\ v \div p \in Int
        BY <1>1, <2>4, <3>1, DivMod
      <4>. QED BY <2>3, <2>5, <4>1 DEF x
    <3>. DEFINE a == x \div p
                b == v \div p
    <3>3. a \in Int /\ b \in Int /\ x = p * a /\ v = p * b
      BY <2>4, <3>2
    <3>. HIDE DEF a, b
    <3>4. l = p * (b - a) + 0
      BY <2>4, <3>3
    <3>5. l = p * 0 + l /\ l \in 0 .. p - 1 /\ l \in Int
      BY <1>1, <2>3, <2>4, <3>1 DEF x
    <3>. HIDE DEF l
    <3>6. l % p = 0 /\ l % p = l
      <4>1. b - a \in Int /\ 0 \in 0 .. p - 1
        BY <2>4, <3>3
      <4>2. (p * (b - a) + 0) % p = 0
        BY <2>4, <4>1, DivModIs
      <4>3. l % p = l
        BY <2>4, <3>5, ModNear
      <4>. QED BY <3>4, <4>2, <4>3
    <3>7. l = 0
      BY <3>6
    <3>. QED BY <1>1, <3>1, <3>7 DEF l, x
  <2>. HIDE DEF t, d
  <2>. QED BY <1>1, <2>3, <2>6, LessIs DEF v
<1>. QED BY <1>3, <1>4

-----------------------------------------------------------------------------
(* Share difficulties: the numerators and the divisors.                     *)

(* Difficulty one is so small that its scaled numerator loses no bit.       *)
LEMMA NumeratorsAre ==
    LET S == Pow2[ScaleBits]
        C == Value(DifficultyOne)
        N == Value(ShiftLeft(DifficultyOne, ScaleBits))
    IN  /\ S \in Nat \ {0} /\ Unit = 2 * S /\ Unit \in Nat \ {0} /\ Unit <= LimbBase
        /\ \E Q \in Nat \ {0} : LimbBase = S * Q
        /\ DifficultyOne \in UInts /\ C \in Nat \ {0} /\ \E H \in Nat \ {0} : C = LimbBase * H
        /\ ShiftLeft(DifficultyOne, ScaleBits) \in UInts /\ N = C * S
<1>. DEFINE S == Pow2[ScaleBits]
            Q == Pow2[LimbBits - ScaleBits]
            B == LimbBase
            A == DifficultyOneLimb
            K == B * (B * B)
            C == Value(DifficultyOne)
            T == ShiftLeft(DifficultyOne, ScaleBits)
<1>1. /\ ScaleBits \in Nat /\ LimbBits - ScaleBits \in Nat
      /\ ScaleBits + (LimbBits - ScaleBits) = LimbBits
      /\ ScaleBits + 1 \in Nat /\ LimbBits \in Nat
      /\ ScaleBits + 1 = LimbBits \/ ScaleBits + 1 < LimbBits
      /\ 3 * LimbBits \in Nat /\ Width - ScaleBits = 3 * LimbBits + (LimbBits - ScaleBits)
      /\ ~(ScaleBits >= Width) /\ Width - ScaleBits \in Nat
  BY ParametersAre
<1>2. S \in Nat \ {0} /\ Q \in Nat \ {0} /\ B \in Nat \ {0}
  BY <1>1, Pow2Positive, LimbBaseIs
<1>3. B = S * Q
  <2>1. Pow2[ScaleBits + (LimbBits - ScaleBits)] = Pow2[ScaleBits] * Pow2[LimbBits - ScaleBits]
    BY <1>1, Pow2Sum
  <2>. QED BY <1>1, <2>1 DEF LimbBase
<1>4. Unit = 2 * S /\ Unit \in Nat \ {0} /\ Unit <= B
  <2>1. Unit = 2 * S
    BY <1>1, Pow2Def DEF Unit
  <2>2. Pow2[ScaleBits + 1] <= Pow2[LimbBits]
    <3>1. Pow2[ScaleBits + 1] \in Nat /\ Pow2[LimbBits] \in Nat
      BY <1>1, Pow2Def
    <3>. QED BY <1>1, <3>1, Pow2Grows
  <2>. QED BY <1>2, <2>1, <2>2 DEF Unit, LimbBase
<1>5. A \in Nat \ {0} /\ A < Q /\ A < B
  <2>1. A \in 1 .. Q - 1
    BY ParametersAre
  <2>. HIDE DEF A, Q, S, B
  <2>2. Q <= S * Q
    <3>1. 0 <= (S - 1) * Q /\ (S - 1) * Q = S * Q - Q
      BY <1>2
    <3>. QED BY <1>2, <3>1
  <2>. QED BY <1>2, <1>3, <2>1, <2>2
<1>6. DifficultyOne \in UInts /\ DifficultyOne[0] = 0 /\ DifficultyOne[1] = 0
      /\ DifficultyOne[2] = 0 /\ DifficultyOne[3] = A
  BY <1>2, <1>5 DEF DifficultyOne, UInts, Limbs
<1>7. C = B * (B * (B * A))
  <2>1. C = 0 + B * (0 + B * (0 + B * A))
    BY <1>6 DEF Value
  <2>. HIDE DEF C, A, B
  <2>2. B * A \in Int /\ B * (B * A) \in Int /\ B * (B * (B * A)) \in Int
    BY <1>2, <1>5
  <2>. QED BY <2>1, <2>2
<1>. DEFINE H == B * (B * A)
<1>8. H \in Nat \ {0} /\ C = B * H /\ C \in Nat \ {0} /\ C = K * A /\ K \in Nat \ {0}
  <2>. HIDE DEF C, A, B
  <2>1. B * A \in Nat \ {0}
    BY <1>2, <1>5
  <2>2. H \in Nat \ {0}
    <3>. DEFINE y == B * A
    <3>1. y \in Nat \ {0}
      BY <2>1
    <3>. HIDE DEF y
    <3>2. B * y \in Nat \ {0}
      BY <1>2, <3>1
    <3>. QED BY <3>2 DEF y
  <2>3. C = B * H
    BY <1>7
  <2>4. C = K * A
    BY <1>2, <1>5, <1>7
  <2>. HIDE DEF H
  <2>5. C \in Nat \ {0}
    BY <1>2, <2>2, <2>3
  <2>6. K \in Nat \ {0}
    <3>. DEFINE z == B * B
    <3>1. z \in Nat \ {0}
      BY <1>2
    <3>. HIDE DEF z
    <3>2. B * z \in Nat \ {0}
      BY <1>2, <3>1
    <3>. QED BY <3>2 DEF z
  <2>. QED BY <2>2, <2>3, <2>4, <2>5, <2>6
<1>9. Pow2[Width - ScaleBits] = K * Q
  <2>1. Pow2[3 * LimbBits + (LimbBits - ScaleBits)]
          = Pow2[3 * LimbBits] * Pow2[LimbBits - ScaleBits]
    BY <1>1, Pow2Sum
  <2>. QED BY <1>1, <2>1, LimbPowers
<1>10. C % Pow2[Width - ScaleBits] = C
  <2>. DEFINE M == K * Q
  <2>. HIDE DEF C, K, A, Q
  <2>1. K * A < K * Q /\ M \in Nat \ {0}
    <3>1. K * (Q - A) > 0 /\ K * (Q - A) = K * Q - K * A /\ K * Q \in Nat /\ K * A \in Nat
      BY <1>2, <1>5, <1>8
    <3>. QED BY <3>1
  <2>2. C \in 0 .. M - 1 /\ C \in Int
    BY <1>8, <2>1
  <2>. HIDE DEF M
  <2>3. C % M = C
    BY <2>1, <2>2, ModNear
  <2>. QED BY <1>9, <2>3 DEF M
<1>11. T \in UInts /\ Value(T) = C * S
  <2>1. Value(T) = (C % Pow2[Width - ScaleBits]) * S
    BY <1>1, <1>6, ShiftLeftExact
  <2>2. T \in UInts
    BY <1>1, <1>6, ShiftLeftExact
  <2>. QED BY <1>10, <2>1, <2>2
<1>. HIDE DEF S, Q, C, T, H
<1>. QED BY <1>2, <1>3, <1>4, <1>6, <1>8, <1>11 DEF S, C, T

(* UInt256::max() is the highest number.                                    *)
LEMMA LargestIs == Largest \in UInts /\ Value(Largest) = Space - 1
<1>. DEFINE B == LimbBase
<1>1. B \in Nat \ {0} /\ Space = B * (B * (B * B))
  BY LimbBaseIs
<1>2. Largest \in UInts /\ Value(Largest) = (B - 1) + B * ((B - 1) + B * ((B - 1) + B * (B - 1)))
  BY <1>1 DEF Largest, UInts, Limbs, Value
<1>. HIDE DEF B
<1>3. B * (B - 1) = B * B - B
  BY <1>1
<1>. DEFINE x == B * B  y == B * x
<1>4. x \in Int /\ y \in Int /\ (B - 1) + B * (B - 1) = x - 1
  BY <1>1, <1>3
<1>5. B * (x - 1) = y - B
  BY <1>1, <1>4
<1>6. (B - 1) + B * (x - 1) = y - 1
  BY <1>1, <1>4, <1>5
<1>7. B * (y - 1) = B * y - B
  <2>. HIDE DEF y
  <2>. QED BY <1>1, <1>4
<1>8. Space = B * y /\ B * y \in Int
  BY <1>1
<1>9. Value(Largest) = (B - 1) + B * (y - 1)
  BY <1>2, <1>4, <1>6
<1>. HIDE DEF y
<1>. QED BY <1>1, <1>2, <1>4, <1>7, <1>8, <1>9

(* The divisors of targetFromShareDifficulty() fit in a limb.               *)
LEMMA DivisorsAre ==
    ASSUME NEW d \in 2 .. Unit * LimbBase - 1
    PROVE  /\ IsLarge(d) => Whole(d) \in 2 .. LimbBase - 1
           /\ ~IsLarge(d) => Scaled(d) \in 1 .. LimbBase - 1
<1>. DEFINE B == LimbBase
            U == Unit
<1>1. B \in Nat \ {0} /\ U \in Nat \ {0} /\ U <= B /\ d \in Int /\ d >= 2 /\ d < U * B
  BY LimbBaseIs, NumeratorsAre
<1>2. IsLarge(d) <=> d >= 2 * B
  BY DEF IsLarge
<1>3. Whole(d) = d \div U /\ Scaled(d) = d \div 2
  BY DEF Whole, Scaled
<1>. HIDE DEF B, U
<1>4. ASSUME d >= 2 * B PROVE d \div U \in 2 .. B - 1
  <2>. DEFINE w == d \div U
  <2>1. /\ w \in Int /\ (2 <= w <=> 2 * U <= d) /\ (B <= w <=> B * U <= d)
    <3>1. w \in Int
      BY <1>1, DivMod
    <3>. QED BY <1>1, <3>1, QuotientAtLeast
  <2>2. B * U = U * B /\ U * B \in Int
    BY <1>1
  <2>. HIDE DEF w
  <2>3. 2 <= w /\ ~(B <= w)
    BY <1>1, <1>4, <2>1, <2>2
  <2>4. w \in 2 .. B - 1
    BY <1>1, <2>1, <2>3
  <2>. QED BY <2>4 DEF w
<1>5. ASSUME ~(d >= 2 * B) PROVE d \div 2 \in 1 .. B - 1
  BY <1>1, <1>5
<1>. QED BY <1>2, <1>3, <1>4, <1>5 DEF B

(* The target of a difficulty: the quotient of difficulty one by it.        *)
LEMMA ShareTargetIs ==
    ASSUME NEW d \in 1 .. Unit * LimbBase - 1
    PROVE  LET T == TargetFromShareDifficulty(d)
               C == Value(DifficultyOne)
           IN  /\ T \in UInts
               /\ d < 2 => Value(T) = Space - 1
               /\ d >= 2 /\ IsLarge(d) => Value(T) = C \div Whole(d)
               /\ d >= 2 /\ ~IsLarge(d) => Value(T) = (C * Pow2[ScaleBits]) \div Scaled(d)
<1>. DEFINE T == TargetFromShareDifficulty(d)
<1>1. d \in Int /\ ~(d <= 0)
  BY NumeratorsAre, LimbBaseIs
<1>2. CASE d < 2
  BY <1>1, <1>2, LargestIs DEF TargetFromShareDifficulty
<1>3. CASE ~(d < 2)
  <2>1. d \in 2 .. Unit * LimbBase - 1
    BY <1>1, <1>3, NumeratorsAre, LimbBaseIs
  <2>2. CASE IsLarge(d)
    <3>1. Whole(d) \in 0 .. LimbBase - 1 /\ Whole(d) > 0
      BY <2>1, <2>2, DivisorsAre, LimbBaseIs
    <3>2. /\ FromLimb(Whole(d)) \in UInts /\ Value(FromLimb(Whole(d))) = Whole(d)
          /\ ~IsZero(FromLimb(Whole(d)))
      <4>1. FromLimb(Whole(d)) \in UInts /\ Value(FromLimb(Whole(d))) = Whole(d)
        BY <3>1, FromLimbIs
      <4>. QED BY <3>1, <4>1, IsZeroIs
    <3>3. T = Divide(DifficultyOne, FromLimb(Whole(d)))
      BY <1>1, <1>3, <2>2 DEF TargetFromShareDifficulty
    <3>. QED BY <1>3, <2>2, <3>2, <3>3, DivideExact, NumeratorsAre
  <2>3. CASE ~IsLarge(d)
    <3>1. Scaled(d) \in 0 .. LimbBase - 1 /\ Scaled(d) > 0
      BY <2>1, <2>3, DivisorsAre, LimbBaseIs
    <3>2. /\ FromLimb(Scaled(d)) \in UInts /\ Value(FromLimb(Scaled(d))) = Scaled(d)
          /\ ~IsZero(FromLimb(Scaled(d)))
      <4>1. FromLimb(Scaled(d)) \in UInts /\ Value(FromLimb(Scaled(d))) = Scaled(d)
        BY <3>1, FromLimbIs
      <4>. QED BY <3>1, <4>1, IsZeroIs
    <3>3. T = Divide(ShiftLeft(DifficultyOne, ScaleBits), FromLimb(Scaled(d)))
      BY <1>1, <1>3, <2>3 DEF TargetFromShareDifficulty
    <3>. QED BY <1>3, <2>3, <3>2, <3>3, DivideExact, NumeratorsAre
  <2>. QED BY <2>2, <2>3
<1>. QED BY <1>2, <1>3

(* A larger divisor has no larger quotient.                                 *)
LEMMA QuotientFalls ==
    ASSUME NEW x \in Nat, NEW a \in Nat \ {0}, NEW b \in Nat \ {0}, a <= b
    PROVE  x \div b <= x \div a
<1>. DEFINE k == x \div b
<1>1. k \in Nat /\ k * b <= x
  BY QuotientIn
<1>. HIDE DEF k
<1>2. k * a <= k * b
  <2>1. k * (b - a) >= 0 /\ k * (b - a) = k * b - k * a /\ k * b \in Int /\ k * a \in Int
    BY <1>1
  <2>. QED BY <2>1
<1>3. k * a <= x
  BY <1>1, <1>2
<1>4. k <= x \div a
  BY <1>1, <1>3, QuotientAtLeast
<1>. QED BY <1>4 DEF k

(* A harder share has no easier target, also across the change of scale.    *)
LEMMA HarderSmaller ==
    \A d \in 1 .. Unit * LimbBase - 2 : HarderIsSmaller(d)
<1>. SUFFICES ASSUME NEW d \in 1 .. Unit * LimbBase - 2 PROVE HarderIsSmaller(d)
  OBVIOUS
<1>. DEFINE B == LimbBase
            U == Unit
            S == Pow2[ScaleBits]
            C == Value(DifficultyOne)
            N == C * S
            new == TargetFromShareDifficulty(d + 1)
            old == TargetFromShareDifficulty(d)
<1>1. B \in Nat /\ B >= 2 /\ S \in Nat \ {0} /\ U = 2 * S /\ C \in Nat \ {0} /\ N \in Nat
      /\ d \in Nat /\ d >= 1 /\ U * B \in Int
  <2>1. B \in Nat /\ B >= 2 /\ S \in Nat \ {0} /\ U = 2 * S /\ U \in Nat /\ C \in Nat \ {0}
    BY LimbBaseIs, NumeratorsAre
  <2>. HIDE DEF B, S, U, C
  <2>. QED BY <2>1 DEF B, U
<1>2. d \in 1 .. U * B - 1 /\ d + 1 \in 1 .. U * B - 1
  <2>. DEFINE z == U * B
  <2>1. z \in Int /\ d \in 1 .. z - 2
    BY <1>1
  <2>. HIDE DEF z
  <2>2. d \in 1 .. z - 1 /\ d + 1 \in 1 .. z - 1
    BY <2>1
  <2>. QED BY <2>2 DEF z
<1>3. new \in UInts /\ old \in UInts
  BY <1>2, ShareTargetIs
<1>4. Value(new) <= Value(old)
  <2>1. CASE d = 1
    <3>1. d < 2
      BY <2>1
    <3>2. Value(old) = Space - 1
      BY <1>2, <3>1, ShareTargetIs
    <3>. QED BY <1>3, <3>2, ValueIn, LimbBaseIs
  <2>2. CASE d >= 2
    <3>1. d + 1 >= 2 /\ d \in 2 .. U * B - 1 /\ d + 1 \in 2 .. U * B - 1
      <4>. DEFINE z == U * B
      <4>1. z \in Int /\ d \in 1 .. z - 1 /\ d + 1 \in 1 .. z - 1
        BY <1>1, <1>2
      <4>. HIDE DEF z
      <4>2. d + 1 >= 2 /\ d \in 2 .. z - 1 /\ d + 1 \in 2 .. z - 1
        BY <1>1, <2>2, <4>1
      <4>. QED BY <4>2 DEF z
    <3>2. /\ IsLarge(d) <=> d >= 2 * B
          /\ IsLarge(d + 1) <=> d + 1 >= 2 * B
      BY DEF IsLarge
    <3>3. CASE IsLarge(d)
      <4>1. IsLarge(d + 1)
        BY <1>1, <3>2, <3>3
      <4>2. Value(old) = C \div Whole(d) /\ Value(new) = C \div Whole(d + 1)
        BY <1>2, <2>2, <3>1, <3>3, <4>1, ShareTargetIs
      <4>3. Whole(d) \in Nat \ {0} /\ Whole(d + 1) \in Nat \ {0}
        <5>1. Whole(d) \in 2 .. B - 1 /\ Whole(d + 1) \in 2 .. B - 1
          BY <3>1, <3>3, <4>1, DivisorsAre
        <5>. QED BY <5>1
      <4>4. Whole(d) <= Whole(d + 1)
        <5>. DEFINE k == d \div U
        <5>1. k \in Nat /\ k * U <= d /\ k * U \in Int /\ U \in Nat \ {0}
          BY <1>1, QuotientIn
        <5>. HIDE DEF k, U
        <5>2. k * U <= d + 1
          BY <1>1, <5>1
        <5>3. k <= (d + 1) \div U
          BY <1>1, <5>1, <5>2, QuotientAtLeast
        <5>. QED BY <5>3 DEF Whole, k, U
      <4>. HIDE DEF C
      <4>. QED BY <1>1, <4>2, <4>3, <4>4, QuotientFalls
    <3>4. CASE ~IsLarge(d) /\ ~IsLarge(d + 1)
      <4>2. Value(old) = N \div Scaled(d) /\ Value(new) = N \div Scaled(d + 1)
        BY <1>2, <2>2, <3>1, <3>4, ShareTargetIs
      <4>3. Scaled(d) \in Nat \ {0} /\ Scaled(d + 1) \in Nat \ {0}
        <5>1. Scaled(d) \in 1 .. B - 1 /\ Scaled(d + 1) \in 1 .. B - 1
          BY <3>1, <3>4, DivisorsAre
        <5>. QED BY <5>1
      <4>4. Scaled(d) <= Scaled(d + 1)
        BY <1>1 DEF Scaled
      <4>. HIDE DEF N
      <4>. QED BY <1>1, <4>2, <4>3, <4>4, QuotientFalls
    <3>5. CASE ~IsLarge(d) /\ IsLarge(d + 1)
      <4>1. d + 1 = 2 * B
        BY <1>1, <3>2, <3>5
      <4>2. Scaled(d) = B - 1
        BY <1>1, <4>1 DEF Scaled
      <4>3. PICK Q \in Nat \ {0} : B = S * Q
        BY NumeratorsAre
      <4>4. Whole(d + 1) = Q
        <5>1. d + 1 = U * Q + 0 /\ 0 \in 0 .. U - 1 /\ U \in Nat \ {0} /\ Q \in Int
          BY <1>1, <4>1, <4>3
        <5>. HIDE DEF U
        <5>2. (U * Q + 0) \div U = Q
          BY <5>1, DivModIs
        <5>. QED BY <5>1, <5>2 DEF Whole, U
      <4>5. Value(new) = C \div Q /\ Value(old) = N \div (B - 1)
        BY <1>2, <2>2, <3>1, <3>5, <4>2, <4>4, ShareTargetIs
      <4>. DEFINE k == C \div Q
                  b == B - 1
      <4>6. k \in Nat /\ k * Q <= C /\ k * Q \in Int
        BY <1>1, <4>3, QuotientIn
      <4>. HIDE DEF k, B, S, C
      <4>7. k * b <= N
        <5>1. k * b = k * B - k /\ k * B \in Int /\ k * b \in Int
          BY <1>1, <4>6
        <5>2. k * B = (k * Q) * S
          BY <1>1, <4>3, <4>6
        <5>3. (k * Q) * S <= C * S
          <6>. DEFINE z == k * Q
          <6>1. z \in Int /\ z <= C
            BY <4>6
          <6>. HIDE DEF z
          <6>2. z * S <= C * S
            BY <1>1, <6>1, TimesOrder
          <6>. QED BY <6>2 DEF z
        <5>. HIDE DEF b
        <5>. QED BY <1>1, <4>6, <5>1, <5>2, <5>3
      <4>8. b \in Nat \ {0}
        BY <1>1
      <4>. HIDE DEF b, N
      <4>9. k <= N \div b
        BY <1>1, <4>6, <4>7, <4>8, QuotientAtLeast
      <4>. QED BY <4>5, <4>9 DEF k, b
    <3>. QED BY <3>3, <3>4, <3>5
  <2>. QED BY <1>1, <2>1, <2>2
<1>. QED BY <1>3, <1>4, LessIs DEF HarderIsSmaller

(* Meeting the target of a difficulty is being ranked as that high.         *)
LEMMA RankingExact ==
    \A hash \in UInts, d \in 1 .. Unit * LimbBase - 1 : RanksLikeItsTarget(hash, d)
<1>. SUFFICES ASSUME NEW hash \in UInts, NEW d \in 1 .. Unit * LimbBase - 1
              PROVE  RanksLikeItsTarget(hash, d)
  OBVIOUS
<1>. DEFINE B == LimbBase
            S == Pow2[ScaleBits]
            C == Value(DifficultyOne)
            N == C * S
            T == TargetFromShareDifficulty(d)
            v == Value(T)
            h == Value(hash)
            r == Value(ShareDifficultyOfHash(hash))
            w == Whole(d)
            s == Scaled(d)
            meets == HashMeetsTarget(hash, T)
<1>0. d \in Nat /\ d >= 1
  BY NumeratorsAre, LimbBaseIs
<1>1. /\ B \in Nat /\ B >= 2 /\ S \in Nat \ {0} /\ S <= B
      /\ C \in Nat \ {0} /\ B <= C /\ N \in Nat /\ C <= N
  <2>1. PICK Q \in Nat \ {0} : B = S * Q
    BY NumeratorsAre
  <2>2. PICK H \in Nat \ {0} : C = B * H
    BY NumeratorsAre
  <2>3. B \in Nat /\ B >= 2 /\ S \in Nat \ {0} /\ C \in Nat \ {0}
    BY LimbBaseIs, NumeratorsAre
  <2>. HIDE DEF B, S, C
  <2>4. S * (Q - 1) >= 0 /\ S * (Q - 1) = S * Q - S /\ S * Q \in Int
    BY <2>1, <2>3
  <2>5. B * (H - 1) >= 0 /\ B * (H - 1) = B * H - B /\ B * H \in Int
    BY <2>2, <2>3
  <2>6. C * (S - 1) >= 0 /\ C * (S - 1) = C * S - C /\ C * S \in Int
    BY <2>3
  <2>. HIDE DEF N
  <2>. QED BY <2>1, <2>2, <2>3, <2>4, <2>5, <2>6 DEF N
<1>2. T \in UInts /\ v \in Nat /\ h \in Nat
  BY ShareTargetIs, ValueIn
<1>3. meets <=> v # 0 /\ h <= v
  <2>. HIDE DEF T
  <2>. QED BY <1>2, IsZeroIs, LessIs DEF HashMeetsTarget
<1>4. /\ h = 0 => r = Space - 1
      /\ h # 0 => r = N \div h
  <2>1. CASE h = 0
    <3>1. IsZero(hash)
      BY <2>1, IsZeroIs
    <3>. QED BY <2>1, <3>1, LargestIs DEF ShareDifficultyOfHash
  <2>2. CASE h # 0
    <3>1. ~IsZero(hash)
      BY <2>2, IsZeroIs
    <3>. QED BY <2>2, <3>1, DivideExact, NumeratorsAre DEF ShareDifficultyOfHash
  <2>. QED BY <2>1, <2>2
<1>5. ASSUME IsLarge(d), meets PROVE r >= w * S
  <2>1. d >= 2 /\ d \in 2 .. Unit * B - 1
    <3>1. d >= 2
      BY <1>0, <1>1, <1>5 DEF IsLarge
    <3>. QED BY <1>0, <3>1, NumeratorsAre, LimbBaseIs
  <2>2. w \in 2 .. B - 1 /\ v = C \div w
    BY <1>5, <2>1, DivisorsAre, ShareTargetIs
  <2>3. h <= v
    BY <1>3, <1>5
  <2>. HIDE DEF w, v, h, r, S, C, B, meets, N
  <2>4. w \in Nat \ {0} /\ w * S \in Nat
    BY <1>1, <2>2
  <2>5. CASE h = 0
    <3>. DEFINE y == B * B
    <3>1. w * S <= y
      <4>1. (B - w) * S >= 0 /\ (B - w) * S = B * S - w * S /\ B * S \in Int
        BY <1>1, <2>2
      <4>2. B * (B - S) >= 0 /\ B * (B - S) = B * B - B * S /\ y \in Int
        BY <1>1
      <4>. HIDE DEF y
      <4>. QED BY <2>4, <4>1, <4>2 DEF y
    <3>2. Space = y * y /\ y \in Nat /\ y >= 4
      <4>1. Space = B * (B * (B * B))
        BY LimbBaseIs DEF B
      <4>2. B * (B * (B * B)) = (B * B) * (B * B)
        BY <1>1
      <4>3. (B - 2) * (B + 2) >= 0 /\ (B - 2) * (B + 2) = B * B - 4 /\ B * B \in Int
        BY <1>1
      <4>. QED BY <4>1, <4>2, <4>3
    <3>. HIDE DEF y
    <3>3. y * y >= y + 1
      <4>1. y * (y - 2) >= 0 /\ y * (y - 2) = y * y - 2 * y /\ y * y \in Int
        BY <3>2
      <4>. QED BY <3>2, <4>1
    <3>4. y * y \in Int
      BY <3>2
    <3>5. r = Space - 1
      BY <1>4, <2>5 DEF h, r
    <3>. QED BY <2>4, <3>1, <3>2, <3>3, <3>4, <3>5
  <2>6. CASE h # 0
    <3>1. h * w <= C
      BY <1>1, <1>2, <2>2, <2>3, <2>4, QuotientAtLeast
    <3>2. (h * w) * S <= C * S
      <4>. DEFINE z == h * w
      <4>1. z \in Int /\ z <= C
        BY <1>2, <2>4, <3>1
      <4>. HIDE DEF z
      <4>2. z * S <= C * S
        BY <1>1, <4>1, TimesOrder
      <4>. QED BY <4>2 DEF z
    <3>3. (w * S) * h <= N
      <4>1. (w * S) * h = (h * w) * S
        BY <1>1, <1>2, <2>4
      <4>. QED BY <3>2, <4>1 DEF N
    <3>4. w * S <= N \div h
      <4>. DEFINE z == w * S
      <4>1. z \in Int /\ z * h <= N /\ h \in Nat \ {0}
        BY <1>2, <2>4, <2>6, <3>3
      <4>. HIDE DEF z
      <4>2. z <= N \div h
        BY <1>1, <4>1, QuotientAtLeast
      <4>. QED BY <4>2 DEF z
    <3>5. r = N \div h
      BY <1>4, <2>6
    <3>. DEFINE q == N \div h
                z == w * S
    <3>6. q \in Int /\ z \in Int
      BY <1>1, <1>2, <2>4, <2>6, DivMod
    <3>. HIDE DEF q, z
    <3>. QED BY <3>4, <3>5, <3>6 DEF q, z
  <2>. QED BY <2>5, <2>6
<1>6. ASSUME ~IsLarge(d), d >= 2 PROVE meets <=> r >= s
  <2>1. d \in 2 .. Unit * B - 1
    BY <1>0, <1>6, NumeratorsAre, LimbBaseIs
  <2>2. s \in 1 .. B - 1 /\ v = N \div s
    BY <1>6, <2>1, DivisorsAre, ShareTargetIs
  <2>3. Space >= B /\ Space \in Nat
    <3>1. Space = B * (B * (B * B)) /\ Space \in Nat
      BY LimbBaseIs
    <3>. HIDE DEF B
    <3>. DEFINE y == B * (B * B)
    <3>2. y \in Nat \ {0}
      <4>. DEFINE z == B * B
      <4>1. z \in Nat \ {0}
        BY <1>1
      <4>. HIDE DEF z
      <4>2. B * z \in Nat \ {0}
        BY <1>1, <4>1
      <4>. QED BY <4>2 DEF z
    <3>. HIDE DEF y
    <3>3. B * (y - 1) >= 0 /\ B * (y - 1) = B * y - B /\ B * y \in Int
      BY <1>1, <3>2
    <3>4. Space = B * y
      BY <3>1 DEF y
    <3>. QED BY <1>1, <3>1, <3>3, <3>4
  <2>. HIDE DEF s, v, h, r, S, C, B, meets, N
  <2>4. s \in Nat \ {0}
    BY <1>1, <2>2
  <2>5. v # 0
    <3>1. 1 * s <= N
      BY <1>1, <2>2
    <3>2. 1 <= N \div s
      <4>1. 1 \in Int
        OBVIOUS
      <4>. QED BY <1>1, <2>4, <3>1, <4>1, QuotientAtLeast
    <3>. QED BY <1>1, <1>2, <2>2, <3>2
  <2>6. h <= v <=> h * s <= N
    BY <1>1, <1>2, <2>2, <2>4, QuotientAtLeast
  <2>7. CASE h = 0
    <3>1. r = Space - 1 /\ h <= v
      BY <1>2, <1>4, <2>7
    <3>2. r >= s
      BY <1>1, <2>2, <2>3, <3>1
    <3>. QED BY <1>3, <2>5, <3>1, <3>2
  <2>8. CASE h # 0
    <3>1. r = N \div h /\ h \in Nat \ {0}
      BY <1>2, <1>4, <2>8
    <3>2. s <= N \div h <=> s * h <= N
      BY <1>1, <2>4, <3>1, QuotientAtLeast
    <3>3. s * h = h * s
      BY <1>2, <2>4
    <3>4. r \in Int
      BY <1>1, <3>1, DivMod
    <3>5. r >= s <=> s <= r
      BY <2>4, <3>4
    <3>. QED BY <1>3, <2>5, <2>6, <3>1, <3>2, <3>3, <3>5
  <2>. QED BY <2>7, <2>8
<1>. HIDE DEF r, w, s, T, meets
<1>. QED BY <1>5, <1>6 DEF RanksLikeItsTarget, r, w, s, T, meets
=============================================================================
