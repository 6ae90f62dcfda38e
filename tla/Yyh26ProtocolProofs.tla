------------------------ MODULE Yyh26ProtocolProofs ------------------------
(***************************************************************************)
(* Proofs about Yyh26Protocol, for any number of parties, any primes above *)
(* it, any slots, thresholds and leaders, whatever is drawn and in every   *)
(* order of the meetings: when the parties' sets are alike, the leader     *)
(* finds x if and only if enough parties have it.  Parties whose sets are  *)
(* not alike end their processes at any point of it.                       *)
(*                                                                         *)
(* First, arithmetic modulo a prime, sums over finite sets, and Lagrange   *)
(* interpolation at zero: its weights add up to one, and they annul every  *)
(* positive power of the points below the threshold.  So the shares of a   *)
(* polynomial with few enough coefficients give its value at zero, and     *)
(* sharings of zero do not change it.  What the folds of the library do to *)
(* a set is proved by taking a smallest set of which it is false.          *)
(*                                                                         *)
(* Then the programs: which meeting stands at which position.  A member    *)
(* passes every position once, so its position says which terms are in     *)
(* which sum: that is the invariant.                                       *)
(***************************************************************************)
EXTENDS Yyh26Protocol, FiniteSetTheorems, WellFoundedInduction, TLAPS

-----------------------------------------------------------------------------
(* Arithmetic modulo p.                                                    *)
LEMMA Division ==
  ASSUME NEW p \in Nat \ {0}, NEW a \in Int
  PROVE  a % p \in 0..(p - 1) /\ a \div p \in Int /\ a = p * (a \div p) + (a % p)
OBVIOUS

(* A remainder is the only one.                                            *)
LEMMA OneRemainder ==
  ASSUME NEW p \in Nat \ {0}, NEW q \in Int, NEW r \in 0..(p - 1)
  PROVE  (p * q + r) % p = r
<1> DEFINE a == p * q + r
           k == a \div p
<1>1. a \in Int /\ a % p \in 0..(p - 1) /\ k \in Int /\ a = p * k + (a % p)
  <2>1. a \in Int
    OBVIOUS
  <2> HIDE DEF a
  <2> QED
    BY <2>1, Division
<1> HIDE DEF k
<1>2. p * (k - q) = r - (a % p)
  BY <1>1
<1>3. r - (a % p) < p /\ r - (a % p) > 0 - p
  BY <1>1
<1> DEFINE d == k - q
<1>4. d \in Int /\ p * d < p /\ p * d > 0 - p
  BY <1>1, <1>2, <1>3
<1> HIDE DEF d
<1>5. ~ d >= 1
  <2> SUFFICES ASSUME d >= 1 PROVE FALSE
    OBVIOUS
  <2>1. p * d >= p * 1
    BY <1>4
  <2> QED
    BY <1>4, <2>1
<1>6. ~ d <= 0 - 1
  <2> SUFFICES ASSUME d <= 0 - 1 PROVE FALSE
    OBVIOUS
  <2>1. p * d <= p * (0 - 1)
    BY <1>4
  <2> QED
    BY <1>4, <2>1
<1>7. k = q
  BY <1>1, <1>4, <1>5, <1>6 DEF d
<1> QED
  BY <1>1, <1>7

(* Congruence.                                                             *)
Same(p, a, b) == a % p = b % p

(* Two numbers are congruent when they differ by a multiple of p.          *)
LEMMA SameIff ==
  ASSUME NEW p \in Nat \ {0}, NEW a \in Int, NEW b \in Int
  PROVE  /\ Same(p, a, b) => \E k \in Int : a = b + p * k
         /\ \A k \in Int : a = b + p * k => Same(p, a, b)
<1>1. /\ (a % p) \in 0..(p - 1) /\ a \div p \in Int /\ a = p * (a \div p) + (a % p)
      /\ (b % p) \in 0..(p - 1) /\ b \div p \in Int /\ b = p * (b \div p) + (b % p)
  BY Division
<1>2. ASSUME Same(p, a, b) PROVE \E k \in Int : a = b + p * k
  <2> DEFINE k == (a \div p) - (b \div p)
  <2>1. k \in Int /\ a = b + p * k
    BY <1>1, <1>2 DEF Same
  <2> QED
    BY <2>1
<1>3. ASSUME NEW k \in Int, a = b + p * k PROVE Same(p, a, b)
  <2> DEFINE q == (b \div p) + k
             r == b % p
  <2>1. q \in Int /\ r \in 0..(p - 1)
    BY <1>1
  <2>2. a = p * q + r
    BY <1>1, <1>3
  <2> HIDE DEF q, r
  <2>3. a % p = r
    BY <2>1, <2>2, OneRemainder
  <2> QED
    BY <2>3 DEF Same, r
<1> QED
  BY <1>2, <1>3

(* A remainder is congruent to its number, and is it below p.              *)
LEMMA SameMod ==
  ASSUME NEW p \in Nat \ {0}, NEW a \in Int
  PROVE  /\ (a % p) \in 0..(p - 1) /\ (a % p) \in Int /\ Same(p, (a % p), a)
         /\ a \in 0..(p - 1) => a % p = a
<1>1. (a % p) \in 0..(p - 1) /\ a \div p \in Int /\ a = p * (a \div p) + (a % p)
  BY Division
<1>2. ASSUME a \in 0..(p - 1) PROVE a % p = a
  <2>1. a = p * 0 + a
    OBVIOUS
  <2> QED
    BY <1>2, <2>1, OneRemainder
<1>3. Same(p, (a % p), a)
  <2>1. ((a % p) % p) = a % p
    <3> DEFINE r == a % p
    <3>1. r \in 0..(p - 1) /\ r = p * 0 + r
      BY <1>1
    <3> HIDE DEF r
    <3>2. r % p = r
      BY <3>1, OneRemainder
    <3> QED
      BY <3>2 DEF r
  <2> QED
    BY <2>1 DEF Same
<1> QED
  BY <1>1, <1>2, <1>3

(* Congruences add, subtract and multiply, and may be turned round.        *)
LEMMA SameOps ==
  ASSUME NEW p \in Nat \ {0}, NEW a \in Int, NEW b \in Int, NEW c \in Int, NEW d \in Int,
         Same(p, a, b), Same(p, c, d)
  PROVE  /\ Same(p, a + c, b + d) /\ Same(p, a - c, b - d) /\ Same(p, a * c, b * d)
         /\ Same(p, b, a)
<1>1. PICK k \in Int : a = b + p * k
  BY SameIff
<1>2. PICK l \in Int : c = d + p * l
  BY SameIff
<1>3. Same(p, a + c, b + d)
  <2>1. k + l \in Int /\ a + c = (b + d) + p * (k + l) /\ a + c \in Int /\ b + d \in Int
    BY <1>1, <1>2
  <2> QED
    BY <2>1, SameIff
<1>4. Same(p, a - c, b - d)
  <2>1. k - l \in Int /\ a - c = (b - d) + p * (k - l) /\ a - c \in Int /\ b - d \in Int
    BY <1>1, <1>2
  <2> QED
    BY <2>1, SameIff
<1>5. Same(p, a * c, b * d)
  <2> DEFINE n == b * l + k * d + p * (k * l)
  <2>1. n \in Int /\ a * c \in Int /\ b * d \in Int
    OBVIOUS
  <2>2. a * c = b * d + p * n
    BY <1>1, <1>2
  <2> HIDE DEF n
  <2> QED
    BY <2>1, <2>2, SameIff
<1> QED
  BY <1>3, <1>4, <1>5 DEF Same

(* Of a set of numbers, one is the least.                                  *)
LEMMA LeastOf ==
  ASSUME NEW T \in SUBSET Nat, T # {}
  PROVE  \E i \in T : \A j \in T : ~ j < i
<1>1. \E i \in T : \A j \in T : <<j, i>> \notin OpToRel(<, Nat)
  BY NatLessThanWellFounded, WFMin
<1> QED
  BY <1>1 DEF OpToRel

(* What is not zero modulo a prime has an inverse: the least number that   *)
(* had none would leave a smaller one, as the remainder of the prime.      *)
LEMMA Inverses ==
  ASSUME NEW p \in Nat, p >= 2, \A d \in 2..(p - 1) : p % d # 0
  PROVE  \A a \in 1..(p - 1) : \E i \in 1..(p - 1) : (a * i) % p = 1
<1> DEFINE Bad == {a \in 1..(p - 1) : ~ \E i \in 1..(p - 1) : (a * i) % p = 1}
<1> SUFFICES ASSUME Bad # {} PROVE FALSE
  OBVIOUS
<1>1. PICK a \in Bad : \A b \in Bad : ~ b < a
  <2>1. Bad \in SUBSET Nat
    OBVIOUS
  <2> HIDE DEF Bad
  <2> QED
    BY <2>1, LeastOf
<1>2. a \in 1..(p - 1) /\ \A i \in 1..(p - 1) : (a * i) % p # 1
  OBVIOUS
<1>3. a # 1
  <2> SUFFICES ASSUME a = 1 PROVE FALSE
    OBVIOUS
  <2>1. (a * 1) % p = 1
    BY SameMod
  <2> QED
    BY <1>2, <2>1
<1> DEFINE r == p % a
           q == p \div a
<1>4. r \in 0..(a - 1) /\ q \in Int /\ p = a * q + r
  BY <1>2, Division
<1>5. r # 0
  <2>1. a \in 2..(p - 1)
    BY <1>2, <1>3
  <2> QED
    BY <2>1
<1> HIDE DEF r, q
<1>6. r \notin Bad /\ r \in 1..(p - 1)
  <2>1. r < a /\ r \in 1..(p - 1)
    BY <1>2, <1>4, <1>5
  <2> HIDE DEF Bad
  <2> QED
    BY <1>1, <2>1
<1>7. PICK j \in 1..(p - 1) : (r * j) % p = 1
  BY <1>6
<1> HIDE DEF Bad
<1> DEFINE n == 0 - (q * j)
           i == n % p
<1>8. n \in Int /\ i \in 0..(p - 1) /\ Same(p, i, n)
  <2>1. n \in Int
    BY <1>4
  <2> HIDE DEF n
  <2> QED
    BY <2>1, SameMod
<1>9. Same(p, a * n, r * j)
  <2>1. a * n = r * j + p * (0 - j)
    BY <1>2, <1>4
  <2>2. a * n \in Int /\ r * j \in Int /\ 0 - j \in Int
    BY <1>2, <1>4, <1>8
  <2> DEFINE b == a * n
             c == r * j
             k == 0 - j
  <2>3. b \in Int /\ c \in Int /\ k \in Int /\ b = c + p * k
    BY <2>1, <2>2
  <2> HIDE DEF b, c, k
  <2>4. Same(p, b, c)
    <3>1. p \in Nat \ {0}
      OBVIOUS
    <3> QED
      BY <2>3, <3>1, SameIff
  <2> QED
    BY <2>4 DEF b, c
<1>10. Same(p, a * i, a * n)
  <2>1. Same(p, a, a)
    BY DEF Same
  <2> HIDE DEF n, i
  <2> QED
    BY <1>2, <1>8, <2>1, SameOps
<1> HIDE DEF n, i
<1>11. (a * i) % p = 1
  BY <1>7, <1>9, <1>10 DEF Same
<1>12. i # 0
  <2> SUFFICES ASSUME i = 0 PROVE FALSE
    OBVIOUS
  <2>1. a * i = 0 /\ 0 % p = 0
    BY <1>2, SameMod
  <2> QED
    BY <1>11, <2>1
<1> QED
  BY <1>2, <1>8, <1>11, <1>12

-----------------------------------------------------------------------------
(* Folds over finite sets.  A step h[i] takes a value to a value; the order*)
(* is that of a choice c.                                                  *)
IsFold(g, S, c, A, h, base) ==
    /\ g \in [SUBSET S -> A]
    /\ g[{}] = base
    /\ \A T \in SUBSET S : T # {} => g[T] = h[c[T]][g[T \ {c[T]}]]

(* Among sets of elements of S there is a smallest one: taking any element *)
(* away leaves the collection.                                             *)
LEMMA SmallestBad ==
  ASSUME NEW S, IsFiniteSet(S), NEW Bad \in SUBSET SUBSET S, Bad # {}
  PROVE  \E T \in Bad : \A i \in T : T \ {i} \notin Bad
<1> DEFINE Sizes == {Cardinality(T) : T \in Bad}
<1>1. \A T \in SUBSET S : IsFiniteSet(T) /\ Cardinality(T) \in Nat
  BY FS_Subset, FS_CardinalityType
<1>2. PICK n \in Sizes : \A j \in Sizes : ~ j < n
  <2>1. Sizes \in SUBSET Nat /\ Sizes # {}
    BY <1>1
  <2> HIDE DEF Sizes
  <2> QED
    BY <2>1, LeastOf
<1>3. PICK T \in Bad : Cardinality(T) = n
  OBVIOUS
<1>4. n \in Nat /\ \A i \in T : Cardinality(T \ {i}) = n - 1
  BY <1>1, <1>3, FS_RemoveElement
<1>5. \A i \in T : T \ {i} \in Bad => n - 1 \in Sizes
  BY <1>4
<1>6. n - 1 < n
  BY <1>4
<1> HIDE DEF Sizes
<1>7. \A i \in T : T \ {i} \notin Bad
  BY <1>2, <1>5, <1>6
<1> QED
  BY <1>7

(* A finite set can be folded, whatever the choice of the next element.    *)
LEMMA FoldExists ==
  ASSUME NEW S, IsFiniteSet(S), NEW c, \A T \in SUBSET S : T # {} => c[T] \in T,
         NEW A, NEW base \in A, NEW h, \A i \in S : h[i] \in [A -> A]
  PROVE  \E g : IsFold(g, S, c, A, h, base)
<1> DEFINE Upto(n) == {T \in SUBSET S : Cardinality(T) <= n}
           Good(n) == \E g \in [Upto(n) -> A] :
                        \A T \in Upto(n) : g[T] = IF T = {} THEN base
                                                  ELSE h[c[T]][g[T \ {c[T]}]]
           B == {n \in Nat : ~ Good(n)}
<1>1. \A T \in SUBSET S : IsFiniteSet(T) /\ Cardinality(T) \in Nat /\ (Cardinality(T) = 0 <=> T = {})
  BY FS_Subset, FS_CardinalityType, FS_EmptySet
<1>2. Good(0)
  <2> DEFINE g == [T \in Upto(0) |-> base]
  <2>1. \A T \in Upto(0) : T = {}
    BY <1>1
  <2>2. g \in [Upto(0) -> A] /\ \A T \in Upto(0) : g[T] = base
    OBVIOUS
  <2> HIDE DEF Upto, g
  <2> QED
    BY <2>1, <2>2
<1>3. ASSUME NEW n \in Nat \ {0}, Good(n - 1) PROVE Good(n)
  <2>1. PICK f \in [Upto(n - 1) -> A] :
               \A T \in Upto(n - 1) : f[T] = IF T = {} THEN base ELSE h[c[T]][f[T \ {c[T]}]]
    BY <1>3
  <2>2. \A T \in Upto(n) : T # {} => T \ {c[T]} \in Upto(n - 1) /\ c[T] \in S
    BY <1>1, FS_RemoveElement
  <2>3. \A T \in Upto(n - 1) : T \in Upto(n)
    BY <1>1
  <2> HIDE DEF Upto
  <2> DEFINE g == [T \in Upto(n) |-> IF T = {} THEN base ELSE h[c[T]][f[T \ {c[T]}]]]
  <2>4. \A T \in Upto(n - 1) : g[T] = f[T]
    BY <2>1, <2>3
  <2>5. g \in [Upto(n) -> A]
    BY <2>2
  <2>6. \A T \in Upto(n) : g[T] = IF T = {} THEN base ELSE h[c[T]][g[T \ {c[T]}]]
    BY <2>2, <2>4
  <2> QED
    BY <2>5, <2>6
<1>4. B = {}
  <2> SUFFICES ASSUME B # {} PROVE FALSE
    OBVIOUS
  <2>1. PICK n \in B : \A j \in B : ~ j < n
    <3>1. B \in SUBSET Nat
      OBVIOUS
    <3> HIDE DEF B
    <3> QED
      BY <3>1, LeastOf
  <2>2. n \in Nat /\ ~ Good(n)
    OBVIOUS
  <2> HIDE DEF Good
  <2>3. n \in Nat \ {0}
    BY <1>2, <2>2
  <2>4. n - 1 \in Nat /\ n - 1 < n
    BY <2>3
  <2>5. n - 1 \notin B
    <3> HIDE DEF B
    <3> QED
      BY <2>1, <2>4
  <2> QED
    BY <1>3, <2>2, <2>3, <2>4, <2>5
<1>5. Upto(Cardinality(S)) = SUBSET S /\ Cardinality(S) \in Nat
  BY <1>1, FS_Subset, FS_CardinalityType
<1>6. Good(Cardinality(S))
  <2> HIDE DEF Good
  <2> QED
    BY <1>4, <1>5
<1> HIDE DEF Upto
<1>7. PICK g \in [SUBSET S -> A] : \A T \in SUBSET S : g[T] = IF T = {} THEN base
                                                             ELSE h[c[T]][g[T \ {c[T]}]]
  BY <1>5, <1>6
<1> QED
  BY <1>7 DEF IsFold

(* When the steps commute, the elements come in any order.                 *)
Commuting(S, c, A, h, base) ==
    /\ IsFiniteSet(S)
    /\ \A T \in SUBSET S : T # {} => c[T] \in T
    /\ base \in A
    /\ \A i \in S : h[i] \in [A -> A]
    /\ \A i, j \in S : \A a \in A : h[i][h[j][a]] = h[j][h[i][a]]

AnyOrder(g, S, h) == \A T \in SUBSET S : \A i \in T : g[T] = h[i][g[T \ {i}]]

(* Steps that commute can be taken off a fold at any element, not only at  *)
(* the chosen one.                                                         *)
LEMMA FoldInAnyOrder ==
  ASSUME NEW S, NEW c, NEW A, NEW h, NEW base, Commuting(S, c, A, h, base)
  PROVE  /\ \E g : IsFold(g, S, c, A, h, base)
         /\ \A g : IsFold(g, S, c, A, h, base) => AnyOrder(g, S, h)
<1> USE DEF Commuting, AnyOrder
<1>0. \E g : IsFold(g, S, c, A, h, base)
  BY FoldExists
<1> SUFFICES ASSUME NEW g, IsFold(g, S, c, A, h, base)
             PROVE  \A T \in SUBSET S : \A i \in T : g[T] = h[i][g[T \ {i}]]
  BY <1>0
<1> DEFINE Bad == {T \in SUBSET S : \E i \in T : g[T] # h[i][g[T \ {i}]]}
<1> SUFFICES ASSUME Bad # {} PROVE FALSE
  OBVIOUS
<1>1. PICK T \in Bad : \A i \in T : T \ {i} \notin Bad
  <2>1. Bad \in SUBSET SUBSET S
    OBVIOUS
  <2> HIDE DEF Bad
  <2> QED
    BY <2>1, SmallestBad
<1>2. PICK i \in T : g[T] # h[i][g[T \ {i}]]
  OBVIOUS
<1> DEFINE k == c[T]
<1>3. k \in T /\ i \in S /\ k \in S /\ g[T] = h[k][g[T \ {k}]] /\ k # i
  BY <1>2 DEF IsFold
<1> HIDE DEF k
<1> DEFINE R == (T \ {k}) \ {i}
<1>4. R = (T \ {i}) \ {k} /\ R \in SUBSET S /\ T \ {k} \in SUBSET S /\ T \ {i} \in SUBSET S
  OBVIOUS
<1>5. g[T \ {k}] = h[i][g[R]]
  BY <1>1, <1>2, <1>3, <1>4
<1>6. g[T \ {i}] = h[k][g[R]]
  <2>1. k \in T \ {i} /\ T \ {i} \in SUBSET S /\ T \ {i} \notin Bad
    BY <1>1, <1>2, <1>3, <1>4
  <2>2. g[T \ {i}] = h[k][g[(T \ {i}) \ {k}]]
    BY <2>1
  <2> QED
    BY <2>2, <1>4
<1>7. g[R] \in A
  BY <1>4 DEF IsFold
<1> HIDE DEF R
<1> QED
  BY <1>2, <1>3, <1>5, <1>6, <1>7

(* The library picks an element of a set that has one.                     *)
Picked(S) == [T \in SUBSET S |-> CHOOSE i \in T : TRUE]

(* What is picked is an element.                                           *)
LEMMA PickIsMember ==
  ASSUME NEW S
  PROVE  \A T \in SUBSET S : T # {} => Picked(S)[T] \in T /\ Picked(S)[T] = CHOOSE i \in T : TRUE
BY DEF Picked

-----------------------------------------------------------------------------
(* Sums of integers.                                                       *)
Adding(f) == [i \in DOMAIN f |-> [a \in Int |-> a + f[i]]]

Sum(f, T) == (CHOOSE g : IsFold(g, DOMAIN f, Picked(DOMAIN f), Int, Adding(f), 0))[T]

(* A sum is an integer and loses any one of its terms.                     *)
LEMMA SumFacts ==
  ASSUME NEW I, IsFiniteSet(I), NEW f \in [I -> Int]
  PROVE  /\ Sum(f, {}) = 0
         /\ \A T \in SUBSET I : /\ Sum(f, T) \in Int
                                /\ \A i \in T : Sum(f, T) = Sum(f, T \ {i}) + f[i]
<1> DEFINE G == CHOOSE u : IsFold(u, I, Picked(I), Int, Adding(f), 0)
           H == Adding(f)
           C == Picked(I)
<1>1. \A i \in I : H[i] \in [Int -> Int] /\ \A a \in Int : H[i][a] = a + f[i]
  BY DEF Adding
<1>2. \A T \in SUBSET I : T # {} => C[T] \in T
  BY PickIsMember
<1>3. 0 \in Int /\ \A i \in I : f[i] \in Int
  OBVIOUS
<1>4. DOMAIN f = I
  OBVIOUS
<1> HIDE DEF H, C
<1>5. Commuting(I, C, Int, H, 0)
  BY <1>1, <1>2, <1>3 DEF Commuting
<1>6. IsFold(G, I, C, Int, H, 0) /\ \A T : Sum(f, T) = G[T]
  <2>1. \E u : IsFold(u, I, C, Int, H, 0)
    BY <1>5, FoldInAnyOrder
  <2> QED
    BY <1>4, <2>1 DEF Sum, H, C
<1> HIDE DEF G
<1>7. IsFold(G, I, C, Int, H, 0)
  BY <1>6
<1>8. AnyOrder(G, I, H)
  BY <1>5, <1>7, FoldInAnyOrder
<1>9. G[{}] = 0 /\ \A T \in SUBSET I : G[T] \in Int
  BY <1>6 DEF IsFold
<1>10. \A T \in SUBSET I : \A i \in T : G[T] = G[T \ {i}] + f[i]
  BY <1>1, <1>8, <1>9 DEF AnyOrder
<1> QED
  BY <1>6, <1>9, <1>10

(* Sums are linear, modulo p.                                              *)
LEMMA SumIsLinear ==
  ASSUME NEW p \in Nat \ {0}, NEW I, IsFiniteSet(I), NEW J, IsFiniteSet(J), NEW K, IsFiniteSet(K),
         NEW f \in [I -> Int], NEW e \in [J -> Int], NEW k \in [K -> Int],
         NEW a \in Int, NEW b \in Int, NEW S \in SUBSET I, S \in SUBSET J, S \in SUBSET K,
         \A i \in S : Same(p, k[i], a * f[i] + b * e[i])
  PROVE  Same(p, Sum(k, S), a * Sum(f, S) + b * Sum(e, S))
<1>1. /\ Sum(f, {}) = 0 /\ Sum(e, {}) = 0 /\ Sum(k, {}) = 0
      /\ \A T \in SUBSET S :
           /\ Sum(f, T) \in Int /\ Sum(e, T) \in Int /\ Sum(k, T) \in Int
           /\ \A i \in T : /\ Sum(f, T) = Sum(f, T \ {i}) + f[i]
                           /\ Sum(e, T) = Sum(e, T \ {i}) + e[i]
                           /\ Sum(k, T) = Sum(k, T \ {i}) + k[i]
  BY SumFacts
<1> DEFINE Good(T) == Same(p, Sum(k, T), a * Sum(f, T) + b * Sum(e, T))
           Bad == {T \in SUBSET S : ~ Good(T)}
<1> SUFFICES ASSUME Bad # {} PROVE FALSE
  OBVIOUS
<1>2. PICK T \in Bad : \A i \in T : T \ {i} \notin Bad
  <2>1. Bad \in SUBSET SUBSET S /\ IsFiniteSet(S)
    BY FS_Subset
  <2> HIDE DEF Bad
  <2> QED
    BY <2>1, SmallestBad
<1>3. T \in SUBSET S /\ ~ Good(T) /\ \A i \in T : Good(T \ {i})
  BY <1>2
<1>4. T # {}
  <2>1. Good({})
    <3>1. a * 0 + b * 0 = 0
      OBVIOUS
    <3> QED
      BY <1>1, <3>1 DEF Same
  <2> HIDE DEF Good
  <2> QED
    BY <1>3, <2>1
<1>5. PICK i \in T : TRUE
  BY <1>4
<1> DEFINE R == T \ {i}
           x1 == Sum(k, R)
           x2 == k[i]
           y1 == a * Sum(f, R) + b * Sum(e, R)
           y2 == a * f[i] + b * e[i]
<1>6. R \in SUBSET S /\ Good(R)
  BY <1>3
<1>7. /\ Sum(f, R) \in Int /\ Sum(e, R) \in Int /\ x1 \in Int
      /\ f[i] \in Int /\ e[i] \in Int /\ x2 \in Int
  BY <1>1, <1>3, <1>6
<1>8. Same(p, x1, y1) /\ Same(p, x2, y2) /\ y1 \in Int /\ y2 \in Int
  <2>1. Same(p, x1, y1)
    BY <1>6
  <2>2. i \in S
    BY <1>3
  <2> QED
    BY <1>7, <2>1, <2>2
<1>9. Same(p, x1 + x2, y1 + y2)
  <2> HIDE DEF x1, x2, y1, y2, Good
  <2> QED
    BY <1>7, <1>8, SameOps
<1>10. Sum(k, T) = x1 + x2 /\ Sum(f, T) = Sum(f, R) + f[i] /\ Sum(e, T) = Sum(e, R) + e[i]
  BY <1>1, <1>3
<1>11. a * Sum(f, T) + b * Sum(e, T) = y1 + y2
  <2> HIDE DEF R
  <2> QED
    BY <1>7, <1>10
<1> HIDE DEF x1, x2, y1, y2, R
<1> QED
  BY <1>3, <1>9, <1>10, <1>11

-----------------------------------------------------------------------------
(* Weights B[S][i] that interpolate at zero, from the points i + 1 of S.   *)
WeightTypes(p, I, B) ==
    /\ p \in Nat \ {0}
    /\ IsFiniteSet(I) /\ I \subseteq Int
    /\ B \in [SUBSET I -> [I -> Int]]

Weights(p, I, B) ==
    /\ WeightTypes(p, I, B)
    /\ \A i \in I : Same(p, B[{i}][i], 1)
    /\ \A S \in SUBSET I : \A i, j \in S :
         i # j => Same(p, B[S][i] * (i - j), (0 - (j + 1)) * B[S \ {j}][i])
    /\ \A i, j \in I : \A a, b \in Int :
         i # j /\ Same(p, (i - j) * a, (i - j) * b) => Same(p, a, b)

Weighted(B, S, f) == Sum([i \in S |-> B[S][i] * f[i]], S)

(* What the weights are made of.                                           *)
LEMMA WeightFacts ==
  ASSUME NEW p, NEW I, NEW B, Weights(p, I, B), NEW S \in SUBSET I
  PROVE  /\ p \in Nat \ {0} /\ I \subseteq Int
         /\ IsFiniteSet(S)
         /\ \A i \in I : B[S][i] \in Int
<1>1. WeightTypes(p, I, B)
  BY DEF Weights
<1>2. p \in Nat \ {0} /\ I \subseteq Int /\ IsFiniteSet(I)
  BY <1>1 DEF WeightTypes
<1>3. IsFiniteSet(S)
  BY <1>2, FS_Subset
<1>4. B \in [SUBSET I -> [I -> Int]]
  BY <1>1 DEF WeightTypes
<1>5. B[S] \in [I -> Int]
  BY <1>4
<1> QED
  BY <1>2, <1>3, <1>5

(* A weighted sum is linear in its values, modulo p.                       *)
LEMMA WeightedIsLinear ==
  ASSUME NEW p, NEW I, NEW B, Weights(p, I, B), NEW S \in SUBSET I,
         NEW f \in [I -> Int], NEW e \in [I -> Int], NEW k \in [I -> Int],
         NEW a \in Int, NEW b \in Int,
         \A i \in S : Same(p, k[i], a * f[i] + b * e[i])
  PROVE  /\ Weighted(B, S, f) \in Int /\ Weighted(B, S, e) \in Int /\ Weighted(B, S, k) \in Int
         /\ Same(p, Weighted(B, S, k), a * Weighted(B, S, f) + b * Weighted(B, S, e))
<1> DEFINE f1 == [i \in S |-> B[S][i] * f[i]]
           e1 == [i \in S |-> B[S][i] * e[i]]
           k1 == [i \in S |-> B[S][i] * k[i]]
<1>1. p \in Nat \ {0} /\ IsFiniteSet(S) /\ \A i \in S : B[S][i] \in Int
  <2>1. \A i \in S : i \in I
    OBVIOUS
  <2> QED
    BY <2>1, WeightFacts
<1>2. \A i \in S : f[i] \in Int /\ e[i] \in Int /\ k[i] \in Int
  OBVIOUS
<1>3. f1 \in [S -> Int] /\ e1 \in [S -> Int] /\ k1 \in [S -> Int]
  BY <1>1, <1>2
<1>4. ASSUME NEW i \in S PROVE Same(p, k1[i], a * f1[i] + b * e1[i])
  <2> DEFINE w == B[S][i]
             kk == k[i]
             ff == f[i]
             ee == e[i]
  <2>1. w \in Int /\ kk \in Int /\ ff \in Int /\ ee \in Int
    BY <1>1, <1>2
  <2>2. Same(p, kk, a * ff + b * ee) /\ Same(p, w, w)
    BY DEF Same
  <2>3. k1[i] = w * kk /\ f1[i] = w * ff /\ e1[i] = w * ee
    OBVIOUS
  <2> HIDE DEF w, kk, ff, ee, k1, f1, e1
  <2>4. a * ff + b * ee \in Int
    BY <2>1
  <2>5. Same(p, w * kk, w * (a * ff + b * ee))
    BY <1>1, <2>1, <2>2, <2>4, SameOps
  <2>6. w * (a * ff + b * ee) = a * (w * ff) + b * (w * ee)
    BY <2>1
  <2> QED
    BY <2>3, <2>5, <2>6
<1> HIDE DEF f1, e1, k1
<1>5. S \in SUBSET S
  OBVIOUS
<1>6. Sum(f1, S) \in Int /\ Sum(e1, S) \in Int /\ Sum(k1, S) \in Int
  BY <1>1, <1>3, <1>5, SumFacts
<1>7. Same(p, Sum(k1, S), a * Sum(f1, S) + b * Sum(e1, S))
  BY <1>1, <1>3, <1>4, <1>5, SumIsLinear
<1> QED
  BY <1>6, <1>7 DEF Weighted, f1, e1, k1

(* A factor that is zero at j takes j away.                                *)
LEMMA Peel ==
  ASSUME NEW p, NEW I, NEW B, Weights(p, I, B), NEW S \in SUBSET I, NEW j \in S,
         NEW f \in [I -> Int]
  PROVE  Same(p, Weighted(B, S, [i \in I |-> (i - j) * f[i]]),
                 (0 - (j + 1)) * Weighted(B, S \ {j}, f))
<1> DEFINE h == [i \in I |-> (i - j) * f[i]]
           R == S \ {j}
           k1 == [i \in S |-> B[S][i] * h[i]]
           f1 == [i \in R |-> B[R][i] * f[i]]
           a == 0 - (j + 1)
<1>1. /\ p \in Nat \ {0} /\ IsFiniteSet(S) /\ IsFiniteSet(R) /\ R \in SUBSET I /\ R \in SUBSET S
      /\ I \subseteq Int /\ j \in Int /\ a \in Int
      /\ \A i \in I : B[S][i] \in Int /\ B[R][i] \in Int /\ f[i] \in Int
  <2>1. R \in SUBSET I /\ R \in SUBSET S /\ j \in I
    OBVIOUS
  <2> HIDE DEF R
  <2>2. /\ p \in Nat \ {0} /\ IsFiniteSet(S) /\ IsFiniteSet(R) /\ I \subseteq Int
        /\ \A i \in I : B[S][i] \in Int /\ B[R][i] \in Int
    BY <2>1, WeightFacts
  <2>3. j \in Int /\ a \in Int
    BY <2>1, <2>2
  <2> QED
    BY <2>1, <2>2, <2>3
<1>2. h \in [I -> Int] /\ k1 \in [S -> Int] /\ f1 \in [R -> Int]
  <2>1. \A i \in I : (i - j) * f[i] \in Int
    BY <1>1
  <2>2. h \in [I -> Int]
    BY <2>1
  <2> HIDE DEF h, R
  <2>3. \A i \in I : h[i] \in Int
    BY <2>2
  <2>4. /\ \A i \in S : i \in I /\ B[S][i] \in Int /\ h[i] \in Int
        /\ \A i \in R : i \in I /\ B[R][i] \in Int /\ f[i] \in Int
    BY <1>1, <2>3
  <2>5. /\ \A i \in S : B[S][i] * h[i] \in Int
        /\ \A i \in R : B[R][i] * f[i] \in Int
    <3>1. \A y, z \in Int : y * z \in Int
      OBVIOUS
    <3> QED
      BY <2>4, <3>1, Zenon
  <2> QED
    BY <2>2, <2>4, <2>5
<1>3. k1[j] = 0
  <2>1. h[j] = 0
    <3>1. h[j] = (j - j) * f[j]
      OBVIOUS
    <3> HIDE DEF h
    <3> QED
      BY <1>1, <3>1
  <2> HIDE DEF h
  <2>2. k1[j] = B[S][j] * 0
    BY <2>1
  <2> HIDE DEF k1
  <2> QED
    BY <1>1, <2>2
<1>4. ASSUME NEW i \in R PROVE Same(p, k1[i], a * f1[i] + 0 * f1[i])
  <2> DEFINE w == B[S][i]
             z == B[R][i]
             ff == f[i]
  <2>1. w \in Int /\ z \in Int /\ ff \in Int /\ i \in Int /\ i # j
    BY <1>1
  <2>2. Same(p, w * (i - j), a * z) /\ Same(p, ff, ff)
    <3>1. i \in S /\ i # j
      OBVIOUS
    <3>2. Same(p, B[S][i] * (i - j), (0 - (j + 1)) * B[S \ {j}][i])
      BY <3>1 DEF Weights
    <3> QED
      BY <3>2 DEF Same
  <2>3. k1[i] = w * ((i - j) * ff) /\ f1[i] = z * ff
    OBVIOUS
  <2> HIDE DEF w, z, ff, k1, f1, a
  <2>4. w * (i - j) \in Int /\ a * z \in Int
    BY <1>1, <2>1
  <2>5. Same(p, (w * (i - j)) * ff, (a * z) * ff)
    BY <1>1, <2>1, <2>2, <2>4, SameOps
  <2>6. w * ((i - j) * ff) = (w * (i - j)) * ff /\ (a * z) * ff = a * (z * ff) + 0 * (z * ff)
    BY <1>1, <2>1
  <2> QED
    BY <2>3, <2>5, <2>6
<1>5. R \in SUBSET R /\ S \in SUBSET S /\ Weighted(B, S, h) = Sum(k1, S) /\ Weighted(B, R, f) = Sum(f1, R)
  BY DEF Weighted
<1> HIDE DEF R, k1, f1, h, a
<1>6. Same(p, Sum(k1, R), a * Sum(f1, R) + 0 * Sum(f1, R))
  <2>1. 0 \in Int
    OBVIOUS
  <2> QED
    BY <1>1, <1>2, <1>4, <1>5, <2>1, SumIsLinear
<1>7. Sum(k1, S) = Sum(k1, R) + k1[j] /\ Sum(k1, R) \in Int /\ Sum(f1, R) \in Int
  <2>1. S \ {j} = R
    BY DEF R
  <2> QED
    BY <1>1, <1>2, <1>5, <2>1, SumFacts
<1>8. a * Sum(f1, R) + 0 * Sum(f1, R) = a * Sum(f1, R) /\ Sum(k1, S) = Sum(k1, R)
  BY <1>1, <1>3, <1>7
<1> QED
  BY <1>5, <1>6, <1>8 DEF h, R, a

(* Congruence is transitive.                                               *)
LEMMA SameChain ==
  ASSUME NEW p, NEW a, NEW b, NEW c, Same(p, a, b), Same(p, b, c)
  PROVE  Same(p, a, c)
BY DEF Same

(* The weights of a set add up to one: the smallest set whose weights did  *)
(* not has two elements, and 1 is a combination of the factors that take   *)
(* them away.                                                              *)
LEMMA WeightsAddToOne ==
  ASSUME NEW p, NEW I, NEW B, Weights(p, I, B)
  PROVE  \A S \in SUBSET I : S # {} => Same(p, Weighted(B, S, [i \in I |-> 1]), 1)
<1> DEFINE one == [i \in I |-> 1]
           Good(S) == Same(p, Weighted(B, S, one), 1)
           Bad == {S \in SUBSET I : S # {} /\ ~ Good(S)}
<1> SUFFICES ASSUME Bad # {} PROVE FALSE
  OBVIOUS
<1>1. PICK T \in Bad : \A i \in T : T \ {i} \notin Bad
  <2>1. Bad \in SUBSET SUBSET I /\ IsFiniteSet(I)
    BY WeightFacts
  <2> HIDE DEF Bad
  <2> QED
    BY <2>1, SmallestBad
<1>2. T \in SUBSET I /\ T # {} /\ ~ Good(T)
  OBVIOUS
<1>3. \A i \in T : T \ {i} # {} => Good(T \ {i})
  BY <1>1, <1>2
<1>4. PICK a \in T : TRUE
  BY <1>2
<1>5. p \in Nat \ {0} /\ I \subseteq Int /\ one \in [I -> Int] /\ \A i \in I : one[i] = 1
  BY WeightFacts
<1> HIDE DEF one, Bad
<1>6. CASE T \ {a} = {}
  <2> DEFINE k == [i \in T |-> B[T][i] * one[i]]
             w == B[T][a]
  <2>1. T = {a}
    BY <1>4, <1>6
  <2>2. w \in Int /\ Same(p, w, 1)
    <3>1. B[T][a] \in Int
      BY <1>2, <1>4, WeightFacts
    <3> QED
      BY <1>2, <1>4, <2>1, <3>1 DEF Weights
  <2>3. k \in [T -> Int] /\ k[a] = w * 1 /\ T \in SUBSET T /\ IsFiniteSet(T)
    <3>1. \A i \in T : B[T][i] \in Int /\ i \in I /\ one[i] = 1
      BY <1>2, <1>5, WeightFacts
    <3> QED
      BY <1>2, <3>1, WeightFacts
  <2>4. Weighted(B, T, one) = Sum(k, T)
    BY DEF Weighted
  <2> HIDE DEF k, w
  <2>5. Sum(k, T) = Sum(k, {}) + k[a] /\ Sum(k, {}) = 0
    BY <1>4, <1>6, <2>3, SumFacts
  <2>6. Sum(k, T) = w
    BY <2>2, <2>3, <2>5
  <2> QED
    BY <1>2, <2>2, <2>4, <2>6
<1>7. CASE T \ {a} # {}
  <2>1. PICK b \in T : b # a
    BY <1>7
  <2>2. a \in Int /\ b \in Int /\ a \in I /\ b \in I
    BY <1>2, <1>5
  <2> DEFINE d == a - b
             k == [i \in I |-> d]
             f == [i \in I |-> (i - b) * one[i]]
             e == [i \in I |-> (i - a) * one[i]]
  <2>3. \A i \in I : k[i] = d /\ f[i] = i - b /\ e[i] = i - a
    BY <1>5, <2>2
  <2>4. k \in [I -> Int] /\ f \in [I -> Int] /\ e \in [I -> Int] /\ d \in Int
    BY <1>5, <2>2
  <2>5. Same(p, Weighted(B, T, f), (0 - (b + 1)) * Weighted(B, T \ {b}, one))
    BY <1>2, <1>5, Peel
  <2>6. Same(p, Weighted(B, T, e), (0 - (a + 1)) * Weighted(B, T \ {a}, one))
    BY <1>2, <1>5, Peel
  <2>7. Same(p, Weighted(B, T \ {b}, one), 1) /\ Same(p, Weighted(B, T \ {a}, one), 1)
    BY <1>3, <1>4, <1>7, <2>1
  <2> HIDE DEF k, f, e
  <2>8. 1 \in Int /\ 0 - 1 \in Int /\ 0 \in Int
    OBVIOUS
  <2>9. \A i \in T : Same(p, k[i], 1 * f[i] + (0 - 1) * e[i])
    <3> SUFFICES ASSUME NEW i \in T PROVE Same(p, k[i], 1 * f[i] + (0 - 1) * e[i])
      OBVIOUS
    <3>1. i \in Int /\ k[i] = a - b /\ f[i] = i - b /\ e[i] = i - a
      BY <1>2, <1>5, <2>3
    <3>2. a - b = 1 * (i - b) + (0 - 1) * (i - a)
      BY <2>2, <3>1
    <3> QED
      BY <3>1, <3>2 DEF Same
  <2>10. \A i \in T : Same(p, k[i], d * one[i] + 0 * one[i])
    <3> SUFFICES ASSUME NEW i \in T PROVE Same(p, k[i], d * one[i] + 0 * one[i])
      OBVIOUS
    <3>1. i \in I /\ k[i] = d /\ one[i] = 1
      BY <1>2, <1>5, <2>3
    <3> HIDE DEF d
    <3>2. d = d * 1 + 0 * 1
      BY <2>4
    <3> QED
      BY <3>1, <3>2 DEF Same
  <2> DEFINE Wk == Weighted(B, T, k)
             Wf == Weighted(B, T, f)
             We == Weighted(B, T, e)
             W1 == Weighted(B, T, one)
             Wb == Weighted(B, T \ {b}, one)
             Wa == Weighted(B, T \ {a}, one)
  <2> HIDE DEF d
  <2>11. Wk \in Int /\ Wf \in Int /\ We \in Int /\ Same(p, Wk, 1 * Wf + (0 - 1) * We)
    BY <1>2, <2>4, <2>8, <2>9, WeightedIsLinear
  <2>12. W1 \in Int /\ Same(p, Wk, d * W1 + 0 * W1)
    BY <1>2, <1>5, <2>4, <2>8, <2>10, WeightedIsLinear
  <2>13. Wa \in Int /\ Wb \in Int
    <3>1. \A S \in SUBSET I : Weighted(B, S, one) \in Int
      <4> SUFFICES ASSUME NEW S \in SUBSET I PROVE Weighted(B, S, one) \in Int
        OBVIOUS
      <4>1. \A i \in S : Same(p, one[i], 0 * one[i] + 1 * one[i])
        <5>1. \A i \in S : one[i] = 0 * one[i] + 1 * one[i]
          BY <1>5
        <5> QED
          BY <5>1 DEF Same
      <4> QED
        BY <1>5, <2>8, <4>1, WeightedIsLinear
    <3>2. T \ {a} \in SUBSET I /\ T \ {b} \in SUBSET I
      BY <1>2
    <3> QED
      BY <3>1, <3>2
  <2> HIDE DEF Wk, Wf, We, W1, Wb, Wa
  <2>14. Same(p, Wf, 0 - (b + 1)) /\ Same(p, We, 0 - (a + 1))
    <3>1. Same(p, Wf, (0 - (b + 1)) * Wb) /\ Same(p, We, (0 - (a + 1)) * Wa)
      BY <2>5, <2>6 DEF Wf, We, Wb, Wa
    <3>2. Same(p, Wb, 1) /\ Same(p, Wa, 1)
      BY <2>7 DEF Wb, Wa
    <3> DEFINE nb == 0 - (b + 1)
               na == 0 - (a + 1)
    <3>3. nb \in Int /\ na \in Int /\ Same(p, nb, nb) /\ Same(p, na, na)
      BY <2>2 DEF Same
    <3>4. Same(p, Wf, nb * Wb) /\ Same(p, We, na * Wa)
      BY <3>1
    <3> HIDE DEF nb, na
    <3>5. Same(p, nb * Wb, nb * 1) /\ Same(p, na * Wa, na * 1)
      BY <1>5, <2>8, <2>13, <3>2, <3>3, SameOps
    <3>6. nb * 1 = nb /\ na * 1 = na
      BY <3>3
    <3>7. Same(p, Wf, nb) /\ Same(p, We, na)
      BY <3>4, <3>5, <3>6, SameChain
    <3> QED
      BY <3>7 DEF nb, na
  <2>15. Same(p, Wk, d * 1)
    <3>1. 1 * Wf + (0 - 1) * We = Wf - We
      BY <2>11
    <3> DEFINE nb == 0 - (b + 1)
               na == 0 - (a + 1)
    <3>2. nb \in Int /\ na \in Int /\ nb - na = d * 1
      BY <2>2 DEF d
    <3>3. Same(p, Wf, nb) /\ Same(p, We, na)
      BY <2>14
    <3> HIDE DEF nb, na
    <3>4. Same(p, Wf - We, nb - na)
      BY <1>5, <2>11, <3>2, <3>3, SameOps
    <3> QED
      BY <2>11, <3>1, <3>2, <3>4, SameChain
  <2>16. Same(p, Wk, d * W1)
    <3>1. d * W1 + 0 * W1 = d * W1
      BY <2>4, <2>12
    <3> QED
      BY <2>12, <3>1
  <2>17. Same(p, d * W1, d * 1)
    BY <2>15, <2>16 DEF Same
  <2>18. Same(p, W1, 1)
    <3>1. \A u, v \in Int : Same(p, (a - b) * u, (a - b) * v) => Same(p, u, v)
      BY <2>1, <2>2 DEF Weights
    <3> QED
      BY <2>8, <2>12, <2>17, <3>1 DEF d
  <2> QED
    BY <1>2, <2>18 DEF W1
<1> QED
  BY <1>6, <1>7

(* Of a polynomial whose degree is less than the number of points, the     *)
(* weighted values give its value at zero.  E[k] are the values of the     *)
(* polynomial with the coefficients c[k], c[k + 1], ..., c[n].             *)
LEMMA InterpolatesAtZero ==
  ASSUME NEW p, NEW I, NEW B, Weights(p, I, B),
         NEW n \in Nat, NEW c \in [1..(n + 1) -> Int], NEW E \in [1..(n + 1) -> [I -> Int]],
         c[n + 1] = 0, \A i \in I : E[n + 1][i] = 0,
         \A k \in 1..n : \A i \in I : Same(p, E[k][i], E[k + 1][i] * (i + 1) + c[k])
  PROVE  \A k \in 1..n : \A S \in SUBSET I :
            Cardinality(S) >= n - k + 1 => Same(p, Weighted(B, S, E[k]), c[k])
<1> DEFINE Good(k) == \A S \in SUBSET I :
                        Cardinality(S) >= n - k + 1 => Same(p, Weighted(B, S, E[k]), c[k])
           Bad == {j \in 0..n : ~ Good(n + 1 - j)}
           one == [i \in I |-> 1]
<1>1. p \in Nat \ {0} /\ I \subseteq Int /\ one \in [I -> Int] /\ \A i \in I : one[i] = 1
  <2>1. {} \in SUBSET I
    OBVIOUS
  <2>2. p \in Nat \ {0} /\ I \subseteq Int
    BY <2>1, WeightFacts
  <2> QED
    BY <2>2
<1>2. 0 \in Int /\ 1 \in Int
  OBVIOUS
<1> HIDE DEF one
<1>3. Good(n + 1)
  <2> SUFFICES ASSUME NEW S \in SUBSET I PROVE Same(p, Weighted(B, S, E[n + 1]), 0)
    OBVIOUS
  <2> DEFINE e == E[n + 1]
  <2>1. e \in [I -> Int] /\ \A i \in S : e[i] = 0
    OBVIOUS
  <2> HIDE DEF e
  <2>2. \A i \in S : Same(p, e[i], 0 * e[i] + 0 * e[i])
    BY <2>1 DEF Same
  <2>3. Weighted(B, S, e) \in Int /\ Same(p, Weighted(B, S, e), 0 * Weighted(B, S, e) + 0 * Weighted(B, S, e))
    BY <1>2, <2>1, <2>2, WeightedIsLinear
  <2> DEFINE w == Weighted(B, S, e)
  <2> HIDE DEF w
  <2>4. w \in Int /\ Same(p, w, 0 * w + 0 * w)
    BY <2>3 DEF w
  <2>5. 0 * w + 0 * w = 0
    BY <2>4
  <2> QED
    BY <2>4, <2>5 DEF w, e
<1>4. ASSUME NEW k \in 1..n, Good(k + 1) PROVE Good(k)
  <2> SUFFICES ASSUME NEW S \in SUBSET I, Cardinality(S) >= n - k + 1
               PROVE  Same(p, Weighted(B, S, E[k]), c[k])
    OBVIOUS
  <2>1. IsFiniteSet(S) /\ Cardinality(S) \in Nat
    BY WeightFacts, FS_CardinalityType
  <2>2. S # {}
    <3>1. Cardinality(S) # 0
      BY <2>1
    <3> QED
      BY <3>1, FS_EmptySet
  <2>3. PICK j \in S : TRUE
    BY <2>2
  <2> DEFINE R == S \ {j}
             f == E[k]
             g == E[k + 1]
             h == [i \in I |-> (i - j) * g[i]]
             u == [i \in I |-> h[i] + (j + 1) * g[i]]
             d == j + 1
             ck == c[k]
             cg == c[k + 1]
  <2>4. R \in SUBSET I /\ Cardinality(R) >= n - (k + 1) + 1
    <3>1. Cardinality(R) = Cardinality(S) - 1
      BY <2>1, FS_RemoveElement
    <3> QED
      BY <2>1, <3>1
  <2>5. Same(p, Weighted(B, R, g), cg) /\ Same(p, Weighted(B, S, g), cg)
    <3>1. Cardinality(S) >= n - (k + 1) + 1
      BY <2>1
    <3> QED
      BY <1>4, <2>4, <3>1
  <2>6. j \in Int /\ d \in Int /\ ck \in Int /\ cg \in Int /\ f \in [I -> Int] /\ g \in [I -> Int]
    <3>1. j \in Int /\ d \in Int
      BY <1>1
    <3>2. k \in 1..(n + 1) /\ k + 1 \in 1..(n + 1)
      OBVIOUS
    <3> QED
      BY <3>1, <3>2
  <2>7. Same(p, Weighted(B, S, h), (0 - (j + 1)) * Weighted(B, R, g))
    BY <2>6, Peel
  <2>8. \A i \in I : Same(p, f[i], g[i] * (i + 1) + ck)
    OBVIOUS
  <2> HIDE DEF f, g, ck, cg, R
  <2>9. h \in [I -> Int] /\ \A i \in I : h[i] = (i - j) * g[i]
    BY <1>1, <2>6
  <2>10. u \in [I -> Int] /\ \A i \in I : u[i] = h[i] + d * g[i]
    <3> HIDE DEF h, d
    <3>1. \A i \in I : h[i] \in Int /\ g[i] \in Int
      BY <2>6, <2>9
    <3>2. \A i \in I : h[i] + (j + 1) * g[i] \in Int
      <4>1. \A y, z \in Int : y + (j + 1) * z \in Int
        BY <2>6
      <4> QED
        BY <3>1, <4>1, Zenon
    <3>3. u \in [I -> Int]
      BY <3>2
    <3> QED
      BY <3>3 DEF d
  <2> HIDE DEF h, u
  <2>11. \A i \in S : Same(p, u[i], 1 * h[i] + d * g[i])
    <3>1. \A i \in S : u[i] = h[i] + d * g[i] /\ h[i] \in Int
      BY <2>9, <2>10
    <3>2. \A i \in S : u[i] = 1 * h[i] + d * g[i]
      BY <3>1
    <3> QED
      BY <3>2 DEF Same
  <2>12. \A i \in S : Same(p, f[i], 1 * u[i] + ck * one[i])
    <3> SUFFICES ASSUME NEW i \in S PROVE Same(p, f[i], 1 * u[i] + ck * one[i])
      OBVIOUS
    <3>1. i \in Int /\ g[i] \in Int /\ one[i] = 1 /\ u[i] = (i - j) * g[i] + (j + 1) * g[i]
      BY <1>1, <2>6, <2>9, <2>10
    <3> DEFINE gi == g[i]
               ui == u[i]
    <3>2. gi \in Int /\ ui = (i - j) * gi + (j + 1) * gi
      BY <3>1
    <3> HIDE DEF gi, ui
    <3>3. 1 * ui + ck * 1 = gi * (i + 1) + ck
      BY <2>6, <3>1, <3>2
    <3>4. Same(p, f[i], gi * (i + 1) + ck)
      BY <2>8 DEF gi
    <3> QED
      BY <3>1, <3>3, <3>4 DEF ui
  <2> DEFINE Wf == Weighted(B, S, f)
             Wu == Weighted(B, S, u)
             Wh == Weighted(B, S, h)
             Wg == Weighted(B, S, g)
             Wr == Weighted(B, R, g)
             W1 == Weighted(B, S, one)
  <2> HIDE DEF d
  <2>13. Wu \in Int /\ Wh \in Int /\ Wg \in Int /\ Same(p, Wu, 1 * Wh + d * Wg)
    BY <1>2, <2>6, <2>9, <2>10, <2>11, WeightedIsLinear
  <2>14. Wf \in Int /\ W1 \in Int /\ Same(p, Wf, 1 * Wu + ck * W1)
    BY <1>1, <1>2, <2>6, <2>10, <2>12, WeightedIsLinear
  <2>15. Wr \in Int
    <3>1. \A i \in R : Same(p, g[i], 1 * g[i] + 0 * g[i])
      <4>1. \A i \in R : g[i] \in Int
        BY <2>4, <2>6
      <4>2. \A i \in R : g[i] = 1 * g[i] + 0 * g[i]
        BY <4>1
      <4> QED
        BY <4>2 DEF Same
    <3> QED
      BY <1>2, <2>4, <2>6, <3>1, WeightedIsLinear
  <2>16. Same(p, W1, 1)
    BY <2>2, WeightsAddToOne DEF one
  <2>17. Same(p, Wh, (0 - d) * Wr) /\ Same(p, Wr, cg) /\ Same(p, Wg, cg)
    BY <2>5, <2>7 DEF d
  <2> HIDE DEF Wf, Wu, Wh, Wg, Wr, W1
  <2>18. Same(p, Wu, 0)
    <3>1. Same(p, Wh, (0 - d) * cg)
      <4> DEFINE nd == 0 - d
      <4>1. nd \in Int /\ Same(p, nd, nd) /\ Same(p, Wh, nd * Wr)
        BY <2>6, <2>17 DEF Same
      <4> HIDE DEF nd
      <4>2. Same(p, nd * Wr, nd * cg)
        BY <1>1, <2>6, <2>15, <2>17, <4>1, SameOps
      <4>3. Same(p, Wh, nd * cg)
        BY <4>1, <4>2, SameChain
      <4> QED
        BY <4>3 DEF nd
    <3>2. Same(p, d * Wg, d * cg)
      <4>1. Same(p, d, d)
        BY DEF Same
      <4> QED
        BY <1>1, <2>6, <2>13, <2>17, <4>1, SameOps
    <3> DEFINE a1 == (0 - d) * cg
               a2 == d * cg
               b2 == d * Wg
    <3>3. a1 \in Int /\ a2 \in Int /\ b2 \in Int /\ a1 + a2 = 0 /\ 1 * Wh + d * Wg = Wh + b2
      BY <2>6, <2>13
    <3>4. Same(p, Wh, a1) /\ Same(p, b2, a2)
      BY <3>1, <3>2
    <3> HIDE DEF a1, a2, b2
    <3>5. Same(p, Wh + b2, a1 + a2)
      BY <1>1, <2>13, <3>3, <3>4, SameOps
    <3> QED
      BY <2>13, <3>3, <3>5, SameChain
  <2>19. Same(p, ck * W1, ck * 1)
    <3>1. Same(p, ck, ck)
      BY DEF Same
    <3> QED
      BY <1>1, <1>2, <2>6, <2>14, <2>16, <3>1, SameOps
  <2> DEFINE b2 == ck * W1
             a2 == ck * 1
  <2>20. b2 \in Int /\ a2 \in Int /\ 1 * Wu + ck * W1 = Wu + b2 /\ 0 + a2 = ck
    BY <2>6, <2>13, <2>14
  <2>21. Same(p, b2, a2)
    BY <2>19
  <2> HIDE DEF b2, a2
  <2>22. Same(p, Wu + b2, 0 + a2)
    BY <1>1, <1>2, <2>13, <2>18, <2>20, <2>21, SameOps
  <2>23. Same(p, Wf, ck)
    BY <2>14, <2>20, <2>22, SameChain
  <2> QED
    BY <2>23 DEF Wf, f, ck
<1>5. Bad = {}
  <2> SUFFICES ASSUME Bad # {} PROVE FALSE
    OBVIOUS
  <2>1. PICK j \in Bad : \A l \in Bad : ~ l < j
    <3>1. Bad \in SUBSET Nat
      OBVIOUS
    <3> HIDE DEF Bad
    <3> QED
      BY <3>1, LeastOf
  <2> HIDE DEF Good
  <2>2. j \in 0..n /\ ~ Good(n + 1 - j)
    OBVIOUS
  <2>3. j # 0
    BY <1>3, <2>2
  <2> DEFINE k == n + 1 - j
             l == j - 1
  <2>4. k \in 1..n /\ l \in 0..n /\ l < j /\ n + 1 - l = k + 1
    BY <2>2, <2>3
  <2>5. l \notin Bad
    BY <2>1, <2>4
  <2>6. Good(k + 1)
    BY <2>4, <2>5
  <2> HIDE DEF k
  <2>7. Good(k)
    BY <1>4, <2>4, <2>6
  <2> QED
    BY <2>2, <2>7 DEF k
<1> SUFFICES ASSUME NEW k \in 1..n PROVE Good(k)
  OBVIOUS
<1>6. n + 1 - k \in 0..n /\ n + 1 - (n + 1 - k) = k
  OBVIOUS
<1> HIDE DEF Good
<1> QED
  BY <1>5, <1>6

-----------------------------------------------------------------------------
(* What follows the recursion of a fold, as long as it stays in A, is it.  *)
Chooses(c, S) == IsFiniteSet(S) /\ \A T \in SUBSET S : T # {} => c[T] \in T

Follows(u, R, c, A, h, base) ==
    /\ u[{}] = base
    /\ \A T \in SUBSET R : T # {} /\ u[T \ {c[T]}] \in A => u[T] = h[c[T]][u[T \ {c[T]}]]

Agree(u, g, R) == \A T \in SUBSET R : u[T] = g[T]

(* Such a function has the values of the fold on every subset it is asked  *)
(* for.                                                                    *)
LEMMA Unfold ==
  ASSUME NEW S, NEW c, Chooses(c, S),
         NEW A, NEW h, NEW base, NEW g, IsFold(g, S, c, A, h, base),
         NEW R \in SUBSET S, NEW u, Follows(u, R, c, A, h, base)
  PROVE  Agree(u, g, R)
<1> USE DEF Chooses, Follows, Agree
<1> DEFINE Bad == {T \in SUBSET R : u[T] # g[T]}
<1> SUFFICES ASSUME Bad # {} PROVE FALSE
  OBVIOUS
<1>1. PICK T \in Bad : \A i \in T : T \ {i} \notin Bad
  <2>1. Bad \in SUBSET SUBSET R /\ IsFiniteSet(R)
    BY FS_Subset
  <2> HIDE DEF Bad
  <2> QED
    BY <2>1, SmallestBad
<1>2. T \in SUBSET R /\ T \in SUBSET S /\ u[T] # g[T]
  OBVIOUS
<1>3. T # {}
  BY <1>2 DEF IsFold
<1> DEFINE k == c[T]
<1>4. k \in T /\ g[T] = h[k][g[T \ {k}]] /\ g[T \ {k}] \in A
  BY <1>2, <1>3 DEF IsFold
<1>5. u[T \ {k}] = g[T \ {k}]
  <2> HIDE DEF k
  <2>1. T \ {k} \in SUBSET R
    BY <1>2
  <2> QED
    BY <1>1, <1>4, <2>1
<1> QED
  BY <1>2, <1>3, <1>4, <1>5

-----------------------------------------------------------------------------
(* The factors of the Lagrange basis.                                      *)
Factor(m, i, j) == Times(m, Neg(m, j + 1), InvMod(m, (i - j) % Primes[m]))

(* A modulus is a prime above the number of parties; Neg negates.          *)
LEMMA ModulusFacts ==
  ASSUME NEW m \in Moduli
  PROVE  /\ Primes[m] \in Nat \ {0} /\ Primes[m] >= 2 /\ N < Primes[m]
         /\ \A d \in 2..(Primes[m] - 1) : (Primes[m] % d) # 0
         /\ Parties \subseteq Int /\ IsFiniteSet(Parties) /\ N \in Nat /\ N >= 2
         /\ \A a \in Int : Neg(m, a) \in Int /\ Same(Primes[m], Neg(m, a), 0 - a)
<1> DEFINE p == Primes[m]
<1>1. p \in Nat /\ N \in Nat /\ N >= 2 /\ N < p
  BY Yyh26Assumption DEF Moduli
<1>2. \A d \in 2..(p - 1) : (p % d) # 0
  BY Yyh26Assumption
<1>3. Parties \subseteq Int /\ IsFiniteSet(Parties)
  BY <1>1, FS_Interval DEF Parties
<1>4. ASSUME NEW a \in Int PROVE Neg(m, a) \in Int /\ Same(p, Neg(m, a), 0 - a)
  <2>1. p \in Nat \ {0}
    BY <1>1
  <2> DEFINE r == a % p
             q == a \div p
             n == p - r
  <2>2. r \in 0..(p - 1) /\ q \in Int /\ a = p * q + r
    BY <2>1, Division
  <2>3. Neg(m, a) = n % p
    BY DEF Neg
  <2> HIDE DEF p, r, q
  <2>4. n \in Int /\ n = (0 - a) + p * (1 + q) /\ 1 + q \in Int /\ 0 - a \in Int
    BY <2>1, <2>2
  <2> HIDE DEF n
  <2>5. (n % p) \in Int /\ Same(p, (n % p), n)
    BY <2>1, <2>4, SameMod
  <2> DEFINE k == 1 + q
             z == 0 - a
  <2>6. n = z + p * k /\ k \in Int /\ z \in Int
    BY <2>4
  <2> HIDE DEF k, z
  <2>7. Same(p, n, z)
    BY <2>1, <2>4, <2>6, SameIff
  <2>8. Same(p, (n % p), 0 - a)
    BY <2>5, <2>7, SameChain DEF z
  <2> QED
    BY <2>3, <2>5, <2>8
<1> QED
  BY <1>1, <1>2, <1>3, <1>4

(* A factor is -(j + 1) divided by i - j, and i - j can be cancelled: it   *)
(* is not zero modulo the prime.                                           *)
LEMMA FactorFacts ==
  ASSUME NEW m \in Moduli, NEW i \in Parties, NEW j \in Parties, i # j
  PROVE  /\ Factor(m, i, j) \in Int
         /\ Same(Primes[m], Factor(m, i, j) * (i - j), 0 - (j + 1))
         /\ \A a, b \in Int : Same(Primes[m], (i - j) * a, (i - j) * b) => Same(Primes[m], a, b)
<1> DEFINE p == Primes[m]
           d == i - j
           e == d % p
           v == InvMod(m, e)
           n == Neg(m, j + 1)
           z == 0 - (j + 1)
<1>1. /\ p \in Nat \ {0} /\ p >= 2 /\ N < p /\ N \in Nat
      /\ \A c \in 2..(p - 1) : (p % c) # 0
  BY ModulusFacts
<1>2. j + 1 \in Int /\ d \in Int /\ d # 0 /\ d < p /\ 0 - p < d /\ z \in Int
  BY <1>1 DEF Parties
<1>3. n \in Int /\ Same(p, n, z)
  BY <1>2, ModulusFacts
<1>4. Factor(m, i, j) = (n * v) % p
  BY DEF Factor, Times
<1>5. InvMod(m, e) = CHOOSE k \in 1..(p - 1) : (e * k) % p = 1
  BY DEF InvMod
<1> HIDE DEF p, d, n, z
<1>6. e \in 0..(p - 1) /\ Same(p, e, d) /\ e \in Int
  BY <1>1, <1>2, SameMod
<1>7. e # 0
  <2> SUFFICES ASSUME e = 0 PROVE FALSE
    OBVIOUS
  <2> DEFINE q == d \div p
  <2>1. q \in Int /\ d = p * q
    <3>1. d \div p \in Int /\ d = p * (d \div p) + (d % p)
      BY <1>1, <1>2, Division
    <3> QED
      BY <1>1, <3>1
  <2> HIDE DEF q
  <2>2. q # 0
    BY <1>1, <1>2, <2>1
  <2>3. q < 1
    <3> SUFFICES ASSUME q >= 1 PROVE FALSE
      BY <2>1
    <3>1. p * q >= p * 1
      BY <1>1, <2>1
    <3> QED
      BY <1>1, <1>2, <2>1, <3>1
  <2>4. q > 0 - 1
    <3> SUFFICES ASSUME q <= 0 - 1 PROVE FALSE
      BY <2>1
    <3>1. p * q <= p * (0 - 1)
      BY <1>1, <2>1
    <3> QED
      BY <1>1, <1>2, <2>1, <3>1
  <2> QED
    BY <2>1, <2>2, <2>3, <2>4
<1> HIDE DEF e
<1>8. v \in 1..(p - 1) /\ (e * v) % p = 1
  <2>1. \E k \in 1..(p - 1) : (e * k) % p = 1
    <3>1. e \in 1..(p - 1)
      BY <1>1, <1>6, <1>7
    <3>2. p \in Nat /\ p >= 2
      BY <1>1
    <3> QED
      BY <1>1, <3>1, <3>2, Inverses
  <2> QED
    BY <1>5, <2>1
<1> HIDE DEF v
<1>9. v \in Int /\ 1 \in Int
  BY <1>8
<1>10. Same(p, d * v, 1)
  <2>1. Same(p, v, v) /\ Same(p, d, e)
    BY <1>6 DEF Same
  <2>2. Same(p, d * v, e * v)
    BY <1>1, <1>2, <1>6, <1>9, <2>1, SameOps
  <2>3. Same(p, e * v, 1)
    <3>1. 1 % p = 1
      BY <1>1, SameMod
    <3> QED
      BY <1>8, <3>1 DEF Same
  <2> QED
    BY <2>2, <2>3, SameChain
<1>11. ((n * v) % p) \in Int /\ Same(p, ((n * v) % p), n * v)
  <2>1. n * v \in Int
    BY <1>3, <1>9
  <2> QED
    BY <1>1, <2>1, SameMod
<1> DEFINE F == (n * v) % p
<1>12. F \in Int /\ Same(p, F, n * v)
  BY <1>11
<1> HIDE DEF F
<1>13. Same(p, F * d, z)
  <2>1. Same(p, d, d) /\ n * v \in Int
    BY <1>3, <1>9 DEF Same
  <2>2. Same(p, F * d, (n * v) * d)
    BY <1>1, <1>2, <1>12, <2>1, SameOps
  <2> DEFINE w == d * v
  <2>3. (n * v) * d = n * w /\ w \in Int
    BY <1>2, <1>3, <1>9
  <2>4. Same(p, w, 1)
    BY <1>10
  <2> HIDE DEF w
  <2>5. Same(p, n * w, z * 1)
    BY <1>1, <1>2, <1>3, <1>9, <2>3, <2>4, SameOps
  <2>6. z * 1 = z
    BY <1>2
  <2> QED
    BY <2>2, <2>3, <2>5, <2>6, SameChain
<1>14. ASSUME NEW a \in Int, NEW b \in Int, Same(p, d * a, d * b) PROVE Same(p, a, b)
  <2>1. Same(p, v, v) /\ d * a \in Int /\ d * b \in Int
    BY <1>2 DEF Same
  <2>2. Same(p, (d * a) * v, (d * b) * v)
    BY <1>1, <1>9, <1>14, <2>1, SameOps
  <2> DEFINE w == d * v
  <2>3. w \in Int /\ (d * a) * v = w * a /\ (d * b) * v = w * b /\ Same(p, w, 1)
    BY <1>2, <1>9, <1>10
  <2> HIDE DEF w
  <2>4. Same(p, a, a) /\ Same(p, b, b) /\ 1 * a = a /\ 1 * b = b
    BY DEF Same
  <2>5. Same(p, w * a, a) /\ Same(p, w * b, b)
    <3>1. Same(p, w * a, 1 * a) /\ Same(p, w * b, 1 * b)
      BY <1>1, <1>9, <2>3, <2>4, SameOps
    <3> QED
      BY <2>4, <3>1
  <2> QED
    BY <2>2, <2>3, <2>5 DEF Same
<1> QED
  BY <1>4, <1>12, <1>13, <1>14 DEF F, p, d, z

(* The library folds a set by a function on its subsets.                   *)
Pick(s) == CHOOSE e \in s : TRUE

IsBasis(g, m, i, S) ==
    g = [s \in SUBSET S |-> IF s = {} THEN 1
                            ELSE Times(m, g[s \ {Pick(s)}], Factor(m, i, Pick(s)))]

(* Basis is such a function, on the set without i.                         *)
LEMMA BasisIsRecursive ==
  ASSUME NEW m, NEW S, NEW i
  PROVE  Basis(m, S, i) = (CHOOSE g : IsBasis(g, m, i, S \ {i}))[S \ {i}]
BY DEF Basis, FoldSet, MapThenFoldSet, IsBasis, Pick, Factor

(* The basis is 1 for a party alone and takes one factor for each other    *)
(* party, in any order.                                                    *)
LEMMA BasisFacts ==
  ASSUME NEW m \in Moduli, NEW i \in Parties
  PROVE  /\ Basis(m, {i}, i) = 1
         /\ \A S \in SUBSET Parties :
              /\ Basis(m, S, i) \in Int
              /\ \A j \in S \ {i} :
                    Basis(m, S, i) = Times(m, Basis(m, S \ {j}, i), Factor(m, i, j))
<1> DEFINE K == Parties \ {i}
           p == Primes[m]
           H == [j \in K |-> [a \in Int |-> Times(m, a, Factor(m, i, j))]]
           C == Picked(K)
<1>1. p \in Nat \ {0} /\ IsFiniteSet(K)
  BY ModulusFacts, FS_Subset
<1>2. \A j \in K : Factor(m, i, j) \in Int
  BY FactorFacts
<1>3. \A a, b \in Int : Times(m, a, b) = (a * b) % p /\ Times(m, a, b) \in Int
  <2> SUFFICES ASSUME NEW a \in Int, NEW b \in Int PROVE Times(m, a, b) = (a * b) % p /\ Times(m, a, b) \in Int
    OBVIOUS
  <2>1. a * b \in Int
    OBVIOUS
  <2> QED
    BY <1>1, <2>1, SameMod DEF Times
<1>4. \A j \in K : H[j] \in [Int -> Int] /\ \A a \in Int : H[j][a] = Times(m, a, Factor(m, i, j))
  BY <1>2, <1>3
<1>5. \A T \in SUBSET K : T # {} => C[T] \in T /\ C[T] = Pick(T)
  BY PickIsMember DEF Pick
<1> HIDE DEF K, p, H, C
<1>6. Commuting(K, C, Int, H, 1)
  <2>1. \A j, k \in K : \A a \in Int : H[j][H[k][a]] = H[k][H[j][a]]
    <3> SUFFICES ASSUME NEW j \in K, NEW k \in K, NEW a \in Int PROVE H[j][H[k][a]] = H[k][H[j][a]]
      OBVIOUS
    <3> DEFINE fj == Factor(m, i, j)
               fk == Factor(m, i, k)
    <3>1. fj \in Int /\ fk \in Int /\ H[j][a] = Times(m, a, fj) /\ H[k][a] = Times(m, a, fk)
      BY <1>2, <1>4
    <3>2. H[j][H[k][a]] = Times(m, Times(m, a, fk), fj) /\ H[k][H[j][a]] = Times(m, Times(m, a, fj), fk)
      BY <1>3, <1>4, <3>1
    <3> HIDE DEF fj, fk
    <3> DEFINE aj == a * fj
               ak == a * fk
    <3>3. aj \in Int /\ ak \in Int /\ ak * fj = aj * fk
      BY <3>1
    <3>4. Times(m, a, fj) = aj % p /\ Times(m, a, fk) = ak % p
      BY <1>3, <3>1
    <3> HIDE DEF aj, ak
    <3>5. /\ (aj % p) \in Int /\ Same(p, (aj % p), aj) /\ Same(p, fj, fj)
          /\ (ak % p) \in Int /\ Same(p, (ak % p), ak) /\ Same(p, fk, fk)
      BY <1>1, <3>3, SameMod DEF Same
    <3> DEFINE rj == aj % p
               rk == ak % p
    <3>6. rj \in Int /\ rk \in Int /\ Same(p, rj, aj) /\ Same(p, rk, ak)
      BY <3>5
    <3>7. H[j][H[k][a]] = (rk * fj) % p /\ H[k][H[j][a]] = (rj * fk) % p
      BY <1>3, <3>1, <3>2, <3>4, <3>6
    <3> HIDE DEF rj, rk
    <3>8. Same(p, rk * fj, ak * fj) /\ Same(p, rj * fk, aj * fk)
      BY <1>1, <3>1, <3>3, <3>5, <3>6, SameOps
    <3> QED
      BY <3>3, <3>7, <3>8 DEF Same
  <2> QED
    BY <1>1, <1>4, <1>5, <2>1 DEF Commuting
<1>7. PICK g : IsFold(g, K, C, Int, H, 1) /\ AnyOrder(g, K, H)
  BY <1>6, FoldInAnyOrder
<1>8. /\ g[{}] = 1
      /\ \A T \in SUBSET K : g[T] \in Int
      /\ \A T \in SUBSET K : \A j \in T : g[T] = Times(m, g[T \ {j}], Factor(m, i, j))
  <2>1. g[{}] = 1 /\ \A T \in SUBSET K : g[T] \in Int
    BY <1>7 DEF IsFold
  <2> SUFFICES ASSUME NEW T \in SUBSET K, NEW j \in T
               PROVE  g[T] = Times(m, g[T \ {j}], Factor(m, i, j))
    BY <2>1
  <2>2. g[T] = H[j][g[T \ {j}]] /\ j \in K /\ T \ {j} \in SUBSET K
    BY <1>7 DEF AnyOrder
  <2> QED
    BY <1>4, <2>1, <2>2
<1>9. ASSUME NEW S \in SUBSET Parties PROVE Basis(m, S, i) = g[S \ {i}]
  <2> DEFINE R == S \ {i}
             w == [T \in SUBSET R |-> g[T]]
             u == CHOOSE v : IsBasis(v, m, i, R)
  <2>1. R \in SUBSET K
    BY DEF K
  <2>2. Basis(m, S, i) = u[R]
    BY BasisIsRecursive
  <2> HIDE DEF R
  <2>3. \A T \in SUBSET R : T # {} => Pick(T) \in T /\ T \ {Pick(T)} \in SUBSET R /\ T \in SUBSET K
    BY <2>1 DEF Pick
  <2>4. IsBasis(w, m, i, R)
    <3> SUFFICES ASSUME NEW T \in SUBSET R
                 PROVE  w[T] = IF T = {} THEN 1 ELSE Times(m, w[T \ {Pick(T)}], Factor(m, i, Pick(T)))
      BY DEF IsBasis
    <3>1. w[T] = g[T]
      OBVIOUS
    <3>2. CASE T = {}
      BY <1>8, <3>1, <3>2
    <3>3. CASE T # {}
      <4>1. w[T \ {Pick(T)}] = g[T \ {Pick(T)}]
        BY <2>3, <3>3
      <4>2. g[T] = Times(m, g[T \ {Pick(T)}], Factor(m, i, Pick(T)))
        BY <1>8, <2>3, <3>3
      <4> QED
        BY <3>1, <3>3, <4>1, <4>2
    <3> QED
      BY <3>2, <3>3
  <2> HIDE DEF w
  <2>5. IsBasis(u, m, i, R)
    BY <2>4
  <2> HIDE DEF u
  <2>6. u[{}] = 1 /\ \A T \in SUBSET R : T # {} => u[T] = Times(m, u[T \ {Pick(T)}], Factor(m, i, Pick(T)))
    BY <2>5 DEF IsBasis
  <2>7. ASSUME NEW T \in SUBSET R, T # {}, u[T \ {C[T]}] \in Int
        PROVE  u[T] = H[C[T]][u[T \ {C[T]}]]
    <3>1. C[T] = Pick(T) /\ C[T] \in K
      BY <1>5, <2>1, <2>7
    <3> QED
      BY <1>4, <2>6, <2>7, <3>1
  <2>8. \A T \in SUBSET R : u[T] = g[T]
    <3>1. Chooses(C, K)
      BY <1>1, <1>5 DEF Chooses
    <3>2. Follows(u, R, C, Int, H, 1)
      BY <2>6, <2>7 DEF Follows
    <3>3. IsFold(g, K, C, Int, H, 1)
      BY <1>7
    <3>4. Agree(u, g, R)
      BY <2>1, <3>1, <3>2, <3>3, Unfold
    <3> QED
      BY <3>4 DEF Agree
  <2>9. R \in SUBSET R
    OBVIOUS
  <2> QED
    BY <2>2, <2>8, <2>9 DEF R
<1>10. Basis(m, {i}, i) = 1
  <2>1. {i} \in SUBSET Parties /\ {i} \ {i} = {}
    OBVIOUS
  <2> QED
    BY <1>8, <1>9, <2>1
<1>11. ASSUME NEW S \in SUBSET Parties, NEW j \in S \ {i}
       PROVE  Basis(m, S, i) = Times(m, Basis(m, S \ {j}, i), Factor(m, i, j))
  <2>1. S \ {j} \in SUBSET Parties /\ (S \ {j}) \ {i} = (S \ {i}) \ {j} /\ S \ {i} \in SUBSET K
    BY DEF K
  <2>2. g[S \ {i}] = Times(m, g[(S \ {i}) \ {j}], Factor(m, i, j))
    BY <1>8, <2>1
  <2> QED
    BY <1>9, <2>1, <2>2
<1>12. ASSUME NEW S \in SUBSET Parties PROVE Basis(m, S, i) \in Int
  BY <1>8, <1>9 DEF K
<1> QED
  BY <1>10, <1>11, <1>12

(* The Lagrange basis of each prime is a set of such weights.              *)
BasisOf(m) == [S \in SUBSET Parties |-> [i \in Parties |-> Basis(m, S, i)]]

(* They satisfy the two equations that the interpolation rests on.         *)
LEMMA BasisWeighs ==
  ASSUME NEW m \in Moduli
  PROVE  Weights(Primes[m], Parties, BasisOf(m))
<1> DEFINE p == Primes[m]
           B == BasisOf(m)
<1>1. p \in Nat \ {0} /\ Parties \subseteq Int /\ IsFiniteSet(Parties)
  BY ModulusFacts
<1>2. /\ B \in [SUBSET Parties -> [Parties -> Int]]
      /\ \A S \in SUBSET Parties : \A i \in Parties : B[S][i] = Basis(m, S, i)
  BY BasisFacts DEF BasisOf
<1> HIDE DEF p, B
<1>3. WeightTypes(p, Parties, B)
  BY <1>1, <1>2 DEF WeightTypes
<1>4. \A i \in Parties : Same(p, B[{i}][i], 1)
  BY <1>2, BasisFacts DEF Same
<1>5. ASSUME NEW S \in SUBSET Parties, NEW i \in S, NEW j \in S, i # j
      PROVE  Same(p, B[S][i] * (i - j), (0 - (j + 1)) * B[S \ {j}][i])
  <2> DEFINE d == i - j
             z == 0 - (j + 1)
             b == B[S \ {j}][i]
             f == Factor(m, i, j)
             c == B[S][i]
  <2>1. i \in Parties /\ j \in Parties /\ S \ {j} \in SUBSET Parties /\ j \in S \ {i}
    BY <1>5
  <2>2. d \in Int /\ z \in Int
    BY <1>1, <2>1
  <2>3. b \in Int /\ c \in Int
    BY <1>2, <2>1
  <2>4. f \in Int /\ Same(p, f * d, z)
    BY <1>5, <2>1, FactorFacts DEF p
  <2>5. c = (b * f) % p
    <3>1. Basis(m, S, i) = Times(m, Basis(m, S \ {j}, i), Factor(m, i, j))
      BY <2>1, BasisFacts
    <3> QED
      BY <1>2, <2>1, <3>1 DEF Times, p
  <2> HIDE DEF d, z, b, f, c
  <2>6. b * f \in Int /\ f * d \in Int
    BY <2>2, <2>3, <2>4
  <2>7. Same(p, c, b * f) /\ Same(p, d, d) /\ Same(p, b, b)
    BY <1>1, <2>5, <2>6, SameMod DEF Same
  <2>8. Same(p, c * d, (b * f) * d)
    BY <1>1, <2>2, <2>3, <2>6, <2>7, SameOps
  <2>9. Same(p, b * (f * d), b * z)
    BY <1>1, <2>2, <2>3, <2>4, <2>6, <2>7, SameOps
  <2>10. (b * f) * d = b * (f * d) /\ b * z = z * b
    BY <2>2, <2>3, <2>4
  <2> QED
    BY <2>8, <2>9, <2>10, SameChain DEF d, z, b, c
<1>6. \A i, j \in Parties : \A a, b \in Int :
         i # j /\ Same(p, (i - j) * a, (i - j) * b) => Same(p, a, b)
  BY FactorFacts DEF p
<1>7. Weights(p, Parties, B)
  BY <1>3, <1>4, <1>5, <1>6 DEF Weights
<1> QED
  BY <1>7 DEF p, B

(* The sum over the shares, as the library folds it.                       *)
IsInterpolation(g, m, S, f) ==
    g = [s \in SUBSET S |-> IF s = {} THEN 0
                            ELSE Plus(m, g[s \ {Pick(s)}],
                                      Times(m, f[Pick(s)], Basis(m, S, Pick(s))))]

(* Interpolate is such a function too.                                     *)
LEMMA InterpolateIsRecursive ==
  ASSUME NEW m, NEW S, NEW f
  PROVE  Interpolate(m, S, f) = (CHOOSE g : IsInterpolation(g, m, S, f))[S]
BY DEF Interpolate, FoldSet, MapThenFoldSet, IsInterpolation, Pick

(* What the leader computes is the weighted sum of the shares.             *)
LEMMA InterpolateIsWeighted ==
  ASSUME NEW m \in Moduli, NEW S \in SUBSET Parties, NEW f \in [S -> Int]
  PROVE  /\ Weighted(BasisOf(m), S, f) \in Int
         /\ Interpolate(m, S, f) = Weighted(BasisOf(m), S, f) % Primes[m]
<1> DEFINE p == Primes[m]
           k == [i \in S |-> BasisOf(m)[S][i] * f[i]]
           w == [T \in SUBSET S |-> Sum(k, T) % p]
           u == CHOOSE v : IsInterpolation(v, m, S, f)
<1>1. p \in Nat \ {0} /\ IsFiniteSet(S) /\ Junk \notin Int
  BY ModulusFacts, FS_Subset, Yyh26Assumption
<1>2. \A i \in S : Basis(m, S, i) \in Int /\ BasisOf(m)[S][i] = Basis(m, S, i) /\ f[i] \in Int
  BY BasisFacts DEF BasisOf
<1>3. \A i \in S : f[i] * Basis(m, S, i) \in Int /\ k[i] = f[i] * Basis(m, S, i)
  <2> SUFFICES ASSUME NEW i \in S PROVE f[i] * Basis(m, S, i) \in Int /\ k[i] = f[i] * Basis(m, S, i)
    OBVIOUS
  <2> DEFINE b == Basis(m, S, i)
             fi == f[i]
  <2>1. b \in Int /\ fi \in Int /\ k[i] = b * fi
    BY <1>2
  <2> HIDE DEF b, fi, k
  <2>2. b * fi = fi * b /\ fi * b \in Int
    BY <2>1
  <2> QED
    BY <2>1, <2>2 DEF b, fi
<1>4. k \in [S -> Int]
  BY <1>3
<1>5. Weighted(BasisOf(m), S, f) = Sum(k, S)
  BY DEF Weighted
<1>6. Interpolate(m, S, f) = u[S]
  BY InterpolateIsRecursive
<1> HIDE DEF p, k
<1>7. /\ Sum(k, {}) = 0
      /\ \A T \in SUBSET S : /\ Sum(k, T) \in Int
                             /\ \A i \in T : Sum(k, T) = Sum(k, T \ {i}) + k[i]
  BY <1>1, <1>4, SumFacts
<1>8. \A T \in SUBSET S : T # {} => Pick(T) \in T /\ Pick(T) \in S /\ T \ {Pick(T)} \in SUBSET S
  BY DEF Pick
<1>9. ASSUME NEW T \in SUBSET S, T # {}
      PROVE  Sum(k, T) % p =
                Plus(m, Sum(k, T \ {Pick(T)}) % p, Times(m, f[Pick(T)], Basis(m, S, Pick(T))))
  <2> DEFINE i == Pick(T)
             a == Sum(k, T \ {i})
             b == k[i]
             ra == a % p
             rb == b % p
  <2>1. i \in T /\ i \in S /\ T \ {i} \in SUBSET S
    BY <1>8, <1>9
  <2>2. a \in Int /\ b \in Int /\ Sum(k, T) = a + b
    BY <1>4, <1>7, <2>1
  <2>3. Times(m, f[i], Basis(m, S, i)) = rb
    BY <1>3, <2>1 DEF Times, p
  <2> HIDE DEF i, a, b
  <2>4. ra \in Int /\ rb \in Int /\ Same(p, ra, a) /\ Same(p, rb, b)
    BY <1>1, <2>2, SameMod
  <2> HIDE DEF ra, rb
  <2>5. Same(p, ra + rb, a + b)
    BY <1>1, <2>2, <2>4, SameOps
  <2>6. Plus(m, ra, rb) = (ra + rb) % p
    BY <1>1, <2>4 DEF Plus, p
  <2> QED
    BY <2>2, <2>3, <2>5, <2>6 DEF Same, i, a, ra
<1>10. IsInterpolation(w, m, S, f)
  <2> SUFFICES ASSUME NEW T \in SUBSET S
               PROVE  w[T] = IF T = {} THEN 0
                             ELSE Plus(m, w[T \ {Pick(T)}], Times(m, f[Pick(T)], Basis(m, S, Pick(T))))
    BY DEF IsInterpolation
  <2>1. CASE T = {}
    <3>1. 0 % p = 0
      BY <1>1, SameMod
    <3> QED
      BY <1>7, <2>1, <3>1
  <2>2. CASE T # {}
    BY <1>8, <1>9, <2>2
  <2> QED
    BY <2>1, <2>2
<1>11. IsInterpolation(u, m, S, f)
  BY <1>10
<1> HIDE DEF u
<1>12. u = w
  <2> DEFINE Bad == {T \in SUBSET S : u[T] # w[T]}
  <2> SUFFICES ASSUME Bad # {} PROVE FALSE
    BY <1>11 DEF IsInterpolation
  <2>1. PICK T \in Bad : \A i \in T : T \ {i} \notin Bad
    <3>1. Bad \in SUBSET SUBSET S
      OBVIOUS
    <3> HIDE DEF Bad
    <3> QED
      BY <1>1, <3>1, SmallestBad
  <2>2. T \in SUBSET S /\ u[T] # w[T]
    OBVIOUS
  <2> HIDE DEF w
  <2>3. T # {}
    BY <1>10, <1>11, <2>2 DEF IsInterpolation
  <2>4. u[T \ {Pick(T)}] = w[T \ {Pick(T)}]
    <3>1. Pick(T) \in T /\ T \ {Pick(T)} \in SUBSET S
      BY <1>8, <2>2, <2>3
    <3> QED
      BY <2>1, <3>1
  <2> QED
    BY <1>10, <1>11, <2>2, <2>3, <2>4 DEF IsInterpolation
<1>13. u[S] = Sum(k, S) % p /\ Sum(k, S) \in Int
  BY <1>7, <1>12
<1> QED
  BY <1>5, <1>6, <1>13 DEF p

-----------------------------------------------------------------------------
(* Horner's rule: the library's fold, from the last coefficient.           *)
LEMMA MinIsLeast ==
  ASSUME NEW T \in SUBSET Nat, T # {}
  PROVE  Min(T) \in T /\ \A k \in T : Min(T) <= k
<1>1. PICK i \in T : \A k \in T : ~ k < i
  BY LeastOf
<1>2. i \in T /\ \A k \in T : i <= k
  BY <1>1
<1> QED
  BY <1>2 DEF Min

(* The value of a polynomial, as the library folds its coefficients.       *)
IsHorner(g, m, c, point) ==
    g = [s \in SUBSET DOMAIN c |->
           IF s = {} THEN 0
           ELSE (g[s \ {Min(s)}] * point + c[Min(s)]) % Primes[m]]

(* Eval is Horner's rule, from the first coefficient on.                   *)
LEMMA EvalIsRecursive ==
  ASSUME NEW m, NEW c, NEW point
  PROVE  Eval(m, c, point) = (CHOOSE g : IsHorner(g, m, c, point))[DOMAIN c]
BY DEF Eval, FoldRight, MapThenFoldSet, IsHorner

(* Horner's rule gives an integer for every set of the coefficients.       *)
LEMMA HornerExists ==
  ASSUME NEW m \in Moduli, NEW n \in Nat, NEW c \in [1..n -> Int], NEW point \in Int
  PROVE  \E g : IsHorner(g, m, c, point) /\ \A T \in SUBSET 1..n : g[T] \in Int
<1> DEFINE p == Primes[m]
           D == 1..n
           H == [k \in D |-> [a \in Int |-> (a * point + c[k]) % p]]
           C == [T \in SUBSET D |-> Min(T)]
<1>1. p \in Nat \ {0} /\ IsFiniteSet(D) /\ D \in SUBSET Nat
  <2>1. p \in Nat \ {0}
    BY ModulusFacts
  <2>2. IsFiniteSet(D)
    BY FS_Interval
  <2> QED
    BY <2>1, <2>2
<1>2. \A k \in D : \A a \in Int : ((a * point + c[k]) % p) \in Int
  <2> SUFFICES ASSUME NEW k \in D, NEW a \in Int PROVE ((a * point + c[k]) % p) \in Int
    OBVIOUS
  <2> DEFINE e == a * point + c[k]
  <2>1. e \in Int
    <3>1. c[k] \in Int
      OBVIOUS
    <3> QED
      BY <3>1
  <2> HIDE DEF e
  <2>2. (e % p) \in Int
    BY <1>1, <2>1, SameMod
  <2> QED
    BY <2>2 DEF e
<1>3. \A k \in D : H[k] \in [Int -> Int] /\ \A a \in Int : H[k][a] = (a * point + c[k]) % p
  BY <1>2
<1>4. \A T \in SUBSET D : T # {} => C[T] \in T /\ C[T] = Min(T)
  BY <1>1, MinIsLeast
<1>5. DOMAIN c = D
  OBVIOUS
<1> HIDE DEF D, H, C, p
<1>6. PICK g : IsFold(g, D, C, Int, H, 0)
  <2>1. \A T \in SUBSET D : T # {} => C[T] \in T
    BY <1>4
  <2>2. \A k \in D : H[k] \in [Int -> Int]
    BY <1>3, Zenon
  <2>3. 0 \in Int
    OBVIOUS
  <2> QED
    BY <1>1, <2>1, <2>2, <2>3, FoldExists
<1>7. g \in [SUBSET D -> Int]
  BY <1>6 DEF IsFold
<1>8. ASSUME NEW T \in SUBSET D
      PROVE  g[T] = IF T = {} THEN 0 ELSE (g[T \ {Min(T)}] * point + c[Min(T)]) % p
  <2>1. CASE T = {}
    BY <1>6, <2>1 DEF IsFold
  <2>2. CASE T # {}
    <3>1. g[T] = H[Min(T)][g[T \ {Min(T)}]] /\ Min(T) \in D
      BY <1>4, <1>6, <2>2 DEF IsFold
    <3>2. g[T \ {Min(T)}] \in Int
      BY <1>7
    <3> QED
      BY <1>3, <2>2, <3>1, <3>2
  <2> QED
    BY <2>1, <2>2
<1>9. IsHorner(g, m, c, point)
  BY <1>5, <1>7, <1>8 DEF IsHorner, p
<1> QED
  BY <1>7, <1>9 DEF D

(* The values of the polynomials that start at the k-th coefficient.       *)
LEMMA EvalFacts ==
  ASSUME NEW m \in Moduli, NEW n \in Nat, NEW c \in [1..n -> Int], NEW point \in Int
  PROVE  \E e \in [1..(n + 1) -> Int] :
            /\ e[n + 1] = 0
            /\ \A k \in 1..n : e[k] = (e[k + 1] * point + c[k]) % Primes[m]
            /\ Eval(m, c, point) = e[1]
<1> DEFINE D == 1..n
           u == CHOOSE g : IsHorner(g, m, c, point)
<1>1. PICK g : IsHorner(g, m, c, point) /\ \A T \in SUBSET D : g[T] \in Int
  BY HornerExists
<1>2. IsHorner(u, m, c, point) /\ Eval(m, c, point) = u[D]
  BY <1>1, EvalIsRecursive
<1>3. IsFiniteSet(D) /\ D \in SUBSET Nat /\ DOMAIN c = D
  BY FS_Interval
<1>4. \A T \in SUBSET D : T # {} => Min(T) \in T /\ \A k \in T : Min(T) <= k
  BY MinIsLeast
<1> HIDE DEF u, D
<1>5. u = g
  <2> DEFINE Bad == {T \in SUBSET D : u[T] # g[T]}
  <2> SUFFICES ASSUME Bad # {} PROVE FALSE
    BY <1>1, <1>2, <1>3 DEF IsHorner
  <2>1. PICK T \in Bad : \A i \in T : T \ {i} \notin Bad
    <3>1. Bad \in SUBSET SUBSET D
      OBVIOUS
    <3> HIDE DEF Bad
    <3> QED
      BY <1>3, <3>1, SmallestBad
  <2>2. T \in SUBSET D /\ u[T] # g[T]
    OBVIOUS
  <2>3. T # {}
    BY <1>1, <1>2, <1>3, <2>2 DEF IsHorner
  <2>4. u[T \ {Min(T)}] = g[T \ {Min(T)}]
    <3>1. Min(T) \in T /\ T \ {Min(T)} \in SUBSET D
      BY <1>4, <2>2, <2>3
    <3> QED
      BY <2>1, <3>1
  <2> QED
    BY <1>1, <1>2, <1>3, <2>2, <2>3, <2>4 DEF IsHorner
<1> DEFINE e == [k \in 1..(n + 1) |-> g[k..n]]
<1>6. \A k \in 1..(n + 1) : k..n \in SUBSET D
  BY DEF D
<1>7. e \in [1..(n + 1) -> Int]
  BY <1>1, <1>6
<1>8. e[n + 1] = 0
  <2>1. (n + 1)..n = {}
    OBVIOUS
  <2>2. g[{}] = 0
    BY <1>1, <1>3 DEF IsHorner
  <2> QED
    BY <2>1, <2>2
<1>9. ASSUME NEW k \in 1..n PROVE e[k] = (e[k + 1] * point + c[k]) % Primes[m]
  <2>1. k..n \in SUBSET D /\ k..n # {} /\ k \in k..n
    BY <1>6
  <2>2. Min(k..n) = k
    <3> DEFINE l == Min(k..n)
    <3>1. l \in k..n /\ l <= k
      BY <1>4, <2>1
    <3> HIDE DEF l
    <3>2. l = k
      BY <3>1
    <3> QED
      BY <3>2 DEF l
  <2>3. (k..n) \ {k} = (k + 1)..n
    OBVIOUS
  <2>4. g[k..n] = (g[(k..n) \ {Min(k..n)}] * point + c[Min(k..n)]) % Primes[m]
    BY <1>1, <1>3, <2>1 DEF IsHorner
  <2>5. g[k..n] = (g[(k + 1)..n] * point + c[k]) % Primes[m]
    BY <2>2, <2>3, <2>4
  <2>6. e[k] = g[k..n] /\ e[k + 1] = g[(k + 1)..n]
    OBVIOUS
  <2> QED
    BY <2>5, <2>6
<1>10. e[1] = Eval(m, c, point)
  BY <1>2, <1>5 DEF D
<1> HIDE DEF e
<1> QED
  BY <1>7, <1>8, <1>9, <1>10

(* The weights find the first coefficient of a polynomial that has no more *)
(* coefficients than there are parties.                                    *)
LEMMA PolynomialAtZero ==
  ASSUME NEW m \in Moduli, NEW n \in Nat \ {0}, NEW c \in [1..n -> Int],
         NEW S \in SUBSET Parties, Cardinality(S) >= n
  PROVE  /\ [i \in Parties |-> Eval(m, c, i + 1)] \in [Parties -> Int]
         /\ Same(Primes[m], Weighted(BasisOf(m), S, [i \in Parties |-> Eval(m, c, i + 1)]), c[1])
<1> DEFINE p == Primes[m]
           Levels(e, i) == /\ e \in [1..(n + 1) -> Int]
                           /\ e[n + 1] = 0
                           /\ \A k \in 1..n : e[k] = (e[k + 1] * (i + 1) + c[k]) % p
                           /\ Eval(m, c, i + 1) = e[1]
           Q == [i \in Parties |-> CHOOSE e : Levels(e, i)]
           E == [k \in 1..(n + 1) |-> [i \in Parties |-> Q[i][k]]]
           cc == [k \in 1..(n + 1) |-> IF k = n + 1 THEN 0 ELSE c[k]]
           F == [i \in Parties |-> Eval(m, c, i + 1)]
<1>1. p \in Nat \ {0} /\ Parties \subseteq Int
  BY ModulusFacts
<1>2. \A i \in Parties : Levels(Q[i], i)
  <2> SUFFICES ASSUME NEW i \in Parties PROVE Levels(Q[i], i)
    OBVIOUS
  <2>1. i + 1 \in Int
    BY <1>1
  <2> DEFINE point == i + 1
  <2>2. \E e : Levels(e, i)
    <3> HIDE DEF point
    <3>1. n \in Nat /\ point \in Int
      BY <2>1 DEF point
    <3>2. PICK e \in [1..(n + 1) -> Int] :
                 /\ e[n + 1] = 0
                 /\ \A k \in 1..n : e[k] = (e[k + 1] * point + c[k]) % p
                 /\ Eval(m, c, point) = e[1]
      BY <3>1, EvalFacts
    <3> QED
      BY <3>2 DEF point
  <2> HIDE DEF Levels
  <2> QED
    BY <2>2
<1> HIDE DEF Q
<1>3. E \in [1..(n + 1) -> [Parties -> Int]] /\ \A i \in Parties : E[n + 1][i] = 0
  <2>1. \A i \in Parties : Q[i] \in [1..(n + 1) -> Int] /\ Q[i][n + 1] = 0
    BY <1>2
  <2>2. \A k \in 1..(n + 1) : \A i \in Parties : Q[i][k] \in Int
    BY <2>1
  <2>3. n + 1 \in 1..(n + 1)
    OBVIOUS
  <2> QED
    BY <2>1, <2>2, <2>3
<1>4. cc \in [1..(n + 1) -> Int] /\ cc[n + 1] = 0 /\ \A k \in 1..n : cc[k] = c[k]
  OBVIOUS
<1>5. \A k \in 1..n : \A i \in Parties : Same(p, E[k][i], E[k + 1][i] * (i + 1) + cc[k])
  <2> SUFFICES ASSUME NEW k \in 1..n, NEW i \in Parties
               PROVE  Same(p, E[k][i], E[k + 1][i] * (i + 1) + cc[k])
    OBVIOUS
  <2> DEFINE e == Q[i][k + 1]
             a == e * (i + 1) + c[k]
  <2>1. Q[i][k] = a % p /\ Q[i] \in [1..(n + 1) -> Int]
    BY <1>2
  <2>2. e \in Int /\ c[k] \in Int /\ i \in Int
    BY <1>1, <2>1
  <2>3. a \in Int
    <3> HIDE DEF e
    <3> QED
      BY <2>2
  <2>4. E[k][i] = Q[i][k] /\ E[k + 1][i] = e /\ cc[k] = c[k]
    BY <1>4
  <2> HIDE DEF a, E, cc, e
  <2>5. Same(p, (a % p), a)
    BY <1>1, <2>3, SameMod
  <2> QED
    BY <2>1, <2>4, <2>5 DEF a
<1>6. F = E[1] /\ 1 \in 1..n
  <2>1. \A i \in Parties : Eval(m, c, i + 1) = Q[i][1]
    BY <1>2
  <2> QED
    BY <2>1
<1> HIDE DEF E, cc, F, Levels
<1>7. n - 1 + 1 = n /\ n \in Nat /\ Weights(p, Parties, BasisOf(m))
  BY BasisWeighs
<1>8. \A k \in 1..n : \A R \in SUBSET Parties :
         Cardinality(R) >= n - k + 1 => Same(p, Weighted(BasisOf(m), R, E[k]), cc[k])
  BY <1>3, <1>4, <1>5, <1>7, InterpolatesAtZero
<1>9. Same(p, Weighted(BasisOf(m), S, E[1]), cc[1]) /\ cc[1] = c[1] /\ E[1] \in [Parties -> Int]
  <2>1. Cardinality(S) >= n - 1 + 1 /\ 1 \in 1..(n + 1)
    BY <1>7
  <2>2. Same(p, Weighted(BasisOf(m), S, E[1]), cc[1])
    BY <1>6, <1>8, <2>1
  <2> QED
    BY <1>3, <1>4, <1>6, <2>1, <2>2
<1> QED
  BY <1>6, <1>9 DEF F, p

-----------------------------------------------------------------------------
(* What is drawn and asked for.                                            *)
Drawn ==
    /\ threshold \in 1..N
    /\ leader \in Parties
    /\ tape.a \in [1..(N - 1) -> Nat]
    /\ tape.g \in [Members -> [1..(N - 1) -> Nat]]
    /\ tape.r \in [Members -> [Members -> [Slots -> Nat]]]
    /\ tape.d \in [Members -> [Members -> [Slots -> Nat]]]

UpdatesFor(m, i) == [v \in Members |-> UpdateValue(m, v, i)]

Refreshed(m, i) == Share(m, i) + Sum(UpdatesFor(m, i), Members)

(* A polynomial with a first coefficient and threshold - 1 that are drawn. *)
LEMMA SharedAtZero ==
  ASSUME Drawn, NEW m \in Moduli, NEW S \in SUBSET Parties, Cardinality(S) >= threshold,
         NEW a0 \in Nat, NEW s \in [1..(N - 1) -> Nat]
  PROVE  LET F == [i \in Parties |-> Eval(m, <<a0>> \o Prefix(s), i + 1)]
         IN  F \in [Parties -> Int] /\ Same(Primes[m], Weighted(BasisOf(m), S, F), a0)
<1> DEFINE c == <<a0>> \o Prefix(s)
<1>1. N \in Nat /\ N >= 2 /\ threshold \in 1..N /\ threshold \in Nat \ {0}
  BY Yyh26Assumption DEF Drawn
<1>2. s \in Seq(Nat) /\ Len(s) = N - 1
  BY <1>1
<1>3. Prefix(s) \in Seq(Nat) /\ Len(Prefix(s)) = threshold - 1
  BY <1>1, <1>2 DEF Prefix
<1>4. c \in Seq(Nat) /\ Len(c) = threshold /\ c[1] = a0
  <2> HIDE DEF Prefix
  <2> QED
    BY <1>1, <1>3
<1>5. c \in [1..threshold -> Int]
  <2> HIDE DEF c
  <2>1. c \in [1..threshold -> Nat]
    BY <1>4
  <2>2. \A k \in 1..threshold : c[k] \in Int
    BY <2>1
  <2> QED
    BY <2>1, <2>2
<1> HIDE DEF c
<1>6. LET F == [i \in Parties |-> Eval(m, c, i + 1)]
      IN  F \in [Parties -> Int] /\ Same(Primes[m], Weighted(BasisOf(m), S, F), a0)
  BY <1>1, <1>4, <1>5, PolynomialAtZero
<1> QED
  BY <1>6 DEF c

(* Sharings of zero do not move the value at zero: any threshold parties   *)
(* interpolate the leader's element from refreshed shares.                 *)
LEMMA RefreshedAtZero ==
  ASSUME Drawn, NEW m \in Moduli, NEW S \in SUBSET Parties, Cardinality(S) >= threshold,
         NEW f \in [S -> Int], \A i \in S : Same(Primes[m], f[i], Refreshed(m, i))
  PROVE  Interpolate(m, S, f) = Block[x] % Primes[m]
<1> DEFINE p == Primes[m]
           B == BasisOf(m)
           b0 == Block[x]
           sh == [i \in Parties |-> Share(m, i)]
           up(v) == [i \in Parties |-> UpdateValue(m, v, i)]
           part(V) == [i \in Parties |-> Share(m, i) + Sum(UpdatesFor(m, i), V)]
           W(h) == Weighted(B, S, h)
           Good(V) == Same(p, W(part(V)), b0)
           Bad == {V \in SUBSET Members : ~ Good(V)}
<1>1. p \in Nat \ {0} /\ Weights(p, Parties, B)
  BY ModulusFacts, BasisWeighs
<1>2. b0 \in Nat /\ IsFiniteSet(Members) /\ N \in Nat
  <2>1. N \in Nat /\ b0 \in Nat
    BY Yyh26Assumption
  <2> QED
    BY <2>1, FS_Interval DEF Members
<1>3. sh \in [Parties -> Int] /\ Same(p, W(sh), b0)
  <2>1. tape.a \in [1..(N - 1) -> Nat]
    BY DEF Drawn
  <2> QED
    BY <1>2, <2>1, SharedAtZero DEF Share
<1>4. \A v \in Members : up(v) \in [Parties -> Int] /\ Same(p, W(up(v)), 0)
  <2> SUFFICES ASSUME NEW v \in Members PROVE up(v) \in [Parties -> Int] /\ Same(p, W(up(v)), 0)
    OBVIOUS
  <2>1. tape.g[v] \in [1..(N - 1) -> Nat]
    BY DEF Drawn
  <2> DEFINE s == tape.g[v]
             a0 == 0
             F == [i \in Parties |-> Eval(m, <<a0>> \o Prefix(s), i + 1)]
  <2>2. up(v) = F
    BY DEF UpdateValue
  <2>3. s \in [1..(N - 1) -> Nat] /\ a0 \in Nat
    BY <2>1
  <2> HIDE DEF s, a0
  <2>4. F \in [Parties -> Int] /\ Same(p, W(F), a0)
    BY <2>3, SharedAtZero
  <2> QED
    BY <2>2, <2>4 DEF a0
<1>5. \A i \in Parties :
        /\ UpdatesFor(m, i) \in [Members -> Int]
        /\ \A v \in Members : UpdatesFor(m, i)[v] = UpdateValue(m, v, i) /\ UpdateValue(m, v, i) \in Int
  <2> SUFFICES ASSUME NEW i \in Parties
               PROVE  \A v \in Members : UpdateValue(m, v, i) \in Int
    BY DEF UpdatesFor
  <2> SUFFICES ASSUME NEW v \in Members PROVE UpdateValue(m, v, i) \in Int
    OBVIOUS
  <2>1. up(v)[i] = UpdateValue(m, v, i)
    OBVIOUS
  <2> HIDE DEF up
  <2> QED
    BY <1>4, <2>1
<1>6. \A i \in Parties : Share(m, i) \in Int
  <2> SUFFICES ASSUME NEW i \in Parties PROVE Share(m, i) \in Int
    OBVIOUS
  <2>1. sh[i] = Share(m, i)
    OBVIOUS
  <2> HIDE DEF sh
  <2> QED
    BY <1>3, <2>1
<1>7. \A i \in Parties : /\ Sum(UpdatesFor(m, i), {}) = 0
                         /\ \A V \in SUBSET Members :
                              /\ Sum(UpdatesFor(m, i), V) \in Int
                              /\ \A v \in V : Sum(UpdatesFor(m, i), V) =
                                              Sum(UpdatesFor(m, i), V \ {v}) + UpdateValue(m, v, i)
  <2> SUFFICES ASSUME NEW i \in Parties
               PROVE  /\ Sum(UpdatesFor(m, i), {}) = 0
                      /\ \A V \in SUBSET Members :
                           /\ Sum(UpdatesFor(m, i), V) \in Int
                           /\ \A v \in V : Sum(UpdatesFor(m, i), V) =
                                           Sum(UpdatesFor(m, i), V \ {v}) + UpdateValue(m, v, i)
    OBVIOUS
  <2> DEFINE U == UpdatesFor(m, i)
  <2>1. U \in [Members -> Int] /\ \A v \in Members : U[v] = UpdateValue(m, v, i)
    BY <1>5
  <2> HIDE DEF U
  <2>2. /\ Sum(U, {}) = 0
        /\ \A V \in SUBSET Members : /\ Sum(U, V) \in Int
                                     /\ \A v \in V : Sum(U, V) = Sum(U, V \ {v}) + U[v]
    BY <1>2, <2>1, SumFacts
  <2>3. \A V \in SUBSET Members : \A v \in V : Sum(U, V) = Sum(U, V \ {v}) + UpdateValue(m, v, i)
    <3> SUFFICES ASSUME NEW V \in SUBSET Members, NEW v \in V
                 PROVE  Sum(U, V) = Sum(U, V \ {v}) + UpdateValue(m, v, i)
      OBVIOUS
    <3>1. v \in Members /\ U[v] = UpdateValue(m, v, i)
      BY <2>1
    <3> QED
      BY <2>2, <3>1
  <2> QED
    BY <2>2, <2>3 DEF U
<1> HIDE DEF p, B, b0
<1>8. \A V \in SUBSET Members : part(V) \in [Parties -> Int]
  <2> SUFFICES ASSUME NEW V \in SUBSET Members PROVE part(V) \in [Parties -> Int]
    OBVIOUS
  <2>1. \A i \in Parties : Share(m, i) + Sum(UpdatesFor(m, i), V) \in Int
    BY <1>6, <1>7
  <2> QED
    BY <2>1
<1>9. part({}) = sh
  <2>1. \A i \in Parties : Share(m, i) + Sum(UpdatesFor(m, i), {}) = Share(m, i)
    BY <1>6, <1>7
  <2> QED
    BY <2>1
<1>10. \A V \in SUBSET Members : \A v \in V : \A i \in S :
          part(V)[i] = 1 * part(V \ {v})[i] + 1 * up(v)[i]
  <2> SUFFICES ASSUME NEW V \in SUBSET Members, NEW v \in V, NEW i \in S
               PROVE  part(V)[i] = 1 * part(V \ {v})[i] + 1 * up(v)[i]
    OBVIOUS
  <2> DEFINE a == Share(m, i)
             b == Sum(UpdatesFor(m, i), V)
             c == Sum(UpdatesFor(m, i), V \ {v})
             d == UpdateValue(m, v, i)
  <2>1. i \in Parties /\ v \in Members /\ V \ {v} \in SUBSET Members
    OBVIOUS
  <2>2. part(V)[i] = a + b /\ part(V \ {v})[i] = a + c /\ up(v)[i] = d
    BY <2>1
  <2>3. a \in Int /\ b \in Int /\ c \in Int /\ d \in Int /\ b = c + d
    BY <1>5, <1>6, <1>7, <2>1
  <2> HIDE DEF a, b, c, d, part, up
  <2> QED
    BY <2>2, <2>3
<1> HIDE DEF sh, up, part
<1>11. Bad = {}
  <2> SUFFICES ASSUME Bad # {} PROVE FALSE
    OBVIOUS
  <2>1. PICK V \in Bad : \A v \in V : V \ {v} \notin Bad
    <3>1. Bad \in SUBSET SUBSET Members
      OBVIOUS
    <3> HIDE DEF Bad
    <3> QED
      BY <1>2, <3>1, SmallestBad
  <2>2. V \in SUBSET Members /\ ~ Good(V)
    OBVIOUS
  <2>3. V # {}
    BY <1>3, <1>9, <2>2
  <2>4. PICK v \in V : TRUE
    BY <2>3
  <2> DEFINE R == V \ {v}
             k == part(V)
             h == part(R)
             u == up(v)
  <2>5. R \in SUBSET Members /\ Good(R)
    BY <2>1, <2>2
  <2>6. k \in [Parties -> Int] /\ h \in [Parties -> Int] /\ u \in [Parties -> Int] /\ 1 \in Int
    BY <1>4, <1>8, <2>2, <2>5
  <2>7. \A i \in S : Same(p, k[i], 1 * h[i] + 1 * u[i])
    BY <1>10, <2>2 DEF Same
  <2>8. Same(p, W(h), b0) /\ Same(p, W(u), 0)
    BY <1>4, <2>2, <2>5
  <2> HIDE DEF k, h, u, R
  <2>9. /\ W(h) \in Int /\ W(u) \in Int /\ W(k) \in Int
        /\ Same(p, W(k), 1 * W(h) + 1 * W(u))
    BY <1>1, <2>6, <2>7, WeightedIsLinear
  <2> DEFINE wh == W(h)
             wu == W(u)
             wk == W(k)
  <2>10. wh \in Int /\ wu \in Int /\ wk \in Int /\ Same(p, wk, 1 * wh + 1 * wu) /\ Same(p, wh, b0) /\ Same(p, wu, 0)
    BY <2>8, <2>9
  <2> HIDE DEF wh, wu, wk
  <2>11. 1 * wh + 1 * wu = wh + wu /\ b0 + 0 = b0 /\ 0 \in Int /\ b0 \in Int
    BY <1>2, <2>10
  <2>12. Same(p, wh + wu, b0 + 0)
    BY <1>1, <2>10, <2>11, SameOps
  <2>13. Same(p, wk, b0)
    BY <2>10, <2>11, <2>12, SameChain
  <2> QED
    BY <2>2, <2>13 DEF wk, k
<1>12. Good(Members)
  BY <1>11
<1> DEFINE all == part(Members)
           g == [i \in Parties |-> IF i \in S THEN f[i] ELSE 0]
<1>13. all \in [Parties -> Int] /\ g \in [Parties -> Int]
  BY <1>8
<1>14. \A i \in S : g[i] = f[i] /\ Same(p, g[i], all[i])
  BY DEF part, Refreshed, p
<1> HIDE DEF all, g
<1>15. Same(p, W(g), W(all))
  <2>1. \A i \in S : Same(p, g[i], 1 * all[i] + 0 * all[i])
    <3>1. \A i \in S : all[i] \in Int
      BY <1>13
    <3>2. \A i \in S : all[i] = 1 * all[i] + 0 * all[i]
      BY <3>1
    <3> QED
      BY <1>14, <3>2
  <2>2. 1 \in Int /\ 0 \in Int
    OBVIOUS
  <2> DEFINE wa == W(all)
  <2>3. wa \in Int /\ Same(p, W(g), 1 * wa + 0 * wa)
    BY <1>1, <1>13, <2>1, <2>2, WeightedIsLinear
  <2> HIDE DEF wa
  <2>4. 1 * wa + 0 * wa = wa
    BY <2>3
  <2> QED
    BY <2>3, <2>4 DEF wa
<1>16. Interpolate(m, S, f) = W(f) % p
  BY InterpolateIsWeighted DEF B, p
<1>17. W(f) = W(g)
  <2>1. [i \in S |-> B[S][i] * f[i]] = [i \in S |-> B[S][i] * g[i]]
    BY <1>14
  <2> QED
    BY <2>1 DEF Weighted
<1> QED
  BY <1>12, <1>15, <1>16, <1>17 DEF all, Same, b0, p

-----------------------------------------------------------------------------
(* Where the meetings are in the programs.                                 *)
M == Len(Primes)

UpdatePos == M + 2
BolePos == M + 3

(* Where member u receives from v, and where it sends to v.                *)
ReceivePos(u, v) == IF v < u THEN M + 4 + v ELSE M + N + 1 + v
SendPos(u, v) == IF v < u THEN M + N + 2 + v ELSE M + 3 + v

AnswerPos(m) == M + 2 * N - 1 + m
IndexPos == 2 * M + 2 * N

Meetings == [kind : {"sync", "share", "update", "bole", "answer", "index"},
             from : Parties, to : Parties, m : 0..M]

(* Sequences and their positions.                                          *)
Joins(A, s, k, t, l) ==
    /\ s \o t \in Seq(A) /\ Len(s \o t) = k + l
    /\ \A i \in 1..k : (s \o t)[i] = s[i]
    /\ \A i \in 1..l : (s \o t)[k + i] = t[i]

(* Two sequences joined: first the one, then the other.                    *)
LEMMA Concatenation ==
  ASSUME NEW A, NEW s \in Seq(A), NEW t \in Seq(A), NEW k \in Nat, NEW l \in Nat,
         Len(s) = k, Len(t) = l
  PROVE  Joins(A, s, k, t, l)
BY DEF Joins

(* A table over 1..n is a sequence of length n.                            *)
LEMMA Tabulated ==
  ASSUME NEW A, NEW n \in Nat, NEW s \in [1..n -> A]
  PROVE  s \in Seq(A) /\ Len(s) = n
OBVIOUS

(* The parties are the members 0..N-2 and the leader N-1.                  *)
LEMMA Counts ==
  /\ N \in Nat /\ N >= 2 /\ M \in Nat /\ M >= 1 /\ Moduli = 1..M
  /\ Members = 0..(N - 2) /\ leaderIdx = N - 1 /\ leaderIdx \in Parties /\ leaderIdx \notin Members
  /\ Members \subseteq Parties /\ Parties = Members \union {leaderIdx}
<1>1. N \in Nat /\ N >= 2 /\ M \in Nat /\ M >= 1
  BY Yyh26Assumption DEF M
<1> QED
  BY <1>1 DEF Moduli, Members, leaderIdx, Parties, M

(* The parts of a member's program, in order.                              *)
LEMMA MemberProgramFacts ==
  ASSUME NEW u \in Members
  PROVE  /\ Program[u] \in Seq(Meetings) /\ Len(Program[u]) = IndexPos
         /\ Program[u][1] = Meeting("sync", leaderIdx, u, 0)
         /\ \A m \in Moduli : Program[u][1 + m] = Meeting("share", leaderIdx, u, m)
         /\ Program[u][UpdatePos] = Meeting("update", u, leaderIdx, 0)
         /\ Program[u][BolePos] = Meeting("bole", u, leaderIdx, 0)
         /\ \A i \in 1..(N - 2) : Program[u][M + 3 + i] = FirstPass(u, Others(u)[i])
         /\ \A i \in 1..(N - 2) : Program[u][M + N + 1 + i] = SecondPass(u, Others(u)[i])
         /\ \A m \in Moduli : Program[u][AnswerPos(m)] = Meeting("answer", u, leaderIdx, m)
         /\ Program[u][IndexPos] = Meeting("index", u, leaderIdx, 0)
<1> DEFINE L == leaderIdx
           a1 == <<Meeting("sync", L, u, 0)>>
           a2 == ForEach(ModuliSeq, LAMBDA m : Meeting("share", L, u, m))
           a3 == <<Meeting("update", u, L, 0), Meeting("bole", u, L, 0)>>
           a4 == ForEach(Others(u), LAMBDA v : FirstPass(u, v))
           a5 == ForEach(Others(u), LAMBDA v : SecondPass(u, v))
           a6 == ForEach(ModuliSeq, LAMBDA m : Meeting("answer", u, L, m))
           a7 == <<Meeting("index", u, L, 0)>>
<1>1. /\ N \in Nat /\ N >= 2 /\ M \in Nat /\ Moduli = 1..M /\ L \in Parties /\ u \in Parties /\ u # L
      /\ u \in 0..(N - 2) /\ Parties = 0..(N - 1) /\ Members = 0..(N - 2)
  BY Counts DEF Parties
<1>2. \A kind \in {"sync", "share", "update", "bole", "answer", "index"} :
        \A p, q \in Parties : \A m \in 0..M : Meeting(kind, p, q, m) \in Meetings
  BY DEF Meeting, Meetings
<1>3. \A i \in 1..(N - 2) : Others(u)[i] \in Members /\ Others(u)[i] # u
  BY <1>1 DEF Others
<1>4. \A v \in Members : FirstPass(u, v) \in Meetings /\ SecondPass(u, v) \in Meetings
  <2>1. 0 \in 0..M /\ \A v \in Members : v \in Parties
    BY <1>1
  <2> QED
    BY <1>1, <1>2, <2>1 DEF FirstPass, SecondPass
<1>5. a1 \in Seq(Meetings) /\ Len(a1) = 1 /\ a1[1] = Meeting("sync", L, u, 0)
  <2>1. Meeting("sync", L, u, 0) \in Meetings
    BY <1>1, <1>2
  <2> QED
    BY <2>1
<1>6. a2 \in Seq(Meetings) /\ Len(a2) = M /\ \A m \in Moduli : a2[m] = Meeting("share", L, u, m)
  <2>1. ModuliSeq \in Seq(Moduli) /\ Len(ModuliSeq) = M /\ \A m \in Moduli : ModuliSeq[m] = m
    BY <1>1 DEF ModuliSeq
  <2>2. \A m \in Moduli : Meeting("share", L, u, m) \in Meetings
    BY <1>1, <1>2
  <2>3. a2 = [m \in 1..M |-> Meeting("share", L, u, m)]
    BY <1>1, <2>1 DEF ForEach
  <2>4. a2 \in [1..M -> Meetings] /\ \A m \in Moduli : a2[m] = Meeting("share", L, u, m)
    BY <1>1, <2>2, <2>3, Zenon
  <2> HIDE DEF a2
  <2> QED
    BY <1>1, <2>4, Tabulated
<1>7. a3 \in Seq(Meetings) /\ Len(a3) = 2 /\ a3[1] = Meeting("update", u, L, 0) /\ a3[2] = Meeting("bole", u, L, 0)
  <2>1. Meeting("update", u, L, 0) \in Meetings /\ Meeting("bole", u, L, 0) \in Meetings
    BY <1>1, <1>2
  <2> QED
    BY <2>1
<1>8. Len(Others(u)) = N - 2
  BY <1>1 DEF Others
<1>9. a4 \in Seq(Meetings) /\ Len(a4) = N - 2 /\ \A i \in 1..(N - 2) : a4[i] = FirstPass(u, Others(u)[i])
  <2>1. a4 = [i \in 1..(N - 2) |-> FirstPass(u, Others(u)[i])]
    BY <1>8 DEF ForEach
  <2>2. \A i \in 1..(N - 2) : FirstPass(u, Others(u)[i]) \in Meetings
    BY <1>3, <1>4, Zenon
  <2>3. a4 \in [1..(N - 2) -> Meetings] /\ \A i \in 1..(N - 2) : a4[i] = FirstPass(u, Others(u)[i])
    BY <2>1, <2>2, Zenon
  <2>4. N - 2 \in Nat
    BY <1>1
  <2> HIDE DEF a4
  <2> QED
    BY <2>3, <2>4, Tabulated
<1>10. a5 \in Seq(Meetings) /\ Len(a5) = N - 2 /\ \A i \in 1..(N - 2) : a5[i] = SecondPass(u, Others(u)[i])
  <2>1. a5 = [i \in 1..(N - 2) |-> SecondPass(u, Others(u)[i])]
    BY <1>8 DEF ForEach
  <2>2. \A i \in 1..(N - 2) : SecondPass(u, Others(u)[i]) \in Meetings
    BY <1>3, <1>4, Zenon
  <2>3. a5 \in [1..(N - 2) -> Meetings] /\ \A i \in 1..(N - 2) : a5[i] = SecondPass(u, Others(u)[i])
    BY <2>1, <2>2, Zenon
  <2>4. N - 2 \in Nat
    BY <1>1
  <2> HIDE DEF a5
  <2> QED
    BY <2>3, <2>4, Tabulated
<1>11. a6 \in Seq(Meetings) /\ Len(a6) = M /\ \A m \in Moduli : a6[m] = Meeting("answer", u, L, m)
  <2>1. ModuliSeq \in Seq(Moduli) /\ Len(ModuliSeq) = M /\ \A m \in Moduli : ModuliSeq[m] = m
    BY <1>1 DEF ModuliSeq
  <2>2. \A m \in Moduli : Meeting("answer", u, L, m) \in Meetings
    BY <1>1, <1>2
  <2>3. a6 = [m \in 1..M |-> Meeting("answer", u, L, m)]
    BY <1>1, <2>1 DEF ForEach
  <2>4. a6 \in [1..M -> Meetings] /\ \A m \in Moduli : a6[m] = Meeting("answer", u, L, m)
    BY <1>1, <2>2, <2>3, Zenon
  <2> HIDE DEF a6
  <2> QED
    BY <1>1, <2>4, Tabulated
<1>12. a7 \in Seq(Meetings) /\ Len(a7) = 1 /\ a7[1] = Meeting("index", u, L, 0)
  <2>1. Meeting("index", u, L, 0) \in Meetings
    BY <1>1, <1>2
  <2> QED
    BY <2>1
<1>13. Program[u] = a1 \o a2 \o a3 \o a4 \o a5 \o a6 \o a7
  BY <1>1 DEF Program, MemberProgram
<1> HIDE DEF a1, a2, a3, a4, a5, a6, a7
<1> DEFINE b2 == a1 \o a2
           b3 == b2 \o a3
           b4 == b3 \o a4
           b5 == b4 \o a5
           b6 == b5 \o a6
           b7 == b6 \o a7
<1>14. /\ b2 \in Seq(Meetings) /\ Len(b2) = 1 + M
       /\ \A i \in 1..1 : b2[i] = a1[i]
       /\ \A i \in 1..M : b2[1 + i] = a2[i]
  <2>1. 1 \in Nat /\ Len(a1) = 1
    BY <1>5
  <2>2. Joins(Meetings, a1, 1, a2, M)
    BY <1>1, <1>5, <1>6, <2>1, Concatenation
  <2> QED
    BY <2>2 DEF Joins
<1> HIDE DEF b2
<1>15. /\ b3 \in Seq(Meetings) /\ Len(b3) = M + 3
       /\ \A i \in 1..(M + 1) : b3[i] = b2[i]
       /\ \A i \in 1..2 : b3[M + 1 + i] = a3[i]
  <2>1. M + 1 \in Nat /\ Len(b2) = M + 1 /\ 2 \in Nat
    BY <1>1, <1>14
  <2>3. Joins(Meetings, b2, M + 1, a3, 2)
    BY <1>7, <1>14, <2>1, Concatenation
  <2>2. /\ b3 \in Seq(Meetings) /\ Len(b3) = (M + 1) + 2
        /\ \A i \in 1..(M + 1) : b3[i] = b2[i]
        /\ \A i \in 1..2 : b3[(M + 1) + i] = a3[i]
    BY <2>3 DEF Joins
  <2>4. (M + 1) + 2 = M + 3
    BY <1>1
  <2> QED
    BY <2>2, <2>4
<1> HIDE DEF b3
<1>16. /\ b4 \in Seq(Meetings) /\ Len(b4) = M + N + 1
       /\ \A i \in 1..(M + 3) : b4[i] = b3[i]
       /\ \A i \in 1..(N - 2) : b4[M + 3 + i] = a4[i]
  <2>1. M + 3 \in Nat /\ N - 2 \in Nat
    BY <1>1
  <2>3. Joins(Meetings, b3, M + 3, a4, N - 2)
    BY <1>9, <1>15, <2>1, Concatenation
  <2>2. /\ b4 \in Seq(Meetings) /\ Len(b4) = (M + 3) + (N - 2)
        /\ \A i \in 1..(M + 3) : b4[i] = b3[i]
        /\ \A i \in 1..(N - 2) : b4[(M + 3) + i] = a4[i]
    BY <2>3 DEF Joins
  <2>4. (M + 3) + (N - 2) = M + N + 1
    BY <1>1
  <2> QED
    BY <2>2, <2>4
<1> HIDE DEF b4
<1>17. /\ b5 \in Seq(Meetings) /\ Len(b5) = M + 2 * N - 1
       /\ \A i \in 1..(M + N + 1) : b5[i] = b4[i]
       /\ \A i \in 1..(N - 2) : b5[M + N + 1 + i] = a5[i]
  <2>1. M + N + 1 \in Nat /\ N - 2 \in Nat
    BY <1>1
  <2>3. Joins(Meetings, b4, M + N + 1, a5, N - 2)
    BY <1>10, <1>16, <2>1, Concatenation
  <2>2. /\ b5 \in Seq(Meetings) /\ Len(b5) = (M + N + 1) + (N - 2)
        /\ \A i \in 1..(M + N + 1) : b5[i] = b4[i]
        /\ \A i \in 1..(N - 2) : b5[(M + N + 1) + i] = a5[i]
    BY <2>3 DEF Joins
  <2>4. (M + N + 1) + (N - 2) = M + 2 * N - 1
    BY <1>1
  <2> QED
    BY <2>2, <2>4
<1> HIDE DEF b5
<1>18. /\ b6 \in Seq(Meetings) /\ Len(b6) = 2 * M + 2 * N - 1
       /\ \A i \in 1..(M + 2 * N - 1) : b6[i] = b5[i]
       /\ \A i \in 1..M : b6[M + 2 * N - 1 + i] = a6[i]
  <2>1. M + 2 * N - 1 \in Nat
    BY <1>1
  <2>3. Joins(Meetings, b5, M + 2 * N - 1, a6, M)
    BY <1>1, <1>11, <1>17, <2>1, Concatenation
  <2>2. /\ b6 \in Seq(Meetings) /\ Len(b6) = (M + 2 * N - 1) + M
        /\ \A i \in 1..(M + 2 * N - 1) : b6[i] = b5[i]
        /\ \A i \in 1..M : b6[(M + 2 * N - 1) + i] = a6[i]
    BY <2>3 DEF Joins
  <2>4. (M + 2 * N - 1) + M = 2 * M + 2 * N - 1
    BY <1>1
  <2> QED
    BY <2>2, <2>4
<1> HIDE DEF b6
<1>19. /\ b7 \in Seq(Meetings) /\ Len(b7) = 2 * M + 2 * N
       /\ \A i \in 1..(2 * M + 2 * N - 1) : b7[i] = b6[i]
       /\ b7[2 * M + 2 * N] = a7[1]
  <2>1. 2 * M + 2 * N - 1 \in Nat /\ 1 \in Nat
    BY <1>1
  <2>4. Joins(Meetings, b6, 2 * M + 2 * N - 1, a7, 1)
    BY <1>12, <1>18, <2>1, Concatenation
  <2>2. /\ b7 \in Seq(Meetings) /\ Len(b7) = (2 * M + 2 * N - 1) + 1
        /\ \A i \in 1..(2 * M + 2 * N - 1) : b7[i] = b6[i]
        /\ \A i \in 1..1 : b7[(2 * M + 2 * N - 1) + i] = a7[i]
    BY <2>4 DEF Joins
  <2>3. b7[(2 * M + 2 * N - 1) + 1] = a7[1] /\ (2 * M + 2 * N - 1) + 1 = 2 * M + 2 * N
    BY <1>1, <2>2
  <2> QED
    BY <2>2, <2>3
<1>20. Program[u] = b7
  BY <1>13 DEF b2, b3, b4, b5, b6
<1> HIDE DEF b7
<1>21. \A i \in 1..(M + 2 * N - 1) : b7[i] = b5[i]
  BY <1>1, <1>18, <1>19
<1>22. \A i \in 1..(M + N + 1) : b7[i] = b4[i]
  BY <1>1, <1>17, <1>21
<1>23. \A i \in 1..(M + 3) : b7[i] = b3[i]
  BY <1>1, <1>16, <1>22
<1>24. b7[1] = Meeting("sync", L, u, 0) /\ \A m \in Moduli : b7[1 + m] = Meeting("share", L, u, m)
  <2>1. \A i \in 1..(M + 1) : b7[i] = b2[i]
    BY <1>1, <1>15, <1>23
  <2>2. b7[1] = a1[1]
    BY <1>1, <1>14, <2>1
  <2>3. \A m \in 1..M : b7[1 + m] = a2[m]
    BY <1>1, <1>14, <2>1
  <2> QED
    BY <1>1, <1>5, <1>6, <2>2, <2>3
<1>25. b7[M + 2] = Meeting("update", u, L, 0) /\ b7[M + 3] = Meeting("bole", u, L, 0)
  <2>1. b3[M + 1 + 1] = a3[1] /\ b3[M + 1 + 2] = a3[2]
    BY <1>15
  <2>2. b3[M + 2] = a3[1] /\ b3[M + 3] = a3[2] /\ b7[M + 2] = b3[M + 2] /\ b7[M + 3] = b3[M + 3]
    BY <1>1, <1>23, <2>1
  <2> QED
    BY <1>7, <2>2
<1>26. \A i \in 1..(N - 2) : b7[M + 3 + i] = FirstPass(u, Others(u)[i])
  <2> SUFFICES ASSUME NEW i \in 1..(N - 2) PROVE b7[M + 3 + i] = FirstPass(u, Others(u)[i])
    OBVIOUS
  <2>1. M + 3 + i \in 1..(M + N + 1)
    BY <1>1
  <2> QED
    BY <1>9, <1>16, <1>22, <2>1
<1>27. \A i \in 1..(N - 2) : b7[M + N + 1 + i] = SecondPass(u, Others(u)[i])
  <2> SUFFICES ASSUME NEW i \in 1..(N - 2) PROVE b7[M + N + 1 + i] = SecondPass(u, Others(u)[i])
    OBVIOUS
  <2>1. M + N + 1 + i \in 1..(M + 2 * N - 1)
    BY <1>1
  <2> QED
    BY <1>10, <1>17, <1>21, <2>1
<1>28. \A m \in Moduli : b7[M + 2 * N - 1 + m] = Meeting("answer", u, L, m)
  <2> SUFFICES ASSUME NEW m \in Moduli PROVE b7[M + 2 * N - 1 + m] = Meeting("answer", u, L, m)
    OBVIOUS
  <2>1. m \in 1..M /\ M + 2 * N - 1 + m \in 1..(2 * M + 2 * N - 1)
    BY <1>1
  <2> QED
    BY <1>11, <1>18, <1>19, <2>1
<1> QED
  BY <1>12, <1>19, <1>20, <1>24, <1>25, <1>26, <1>27, <1>28
  DEF UpdatePos, BolePos, AnswerPos, IndexPos

(* Where in its program member u has a meeting.                            *)
Pos(u, meeting) ==
    CASE meeting.kind = "sync"   -> 1
      [] meeting.kind = "share"  -> 1 + meeting.m
      [] meeting.kind = "update" -> UpdatePos
      [] meeting.kind = "answer" -> AnswerPos(meeting.m)
      [] meeting.kind = "index"  -> IndexPos
      [] meeting.kind = "bole"   -> IF meeting.to = leaderIdx THEN BolePos
                                    ELSE IF meeting.to = u THEN ReceivePos(u, meeting.from)
                                    ELSE SendPos(u, meeting.to)

(* No meeting is twice in the program of a member.                         *)
LEMMA PositionOf ==
  ASSUME NEW u \in Members, NEW k \in 1..IndexPos
  PROVE  Pos(u, Program[u][k]) = k
<1> DEFINE L == leaderIdx
<1>1. /\ N \in Nat /\ N >= 2 /\ M \in Nat /\ M >= 1 /\ Moduli = 1..M /\ u \in 0..(N - 2)
      /\ L = N - 1 /\ u # L
  BY Counts
<1>2. CASE k = 1
  <2>1. Program[u][k] = Meeting("sync", L, u, 0)
    BY <1>2, MemberProgramFacts
  <2> QED
    BY <1>2, <2>1 DEF Pos, Meeting
<1>3. CASE k \in 2..(M + 1)
  <2> DEFINE m == k - 1
  <2>1. m \in Moduli /\ k = 1 + m
    BY <1>1, <1>3
  <2> HIDE DEF m
  <2>2. Program[u][1 + m] = Meeting("share", L, u, m)
    BY <2>1, MemberProgramFacts
  <2> QED
    BY <2>1, <2>2 DEF Pos, Meeting
<1>4. CASE k = UpdatePos
  <2>1. Program[u][k] = Meeting("update", u, L, 0)
    BY <1>4, MemberProgramFacts
  <2> QED
    BY <1>4, <2>1 DEF Pos, Meeting
<1>5. CASE k = BolePos
  <2>1. Program[u][k] = Meeting("bole", u, L, 0)
    BY <1>5, MemberProgramFacts
  <2> QED
    BY <1>5, <2>1 DEF Pos, Meeting
<1>6. CASE k \in (M + 4)..(M + N + 1)
  <2> DEFINE i == k - M - 3
             v == Others(u)[i]
  <2>1. i \in 1..(N - 2) /\ k = M + 3 + i
    BY <1>1, <1>6
  <2>2. v = IF i <= u THEN i - 1 ELSE i
    BY <2>1 DEF Others
  <2>3. Program[u][k] = FirstPass(u, v)
    BY <2>1, MemberProgramFacts
  <2> HIDE DEF i, v
  <2>4. CASE i <= u
    <3>1. v = i - 1 /\ v < u /\ u > v
      BY <1>1, <2>1, <2>2, <2>4
    <3>2. Program[u][k] = Meeting("bole", v, u, 0)
      BY <2>3, <3>1 DEF FirstPass
    <3>3. Pos(u, Program[u][k]) = ReceivePos(u, v)
      BY <1>1, <3>2 DEF Pos, Meeting
    <3> QED
      BY <1>1, <2>1, <3>1, <3>3 DEF ReceivePos
  <2>5. CASE ~ (i <= u)
    <3>1. v = i /\ ~ (v < u) /\ ~ (u > v) /\ v # L /\ v # u
      BY <1>1, <2>1, <2>2, <2>5
    <3>2. Program[u][k] = Meeting("bole", u, v, 0)
      BY <2>3, <3>1 DEF FirstPass
    <3>3. Pos(u, Program[u][k]) = SendPos(u, v)
      BY <1>1, <3>1, <3>2 DEF Pos, Meeting
    <3> QED
      BY <1>1, <2>1, <3>1, <3>3 DEF SendPos
  <2> QED
    BY <2>4, <2>5
<1>7. CASE k \in (M + N + 2)..(M + 2 * N - 1)
  <2> DEFINE i == k - M - N - 1
             v == Others(u)[i]
  <2>1. i \in 1..(N - 2) /\ k = M + N + 1 + i
    BY <1>1, <1>7
  <2>2. v = IF i <= u THEN i - 1 ELSE i
    BY <2>1 DEF Others
  <2>3. Program[u][k] = SecondPass(u, v)
    BY <2>1, MemberProgramFacts
  <2> HIDE DEF i, v
  <2>4. CASE i <= u
    <3>1. v = i - 1 /\ v < u /\ ~ (u < v) /\ v # L /\ v # u
      BY <1>1, <2>1, <2>2, <2>4
    <3>2. Program[u][k] = Meeting("bole", u, v, 0)
      BY <2>3, <3>1 DEF SecondPass
    <3>3. Pos(u, Program[u][k]) = SendPos(u, v)
      BY <1>1, <3>1, <3>2 DEF Pos, Meeting
    <3> QED
      BY <1>1, <2>1, <3>1, <3>3 DEF SendPos
  <2>5. CASE ~ (i <= u)
    <3>1. v = i /\ ~ (v < u) /\ u < v /\ v # L /\ v # u
      BY <1>1, <2>1, <2>2, <2>5
    <3>2. Program[u][k] = Meeting("bole", v, u, 0)
      BY <2>3, <3>1 DEF SecondPass
    <3>3. Pos(u, Program[u][k]) = ReceivePos(u, v)
      BY <1>1, <3>1, <3>2 DEF Pos, Meeting
    <3> QED
      BY <1>1, <2>1, <3>1, <3>3 DEF ReceivePos
  <2> QED
    BY <2>4, <2>5
<1>8. CASE k \in (M + 2 * N)..(2 * M + 2 * N - 1)
  <2> DEFINE m == k - M - 2 * N + 1
  <2>1. m \in Moduli /\ k = AnswerPos(m)
    BY <1>1, <1>8 DEF AnswerPos
  <2> HIDE DEF m
  <2>2. Program[u][k] = Meeting("answer", u, L, m)
    BY <2>1, MemberProgramFacts
  <2> QED
    BY <2>1, <2>2 DEF Pos, Meeting
<1>9. CASE k = IndexPos
  <2>1. Program[u][k] = Meeting("index", u, L, 0)
    BY <1>9, MemberProgramFacts
  <2> QED
    BY <1>9, <2>1 DEF Pos, Meeting
<1> QED
  BY <1>1, <1>2, <1>3, <1>4, <1>5, <1>6, <1>7, <1>8, <1>9 DEF UpdatePos, BolePos, IndexPos

LeaderEnd == Len(Program[leaderIdx])

(* The leader ends with the indices of the members, in order.              *)
LEMMA LeaderProgramFacts ==
  /\ LeaderEnd \in Nat /\ LeaderEnd >= N - 1
  /\ \A u \in Members : Program[leaderIdx][LeaderEnd - (N - 1) + (u + 1)] =
                        Meeting("index", u, leaderIdx, 0)
<1> DEFINE L == leaderIdx
           A == [kind : {"sync", "share", "update", "bole", "answer", "index"},
                 from : Int, to : Int, m : Int]
           n == N - 1
           T == Len(Primes) * (N - 1)
           from(k) == (k - 1) % (N - 1)
           about(k) == 1 + ((k - 1) \div (N - 1))
           a1 == ForEach(MemberSeq, LAMBDA u : Meeting("sync", L, u, 0))
           a2 == [k \in 1..T |-> Meeting("share", L, from(k), about(k))]
           a3 == ForEach(MemberSeq, LAMBDA u : Meeting("update", u, L, 0))
           a4 == ForEach(MemberSeq, LAMBDA u : Meeting("bole", u, L, 0))
           a5 == [k \in 1..T |-> Meeting("answer", from(k), L, about(k))]
           a6 == ForEach(MemberSeq, LAMBDA u : Meeting("index", u, L, 0))
<1>1. N \in Nat /\ N >= 2 /\ M \in Nat /\ L \in Int /\ n \in Nat /\ n >= 1 /\ L \in Parties /\ Members = 0..(n - 1)
  BY Counts
<1>2. \A kind \in {"sync", "share", "update", "bole", "answer", "index"} :
        \A p, q, k \in Int : Meeting(kind, p, q, k) \in A
  BY DEF Meeting
<1>3. Len(MemberSeq) = n /\ \A i \in 1..n : MemberSeq[i] = i - 1 /\ MemberSeq[i] \in Int
  BY <1>1 DEF MemberSeq
<1>4. T \in Nat
  <2>1. \A y, z \in Nat : y * z \in Nat
    OBVIOUS
  <2>2. Len(Primes) \in Nat /\ N - 1 \in Nat
    BY <1>1 DEF M
  <2> QED
    BY <2>1, <2>2, Zenon
<1>5. \A k \in 1..T : from(k) \in Int /\ about(k) \in Int
  <2>1. \A k \in Int : k - 1 \in Int /\ N - 1 \in Nat /\ N - 1 > 0
    BY <1>1
  <2>2. \A y \in Int : \A z \in Nat : z > 0 => y % z \in Int /\ y \div z \in Int
    OBVIOUS
  <2>3. \A k \in Int : (k - 1) % (N - 1) \in Int /\ (k - 1) \div (N - 1) \in Int
    BY <2>1, <2>2, Zenon
  <2>4. \A k \in 1..T : k \in Int
    OBVIOUS
  <2>5. \A y \in Int : 1 + y \in Int
    OBVIOUS
  <2> QED
    BY <2>3, <2>4, <2>5, Zenon
<1> HIDE DEF from, about
<1>6. a2 \in Seq(A) /\ a5 \in Seq(A)
  <2>1. a2 \in [1..T -> A] /\ a5 \in [1..T -> A]
    BY <1>1, <1>2, <1>5
  <2> QED
    BY <1>4, <2>1, Tabulated
<1>7. /\ a1 = [i \in 1..n |-> Meeting("sync", L, i - 1, 0)]
      /\ a3 = [i \in 1..n |-> Meeting("update", i - 1, L, 0)]
      /\ a4 = [i \in 1..n |-> Meeting("bole", i - 1, L, 0)]
      /\ a6 = [i \in 1..n |-> Meeting("index", i - 1, L, 0)]
  BY <1>3 DEF ForEach
<1>8. a1 \in [1..n -> A] /\ a3 \in [1..n -> A] /\ a4 \in [1..n -> A] /\ a6 \in [1..n -> A]
  <2>1. 0 \in Int /\ \A i \in 1..n : i - 1 \in Int
    BY <1>1
  <2> HIDE DEF A, a1, a3, a4, a6
  <2>2. \A i \in 1..n : /\ Meeting("sync", L, i - 1, 0) \in A /\ Meeting("update", i - 1, L, 0) \in A
                        /\ Meeting("bole", i - 1, L, 0) \in A /\ Meeting("index", i - 1, L, 0) \in A
    BY <1>1, <1>2, <2>1
  <2> QED
    BY <1>7, <2>2, Zenon
<1>9. /\ a1 \in Seq(A) /\ a3 \in Seq(A) /\ a4 \in Seq(A) /\ a6 \in Seq(A) /\ Len(a6) = n
      /\ \A i \in 1..n : a6[i] = Meeting("index", i - 1, L, 0)
  <2>1. \A i \in 1..n : a6[i] = Meeting("index", i - 1, L, 0)
    BY <1>7
  <2> HIDE DEF a1, a3, a4, a6
  <2> QED
    BY <1>1, <1>8, <2>1, Tabulated
<1>10. Program[L] = a1 \o a2 \o a3 \o a4 \o a5 \o a6
  BY <1>1 DEF Program, LeaderProgram, from, about
<1> HIDE DEF a1, a2, a3, a4, a5, a6, A
<1> DEFINE s == a1 \o a2 \o a3 \o a4 \o a5
           k == Len(s)
<1>11. s \in Seq(A) /\ k \in Nat
  BY <1>6, <1>9
<1>12. Program[L] = s \o a6
  BY <1>10
<1> HIDE DEF s
<1>13. Joins(A, s, k, a6, n)
  BY <1>1, <1>9, <1>11, Concatenation
<1>14. LeaderEnd = k + n /\ \A i \in 1..n : Program[L][k + i] = a6[i]
  BY <1>12, <1>13 DEF Joins, LeaderEnd
<1> HIDE DEF k
<1>15. \A u \in Members : Program[L][LeaderEnd - (N - 1) + (u + 1)] = Meeting("index", u, L, 0)
  <2> SUFFICES ASSUME NEW u \in Members
               PROVE  Program[L][LeaderEnd - (N - 1) + (u + 1)] = Meeting("index", u, L, 0)
    OBVIOUS
  <2>1. u + 1 \in 1..n /\ (u + 1) - 1 = u /\ LeaderEnd - (N - 1) + (u + 1) = k + (u + 1)
    BY <1>1, <1>11, <1>14
  <2>2. a6[u + 1] = Meeting("index", u, L, 0)
    BY <1>9, <2>1
  <2>3. Program[L][k + (u + 1)] = a6[u + 1]
    BY <1>14, <2>1
  <2> QED
    BY <2>1, <2>2, <2>3
<1> QED
  BY <1>1, <1>11, <1>14, <1>15

-----------------------------------------------------------------------------
(* What the members hide the leader's terms with, for a slot of u, and     *)
(* what u takes off again for the element that it has there.               *)
Masked(m, u, s) == [v \in Members |->
    (UpdateValue(m, v, u) - tape.d[v][u][s]) + tape.r[v][u][s] * Block[x]]

Unmasked(m, u, s) == [v \in Members |-> tape.d[v][u][s] - tape.r[v][u][s] * Block[slots[u][s]]]

(* The shapes of the values, and no more elements in a bin than it holds.  *)
Typed ==
    /\ at \in [Parties -> Nat]
    /\ \A u \in Members : /\ slots[u] \in Seq(DOMAIN Block)
                          /\ Len(slots[u]) <= MaxBinSize
    /\ DOMAIN outcome = Parties
    /\ DOMAIN payload = Members /\ \A u \in Members : DOMAIN payload[u] = Moduli
    /\ serverShare \in [Moduli -> Int]
    /\ leaderOle \in [Members -> [Slots -> [Moduli -> Int]]]
    /\ memberOle \in [Members -> [Slots -> [Moduli -> Int]]]
    /\ DOMAIN endPayload = Members /\ \A u \in Members : DOMAIN endPayload[u] = Moduli
    /\ DOMAIN oleIndex = Members

(* A member that has been given its shares has its own share where the     *)
(* prefix of x is in its bin and no number anywhere else.                  *)
SharesGiven == \A u \in Members : \A m \in Moduli : at[u] > 1 + m =>
    payload[u][m] = [s \in 1..Len(slots[u]) |-> IF SameAsX(slots[u][s]) THEN Share(m, u) ELSE Junk]

(* The leader's share is the one it drew, plus the updates of the members  *)
(* that it has met.                                                        *)
LeaderUpdated == \A m \in Moduli :
    Same(Primes[m], serverShare[m],
         Share(m, leaderIdx) + Sum(UpdatesFor(m, leaderIdx), {v \in Members : at[v] > UpdatePos}))

(* The leader's sum for a slot holds the masked terms of the members that  *)
(* it has met.                                                             *)
LeaderMasked == \A u \in Members : \A s \in Slots : \A m \in Moduli :
    Same(Primes[m], leaderOle[u][s][m], Sum(Masked(m, u, s), {v \in Members : at[v] > BolePos}))

(* A member's sum for a slot holds the terms of the members that it has    *)
(* received from.                                                          *)
MembersUnmasked == \A u \in Members : \A s \in 1..Len(slots[u]) : \A m \in Moduli :
    Same(Primes[m], memberOle[u][s][m],
         Sum(Unmasked(m, u, s), {v \in Members \ {u} : at[u] > ReceivePos(u, v)}))

(* An answer is the member's share with the terms of all members.          *)
Answered == \A u \in Members : \A m \in Moduli :
    at[u] > AnswerPos(m) /\ SlotOfX(u) # {} =>
        /\ endPayload[u][m] \in Int
        /\ Same(Primes[m], endPayload[u][m],
                Share(m, u) + Sum(Unmasked(m, u, Min(SlotOfX(u))), Members))

(* The index is that of the slot the member answered for.                  *)
Indexed == \A u \in Members : at[u] > IndexPos =>
    oleIndex[u] = IF SlotOfX(u) = {} THEN Junk ELSE Min(SlotOfX(u))

(* The leader has an index only from a member that has given it.           *)
LeaderLast == \A u \in Members : at[leaderIdx] > LeaderEnd - (N - 1) + (u + 1) => at[u] > IndexPos

Yyh26Inv == /\ Drawn /\ Typed /\ SharesGiven /\ LeaderUpdated /\ LeaderMasked
            /\ MembersUnmasked /\ Answered /\ Indexed /\ LeaderLast /\ FoundIfHeldByEnough

(* The values for a party are numbers.                                     *)
LEMMA ValuesAreNumbers ==
  ASSUME Drawn, NEW m \in Moduli, NEW i \in Parties
  PROVE  Share(m, i) \in Int /\ \A v \in Members : UpdateValue(m, v, i) \in Int
<1>1. Cardinality(Parties) >= threshold
  <2>1. N \in Nat /\ N >= 2 /\ threshold \in 1..N
    BY Yyh26Assumption DEF Drawn
  <2>2. Cardinality(0..(N - 1)) = N
    BY <2>1, FS_Interval
  <2> QED
    BY <2>1, <2>2 DEF Parties
<1>2. ASSUME NEW a0 \in Nat, NEW s \in [1..(N - 1) -> Nat]
      PROVE  Eval(m, <<a0>> \o Prefix(s), i + 1) \in Int
  <2> DEFINE F == [j \in Parties |-> Eval(m, <<a0>> \o Prefix(s), j + 1)]
  <2>1. F \in [Parties -> Int]
    <3>1. Parties \in SUBSET Parties
      OBVIOUS
    <3>2. F \in [Parties -> Int] /\ Same(Primes[m], Weighted(BasisOf(m), Parties, F), a0)
      BY <1>1, <3>1, SharedAtZero
    <3> QED
      BY <3>2
  <2>2. F[i] \in Int /\ F[i] = Eval(m, <<a0>> \o Prefix(s), i + 1)
    <3>1. F[i] = Eval(m, <<a0>> \o Prefix(s), i + 1)
      OBVIOUS
    <3> HIDE DEF F
    <3> QED
      BY <2>1, <3>1
  <2> QED
    BY <2>2
<1>3. Block[x] \in Nat /\ 0 \in Nat
  BY Yyh26Assumption
<1>4. Share(m, i) \in Int
  BY <1>2, <1>3 DEF Share, Drawn
<1>5. ASSUME NEW v \in Members PROVE UpdateValue(m, v, i) \in Int
  <2>1. tape.g[v] \in [1..(N - 1) -> Nat]
    BY DEF Drawn
  <2> QED
    BY <1>2, <1>3, <2>1 DEF UpdateValue
<1> QED
  BY <1>4, <1>5

(* What the model's operations do to numbers.                              *)
LEMMA OperationFacts ==
  ASSUME NEW m \in Moduli, NEW a \in Int, NEW b \in Int
  PROVE  /\ Plus(m, a, b) \in Int /\ Same(Primes[m], Plus(m, a, b), a + b)
         /\ Times(m, a, b) \in Int /\ Same(Primes[m], Times(m, a, b), a * b)
         /\ Neg(m, a) \in Int /\ Same(Primes[m], Neg(m, a), 0 - a)
         /\ a # Junk
<1>1. Primes[m] \in Nat \ {0}
  BY ModulusFacts
<1>2. a # Junk /\ b # Junk
  BY Yyh26Assumption
<1>3. Plus(m, a, b) = (a + b) % Primes[m] /\ Times(m, a, b) = (a * b) % Primes[m]
  BY <1>2 DEF Plus, Times
<1>4. a + b \in Int /\ a * b \in Int
  <2>1. \A y, z \in Int : y + z \in Int /\ y * z \in Int
    OBVIOUS
  <2> QED
    BY <2>1
<1> DEFINE y == a + b
           z == a * b
           p == Primes[m]
<1>5. Plus(m, a, b) = y % p /\ Times(m, a, b) = z % p /\ y \in Int /\ z \in Int /\ p \in Nat \ {0}
  BY <1>1, <1>3, <1>4
<1> HIDE DEF y, z, p
<1>6. /\ Plus(m, a, b) \in Int /\ Same(p, Plus(m, a, b), y)
      /\ Times(m, a, b) \in Int /\ Same(p, Times(m, a, b), z)
  <2>1. (y % p) \in Int /\ Same(p, (y % p), y)
    BY <1>5, SameMod
  <2>2. (z % p) \in Int /\ Same(p, (z % p), z)
    BY <1>5, SameMod
  <2> QED
    BY <1>5, <2>1, <2>2
<1> QED
  BY <1>2, <1>6, ModulusFacts DEF y, z, p

(* A sum with one more term.                                               *)
LEMMA SumGrows ==
  ASSUME NEW p \in Nat \ {0}, NEW I, IsFiniteSet(I), NEW f \in [I -> Int],
         NEW T \in SUBSET I, NEW i \in I \ T,
         NEW a \in Int, NEW b \in Int, NEW c \in Int, NEW e \in Int,
         Same(p, a, c + Sum(f, T)), Same(p, b, f[i]), Same(p, e, a + b)
  PROVE  Same(p, e, c + Sum(f, T \union {i}))
<1> DEFINE t == Sum(f, T)
           R == T \union {i}
<1>1. t \in Int /\ f[i] \in Int /\ R \in SUBSET I
  BY SumFacts
<1>2. R \ {i} = T /\ i \in R
  OBVIOUS
<1>3. Sum(f, R) = t + f[i]
  <2> HIDE DEF R
  <2>1. Sum(f, R) = Sum(f, R \ {i}) + f[i]
    BY <1>1, <1>2, SumFacts
  <2> QED
    BY <1>2, <2>1
<1>4. Same(p, a, c + t)
  OBVIOUS
<1> HIDE DEF t, R
<1>5. c + t \in Int /\ (c + t) + f[i] = c + (t + f[i])
  BY <1>1
<1>6. Same(p, a + b, (c + t) + f[i])
  BY <1>1, <1>4, <1>5, SameOps
<1>7. Same(p, e, (c + t) + f[i])
  BY <1>6, SameChain
<1> QED
  BY <1>3, <1>5, <1>7 DEF R

(* The slot that a member answers with is one that has x.                  *)
LEMMA SlotFacts ==
  ASSUME Typed, NEW u \in Members
  PROVE  /\ 1..Len(slots[u]) \subseteq Slots
         /\ \A s \in 1..Len(slots[u]) : Block[slots[u][s]] \in Nat
         /\ SlotOfX(u) # {} => Min(SlotOfX(u)) \in SlotOfX(u)
         /\ SlotOfX(u) # {} <=> u \in Holders
         /\ Block[x] \in Nat
<1>1. slots[u] \in Seq(DOMAIN Block) /\ Len(slots[u]) <= MaxBinSize
  BY DEF Typed
<1>2. MaxBinSize \in Nat /\ Block \in [DOMAIN Block -> Nat] /\ x \in DOMAIN Block
  BY Yyh26Assumption
<1>3. 1..Len(slots[u]) \subseteq Slots
  BY <1>1, <1>2 DEF Slots
<1>4. \A s \in 1..Len(slots[u]) : slots[u][s] \in DOMAIN Block
  BY <1>1
<1>5. SlotOfX(u) # {} => Min(SlotOfX(u)) \in SlotOfX(u)
  <2>1. SlotOfX(u) \in SUBSET Nat
    BY DEF SlotOfX
  <2> QED
    BY <2>1, MinIsLeast
<1>6. SlotOfX(u) # {} <=> u \in Holders
  <2>1. DOMAIN slots[u] = 1..Len(slots[u])
    BY <1>1
  <2> QED
    BY <2>1 DEF Holders, SlotOfX, Range
<1> QED
  BY <1>2, <1>3, <1>4, <1>5, <1>6

(* A difference, or a product and a number, modulo p.                      *)
LEMMA CombinationFacts ==
  ASSUME NEW m \in Moduli, NEW r \in Int, NEW y \in Int, NEW d \in Int, NEW e \in Int
  PROVE  /\ Plus(m, Times(m, r, y), Plus(m, e, Neg(m, d))) \in Int
         /\ Same(Primes[m], Plus(m, Times(m, r, y), Plus(m, e, Neg(m, d))), (e - d) + r * y)
         /\ Plus(m, Times(m, Neg(m, r), y), d) \in Int
         /\ Same(Primes[m], Plus(m, Times(m, Neg(m, r), y), d), d - r * y)
<1> DEFINE p == Primes[m]
<1>1. p \in Nat \ {0}
  BY ModulusFacts
<1> DEFINE nd == Neg(m, d)
           nr == Neg(m, r)
           t == Times(m, r, y)
           nt == Times(m, nr, y)
           b == Plus(m, e, nd)
           q == r * y
<1>2. nd \in Int /\ Same(p, nd, 0 - d) /\ nr \in Int /\ Same(p, nr, 0 - r)
  BY OperationFacts
<1>3. t \in Int /\ Same(p, t, q)
  BY OperationFacts
<1> HIDE DEF nd, nr
<1>4. nt \in Int /\ Same(p, nt, nr * y)
  BY <1>2, OperationFacts
<1>5. b \in Int /\ Same(p, b, e + nd)
  BY <1>2, OperationFacts
<1>6. q \in Int /\ 0 - d \in Int /\ 0 - r \in Int /\ (0 - r) * y \in Int /\ (0 - r) * y = 0 - q
  <2>1. q \in Int /\ (0 - r) * y = 0 - q
    OBVIOUS
  <2> HIDE DEF q
  <2> QED
    BY <2>1
<1> HIDE DEF t, nt, b
<1>7. /\ Plus(m, t, b) \in Int /\ Same(p, Plus(m, t, b), t + b)
      /\ Plus(m, nt, d) \in Int /\ Same(p, Plus(m, nt, d), nt + d)
  BY <1>3, <1>4, <1>5, OperationFacts
<1> HIDE DEF q, p
<1>8. Same(p, nr * y, 0 - q)
  <2>1. Same(p, y, y)
    BY DEF Same
  <2>2. Same(p, nr * y, (0 - r) * y)
    BY <1>1, <1>2, <1>6, <2>1, SameOps
  <2> QED
    BY <1>6, <2>2
<1>9. Same(p, nt, 0 - q) /\ 0 - q \in Int
  BY <1>4, <1>6, <1>8, SameChain
<1>10. Same(p, nt + d, (0 - q) + d)
  <2>1. Same(p, d, d)
    BY DEF Same
  <2> QED
    BY <1>1, <1>4, <1>9, <2>1, SameOps
<1>11. Same(p, e + nd, e + (0 - d)) /\ e + (0 - d) \in Int /\ e + nd \in Int
  <2>1. Same(p, e, e)
    BY DEF Same
  <2> QED
    BY <1>1, <1>2, <1>6, <2>1, SameOps
<1>12. Same(p, b, e + (0 - d))
  BY <1>5, <1>11, SameChain
<1>13. Same(p, t + b, q + (e + (0 - d)))
  BY <1>1, <1>3, <1>5, <1>6, <1>11, <1>12, SameOps
<1>14. q + (e + (0 - d)) = (e - d) + q /\ (0 - q) + d = d - q
  BY <1>6
<1>15. Same(p, Plus(m, t, b), (e - d) + q) /\ Same(p, Plus(m, nt, d), d - q)
  BY <1>7, <1>10, <1>13, <1>14, SameChain
<1> QED
  BY <1>7, <1>15 DEF t, nt, b, nd, nr, q, p

(* What a member adds in LeaderBole is congruent to its term.              *)
LEMMA MaskedFacts ==
  ASSUME Drawn, Typed, NEW m \in Moduli, NEW u \in Members, NEW s \in Slots
  PROVE  /\ Masked(m, u, s) \in [Members -> Int]
         /\ \A v \in Members :
              LET b == Plus(m, UpdateValue(m, v, u), Neg(m, tape.d[v][u][s]))
                  e == Plus(m, Times(m, tape.r[v][u][s], Block[x]), b)
              IN  e \in Int /\ Same(Primes[m], e, Masked(m, u, s)[v])
<1>1. Block[x] \in Int
  BY Yyh26Assumption
<1>2. ASSUME NEW v \in Members
      PROVE  UpdateValue(m, v, u) \in Int /\ tape.d[v][u][s] \in Int /\ tape.r[v][u][s] \in Int
  <2>1. u \in Parties
    BY Counts
  <2>2. tape.d[v][u][s] \in Nat /\ tape.r[v][u][s] \in Nat
    BY DEF Drawn
  <2> QED
    BY <2>1, <2>2, ValuesAreNumbers
<1>3. Masked(m, u, s) \in [Members -> Int]
  <2>1. \A y, z, c, d \in Int : (y - z) + c * d \in Int
    OBVIOUS
  <2>2. \A v \in Members :
          (UpdateValue(m, v, u) - tape.d[v][u][s]) + tape.r[v][u][s] * Block[x] \in Int
    BY <1>1, <1>2, <2>1, Zenon
  <2> QED
    BY <2>2 DEF Masked
<1>4. ASSUME NEW v \in Members
      PROVE  LET b == Plus(m, UpdateValue(m, v, u), Neg(m, tape.d[v][u][s]))
                 e == Plus(m, Times(m, tape.r[v][u][s], Block[x]), b)
             IN  e \in Int /\ Same(Primes[m], e, Masked(m, u, s)[v])
  <2> DEFINE b == UpdateValue(m, v, u)
             d == tape.d[v][u][s]
             r == tape.r[v][u][s]
             y == Block[x]
             e == Plus(m, Times(m, r, y), Plus(m, b, Neg(m, d)))
  <2>1. b \in Int /\ d \in Int /\ r \in Int /\ y \in Int
    BY <1>1, <1>2
  <2>2. Masked(m, u, s)[v] = (b - d) + r * y
    BY DEF Masked
  <2> HIDE DEF b, d, r, y
  <2>3. e \in Int /\ Same(Primes[m], e, (b - d) + r * y)
    BY <2>1, CombinationFacts
  <2> QED
    BY <2>2, <2>3 DEF b, d, r, y
<1> QED
  BY <1>3, <1>4

(* What a member adds in ClientBole is congruent to its term.              *)
LEMMA UnmaskedFacts ==
  ASSUME Drawn, Typed, NEW m \in Moduli, NEW u \in Members, NEW s \in 1..Len(slots[u])
  PROVE  /\ Unmasked(m, u, s) \in [Members -> Int]
         /\ \A v \in Members : /\ Term(m, v, u, s) \in Int
                               /\ Same(Primes[m], Term(m, v, u, s), Unmasked(m, u, s)[v])
<1>1. Block[slots[u][s]] \in Int /\ s \in Slots
  BY SlotFacts
<1>2. \A v \in Members : tape.d[v][u][s] \in Int /\ tape.r[v][u][s] \in Int
  BY <1>1 DEF Drawn
<1>3. Unmasked(m, u, s) \in [Members -> Int]
  <2>1. \A y, z, c \in Int : y - z * c \in Int
    OBVIOUS
  <2>2. \A v \in Members : tape.d[v][u][s] - tape.r[v][u][s] * Block[slots[u][s]] \in Int
    BY <1>1, <1>2, <2>1, Zenon
  <2> QED
    BY <2>2 DEF Unmasked
<1>4. ASSUME NEW v \in Members
      PROVE  Term(m, v, u, s) \in Int /\ Same(Primes[m], Term(m, v, u, s), Unmasked(m, u, s)[v])
  <2> DEFINE d == tape.d[v][u][s]
             r == tape.r[v][u][s]
             y == Block[slots[u][s]]
             e == Plus(m, Times(m, Neg(m, r), y), d)
  <2>1. d \in Int /\ r \in Int /\ y \in Int
    BY <1>1, <1>2
  <2>2. Unmasked(m, u, s)[v] = d - r * y /\ Term(m, v, u, s) = e
    BY DEF Unmasked, Term
  <2> HIDE DEF d, r, y
  <2>3. e \in Int /\ Same(Primes[m], e, d - r * y)
    <3>1. d \in Int
      BY <2>1
    <3> QED
      BY <2>1, CombinationFacts
  <2> QED
    BY <2>2, <2>3
<1> QED
  BY <1>3, <1>4

(* What is drawn does not change.                                          *)
LEMMA SameDraws ==
  ASSUME UNCHANGED request
  PROVE  /\ \A m, i : Share(m, i)' = Share(m, i) /\ UpdatesFor(m, i)' = UpdatesFor(m, i)
         /\ \A m, v, i : UpdateValue(m, v, i)' = UpdateValue(m, v, i)
         /\ \A m, u, s : Masked(m, u, s)' = Masked(m, u, s) /\ Unmasked(m, u, s)' = Unmasked(m, u, s)
         /\ \A u : SlotOfX(u)' = SlotOfX(u)
         /\ Holders' = Holders /\ Alike' = Alike
         /\ Drawn' = Drawn
<1>1. /\ threshold' = threshold /\ slots' = slots /\ tape' = tape /\ leader' = leader
      /\ sizes' = sizes
  BY DEF request
<1>2. \A m, i : Share(m, i)' = Share(m, i)
  BY <1>1 DEF Share, Prefix
<1>3. \A m, v, i : UpdateValue(m, v, i)' = UpdateValue(m, v, i)
  BY <1>1 DEF UpdateValue, Prefix
<1>4. \A m, i : UpdatesFor(m, i)' = UpdatesFor(m, i)
  BY <1>3 DEF UpdatesFor
<1>5. \A m, u, s : Masked(m, u, s)' = Masked(m, u, s)
  BY <1>1, <1>3 DEF Masked
<1>6. \A m, u, s : Unmasked(m, u, s)' = Unmasked(m, u, s)
  BY <1>1 DEF Unmasked
<1>7. (\A u : SlotOfX(u)' = SlotOfX(u)) /\ Holders' = Holders
  BY <1>1 DEF SlotOfX, Holders
<1>8. Drawn' = Drawn
  BY <1>1 DEF Drawn
<1>9. Alike' = Alike
  BY <1>1 DEF Alike
<1> QED
  BY <1>2, <1>3, <1>4, <1>5, <1>6, <1>7, <1>8, <1>9

(* What a step passes: pairs of a member and a position in its program.    *)
Moves(passed) ==
    /\ at' \in [Parties -> Nat]
    /\ \A c \in passed : at[c[1]] = c[2]
    /\ \A w \in Members : \A k \in Nat \ {0} : at'[w] > k <=> at[w] > k \/ <<w, k>> \in passed

Met(meeting) == {<<w, Pos(w, meeting)>> : w \in Members \intersect {meeting.from, meeting.to}}

(* Whoever takes part in a meeting has come to its position.               *)
LEMMA MeetMoves ==
  ASSUME Typed, NEW meeting, meeting.from \in Parties, meeting.to \in Parties,
         meeting.from # meeting.to, Meet(meeting)
  PROVE  /\ Moves(Met(meeting))
         /\ UNCHANGED <<request, outcome, found>>
         /\ leaderIdx \in {meeting.from, meeting.to} =>
              at'[leaderIdx] = at[leaderIdx] + 1 /\ Program[leaderIdx][at[leaderIdx]] = meeting
         /\ leaderIdx \notin {meeting.from, meeting.to} => at'[leaderIdx] = at[leaderIdx]
<1> DEFINE f == meeting.from
           t == meeting.to
<1>1. at \in [Parties -> Nat] /\ Members \subseteq Parties /\ leaderIdx \in Parties
  BY Counts DEF Typed
<1>2. /\ Comes(f, meeting) /\ Comes(t, meeting)
      /\ at' = [at EXCEPT ![f] = @ + 1, ![t] = @ + 1]
      /\ UNCHANGED <<request, outcome, found>>
  BY DEF Meet
<1>3. \A p \in Parties : at'[p] = IF p \in {f, t} THEN at[p] + 1 ELSE at[p]
  BY <1>1, <1>2
<1>4. at' \in [Parties -> Nat]
  BY <1>1, <1>2
<1>5. \A p \in {f, t} : at[p] # 0 /\ ~ Finished(p) /\ Program[p][at[p]] = meeting
  BY <1>2 DEF Comes
<1>6. ASSUME NEW w \in Members, w \in {f, t} PROVE at[w] = Pos(w, meeting) /\ at[w] # 0
  <2>1. at[w] \in Nat \ {0} /\ ~ (at[w] > IndexPos) /\ Program[w][at[w]] = meeting
    <3>1. Len(Program[w]) = IndexPos
      BY MemberProgramFacts
    <3> QED
      BY <1>1, <1>5, <1>6, <3>1 DEF Finished
  <2>2. at[w] \in 1..IndexPos
    <3>1. IndexPos \in Int
      BY Counts DEF IndexPos
    <3> QED
      BY <2>1, <3>1
  <2> QED
    BY <2>1, <2>2, PositionOf
<1>7. \A c \in Met(meeting) : at[c[1]] = c[2]
  BY <1>6 DEF Met
<1>8. ASSUME NEW w \in Members, NEW k \in Nat \ {0}
      PROVE  at'[w] > k <=> at[w] > k \/ <<w, k>> \in Met(meeting)
  <2>1. CASE w \in {f, t}
    <3>1. at'[w] = at[w] + 1 /\ at[w] \in Nat /\ at[w] = Pos(w, meeting)
      BY <1>1, <1>3, <1>6, <2>1
    <3>2. <<w, k>> \in Met(meeting) <=> k = at[w]
      BY <2>1, <3>1 DEF Met
    <3> QED
      BY <3>1, <3>2
  <2>2. CASE w \notin {f, t}
    <3>1. at'[w] = at[w] /\ <<w, k>> \notin Met(meeting)
      BY <1>1, <1>3, <2>2 DEF Met
    <3> QED
      BY <3>1
  <2> QED
    BY <2>1, <2>2
<1>9. Moves(Met(meeting))
  BY <1>4, <1>7, <1>8 DEF Moves
<1> QED
  BY <1>1, <1>2, <1>3, <1>5, <1>9

(* The positions that each step passes.                                    *)
LEMMA StepMoves ==
  ASSUME Typed
  PROVE  /\ \A p \in Parties : Submit(p) \/ Finish(p) => Moves({})
         /\ \A u \in Members :
              /\ Sync(u) => Moves({<<u, 1>>})
              /\ \A m \in Moduli : /\ GiveShare(u, m) => Moves({<<u, 1 + m>>})
                                   /\ GiveAnswer(u, m) => Moves({<<u, AnswerPos(m)>>})
              /\ Update(u) => Moves({<<u, UpdatePos>>})
              /\ LeaderBole(u) => Moves({<<u, BolePos>>})
              /\ GiveIndex(u) => Moves({<<u, IndexPos>>})
              /\ \A v \in Members \ {u} :
                   ClientBole(v, u) => Moves({<<u, ReceivePos(u, v)>>, <<v, SendPos(v, u)>>})
<1> DEFINE L == leaderIdx
<1>1. /\ at \in [Parties -> Nat] /\ Members \subseteq Parties /\ L \in Parties
      /\ \A u \in Members : u # L /\ u \in Parties
  BY Counts DEF Typed
<1>2. ASSUME NEW p \in Parties, Submit(p) \/ Finish(p) PROVE Moves({})
  <2>1. CASE Submit(p)
    <3>1. at[p] = 0 /\ at' = [at EXCEPT ![p] = 1]
      BY <2>1 DEF Submit
    <3>2. \A w \in Members : at'[w] = IF w = p THEN 1 ELSE at[w]
      BY <1>1, <3>1
    <3>3. \A w \in Members : \A k \in Nat \ {0} : at'[w] > k <=> at[w] > k
      BY <1>1, <3>1, <3>2
    <3> QED
      BY <1>1, <3>1, <3>3 DEF Moves
  <2>2. CASE Finish(p)
    <3>1. at' = at
      BY <2>2 DEF Finish
    <3> QED
      BY <1>1, <3>1 DEF Moves
  <2> QED
    BY <1>2, <2>1, <2>2
<1>3. ASSUME NEW u \in Members, NEW kind, NEW m, NEW meeting,
             meeting = Meeting(kind, L, u, m) \/ meeting = Meeting(kind, u, L, m), Meet(meeting)
      PROVE  Moves({<<u, Pos(u, meeting)>>})
  <2>1. {meeting.from, meeting.to} = {u, L} /\ meeting.from # meeting.to
    BY <1>1, <1>3 DEF Meeting
  <2>2. meeting.from \in Parties /\ meeting.to \in Parties
    BY <1>1, <2>1
  <2>3. Members \intersect {meeting.from, meeting.to} = {u}
    BY <1>1, <2>1
  <2>4. Met(meeting) = {<<u, Pos(u, meeting)>>}
    BY <2>3 DEF Met
  <2> QED
    BY <1>3, <2>1, <2>2, <2>4, MeetMoves
<1>4. ASSUME NEW u \in Members
      PROVE  /\ Sync(u) => Moves({<<u, 1>>})
             /\ \A m \in Moduli : /\ GiveShare(u, m) => Moves({<<u, 1 + m>>})
                                  /\ GiveAnswer(u, m) => Moves({<<u, AnswerPos(m)>>})
             /\ Update(u) => Moves({<<u, UpdatePos>>})
             /\ LeaderBole(u) => Moves({<<u, BolePos>>})
             /\ GiveIndex(u) => Moves({<<u, IndexPos>>})
  <2>1. ASSUME Sync(u) PROVE Moves({<<u, 1>>})
    <3> DEFINE b == Meeting("sync", L, u, 0)
    <3>1. Meet(b) /\ Pos(u, b) = 1
      BY <2>1 DEF Sync, Pos, Meeting
    <3> HIDE DEF b
    <3>2. b = Meeting("sync", L, u, 0)
      BY DEF b
    <3> QED
      BY <1>3, <3>1, <3>2
  <2>2. ASSUME NEW m \in Moduli, GiveShare(u, m) PROVE Moves({<<u, 1 + m>>})
    <3> DEFINE b == Meeting("share", L, u, m)
    <3>1. Meet(b) /\ Pos(u, b) = 1 + m
      BY <2>2 DEF GiveShare, Pos, Meeting
    <3> HIDE DEF b
    <3>2. b = Meeting("share", L, u, m)
      BY DEF b
    <3> QED
      BY <1>3, <3>1, <3>2
  <2>3. ASSUME NEW m \in Moduli, GiveAnswer(u, m) PROVE Moves({<<u, AnswerPos(m)>>})
    <3> DEFINE b == Meeting("answer", u, L, m)
    <3>1. Meet(b) /\ Pos(u, b) = AnswerPos(m)
      BY <2>3 DEF GiveAnswer, Pos, Meeting
    <3> HIDE DEF b
    <3>2. b = Meeting("answer", u, L, m)
      BY DEF b
    <3> QED
      BY <1>3, <3>1, <3>2
  <2>4. ASSUME Update(u) PROVE Moves({<<u, UpdatePos>>})
    <3> DEFINE b == Meeting("update", u, L, 0)
    <3>1. Meet(b) /\ Pos(u, b) = UpdatePos
      BY <2>4 DEF Update, Pos, Meeting
    <3> HIDE DEF b
    <3>2. b = Meeting("update", u, L, 0)
      BY DEF b
    <3> QED
      BY <1>3, <3>1, <3>2
  <2>5. ASSUME LeaderBole(u) PROVE Moves({<<u, BolePos>>})
    <3> DEFINE b == Meeting("bole", u, L, 0)
    <3>1. Meet(b) /\ Pos(u, b) = BolePos
      BY <2>5 DEF LeaderBole, Pos, Meeting
    <3> HIDE DEF b
    <3>2. b = Meeting("bole", u, L, 0)
      BY DEF b
    <3> QED
      BY <1>3, <3>1, <3>2
  <2>6. ASSUME GiveIndex(u) PROVE Moves({<<u, IndexPos>>})
    <3> DEFINE b == Meeting("index", u, L, 0)
    <3>1. Meet(b) /\ Pos(u, b) = IndexPos
      BY <2>6 DEF GiveIndex, Pos, Meeting
    <3> HIDE DEF b
    <3>2. b = Meeting("index", u, L, 0)
      BY DEF b
    <3> QED
      BY <1>3, <3>1, <3>2
  <2> QED
    BY <2>1, <2>2, <2>3, <2>4, <2>5, <2>6
<1>5. ASSUME NEW u \in Members, NEW v \in Members \ {u}, ClientBole(v, u)
      PROVE  Moves({<<u, ReceivePos(u, v)>>, <<v, SendPos(v, u)>>})
  <2> DEFINE b == Meeting("bole", v, u, 0)
  <2>1. Meet(b)
    BY <1>5 DEF ClientBole
  <2>2. b.from = v /\ b.to = u
    BY DEF Meeting
  <2>3. Pos(u, b) = ReceivePos(u, v) /\ Pos(v, b) = SendPos(v, u)
    BY <1>1 DEF Pos, Meeting
  <2> HIDE DEF b
  <2>4. Met(b) = {<<u, ReceivePos(u, v)>>, <<v, SendPos(v, u)>>}
    <3>1. Members \intersect {v, u} = {u, v}
      OBVIOUS
    <3>2. Met(b) = {<<w, Pos(w, b)>> : w \in {u, v}}
      BY <2>2, <3>1 DEF Met
    <3> QED
      BY <2>3, <3>2
  <2> QED
    BY <1>1, <2>1, <2>2, <2>4, MeetMoves
<1> QED
  BY <1>2, <1>4, <1>5

(* The order of the positions.                                             *)
LEMMA PositionFacts ==
  /\ 1 \in Nat \ {0} /\ UpdatePos \in Nat \ {0} /\ BolePos \in Nat \ {0} /\ IndexPos \in Nat \ {0}
  /\ UpdatePos # 1 /\ BolePos # 1 /\ IndexPos # 1
  /\ UpdatePos # BolePos /\ UpdatePos < IndexPos /\ BolePos < IndexPos
  /\ \A m \in Moduli :
       /\ 1 + m \in Nat \ {0} /\ AnswerPos(m) \in Nat \ {0}
       /\ 1 + m # 1 /\ AnswerPos(m) # 1
       /\ 1 + m < UpdatePos /\ 1 + m < BolePos /\ 1 + m < IndexPos
       /\ AnswerPos(m) > UpdatePos /\ AnswerPos(m) > BolePos /\ AnswerPos(m) < IndexPos
       /\ \A i \in Moduli : 1 + m < AnswerPos(i) /\ (1 + m = 1 + i => m = i) /\ (AnswerPos(m) = AnswerPos(i) => m = i)
  /\ \A u \in Members : \A v \in Members \ {u} :
       /\ ReceivePos(u, v) \in Nat \ {0} /\ SendPos(u, v) \in Nat \ {0}
       /\ BolePos < ReceivePos(u, v) /\ BolePos < SendPos(u, v)
       /\ UpdatePos < ReceivePos(u, v) /\ UpdatePos < SendPos(u, v)
       /\ ReceivePos(u, v) < IndexPos /\ SendPos(u, v) < IndexPos
       /\ ReceivePos(u, v) # 1 /\ SendPos(u, v) # 1
       /\ \A m \in Moduli : /\ 1 + m < ReceivePos(u, v) /\ ReceivePos(u, v) < AnswerPos(m)
                            /\ 1 + m < SendPos(u, v) /\ SendPos(u, v) < AnswerPos(m)
       /\ \A w \in Members \ {u} : /\ ReceivePos(u, v) # SendPos(u, w)
                                   /\ ReceivePos(u, v) = ReceivePos(u, w) => v = w
<1>1. N \in Nat /\ N >= 2 /\ M \in Nat /\ M >= 1 /\ Moduli = 1..M /\ Members = 0..(N - 2)
  BY Counts
<1> QED
  BY <1>1 DEF UpdatePos, BolePos, IndexPos, AnswerPos, ReceivePos, SendPos

-----------------------------------------------------------------------------
(* A part of the invariant is kept by the steps that pass none of its      *)
(* positions.                                                              *)
LEMMA KeepsShares ==
  ASSUME SharesGiven, NEW passed, Moves(passed), UNCHANGED <<request, payload>>,
         \A u \in Members : \A m \in Moduli : <<u, 1 + m>> \notin passed
  PROVE  SharesGiven'
<1> SUFFICES ASSUME NEW u \in Members, NEW m \in Moduli, at'[u] > 1 + m
             PROVE  payload'[u][m] = [s \in 1..Len(slots'[u]) |->
                                        IF SameAsX(slots'[u][s]) THEN Share(m, u)' ELSE Junk]
  BY DEF SharesGiven, SameAsX
<1>1. at[u] > 1 + m
  BY PositionFacts DEF Moves
<1>2. Share(m, u)' = Share(m, u)
  BY SameDraws
<1> QED
  BY <1>1, <1>2 DEF SharesGiven, request

(* ... the sum of the updates of the leader's share ...                    *)
LEMMA KeepsUpdated ==
  ASSUME LeaderUpdated, NEW passed, Moves(passed), UNCHANGED <<request, serverShare>>,
         \A u \in Members : <<u, UpdatePos>> \notin passed
  PROVE  LeaderUpdated'
<1>1. {v \in Members : at'[v] > UpdatePos} = {v \in Members : at[v] > UpdatePos}
  BY PositionFacts DEF Moves
<1>2. \A m : /\ Share(m, leaderIdx)' = Share(m, leaderIdx)
             /\ UpdatesFor(m, leaderIdx)' = UpdatesFor(m, leaderIdx)
  BY SameDraws
<1> QED
  BY <1>1, <1>2 DEF LeaderUpdated

(* ... the sums that the leader keeps ...                                  *)
LEMMA KeepsMasked ==
  ASSUME LeaderMasked, NEW passed, Moves(passed), UNCHANGED <<request, leaderOle>>,
         \A u \in Members : <<u, BolePos>> \notin passed
  PROVE  LeaderMasked'
<1>1. {v \in Members : at'[v] > BolePos} = {v \in Members : at[v] > BolePos}
  BY PositionFacts DEF Moves
<1>2. \A m, u, s : Masked(m, u, s)' = Masked(m, u, s)
  BY SameDraws
<1> QED
  BY <1>1, <1>2 DEF LeaderMasked

(* ... the sums that the members keep ...                                  *)
LEMMA KeepsUnmasked ==
  ASSUME MembersUnmasked, NEW passed, Moves(passed), UNCHANGED <<request, memberOle>>,
         \A u \in Members : \A v \in Members \ {u} : <<u, ReceivePos(u, v)>> \notin passed
  PROVE  MembersUnmasked'
<1>1. \A u \in Members : {v \in Members \ {u} : at'[u] > ReceivePos(u, v)} =
                         {v \in Members \ {u} : at[u] > ReceivePos(u, v)}
  BY PositionFacts DEF Moves
<1>2. \A m, u, s : Unmasked(m, u, s)' = Unmasked(m, u, s)
  BY SameDraws
<1>3. slots' = slots
  BY DEF request
<1> QED
  BY <1>1, <1>2, <1>3 DEF MembersUnmasked

(* ... the answers ...                                                     *)
LEMMA KeepsAnswered ==
  ASSUME Answered, NEW passed, Moves(passed), UNCHANGED <<request, endPayload>>,
         \A u \in Members : \A m \in Moduli : <<u, AnswerPos(m)>> \notin passed
  PROVE  Answered'
<1>1. \A u \in Members : \A m \in Moduli : at'[u] > AnswerPos(m) <=> at[u] > AnswerPos(m)
  BY PositionFacts DEF Moves
<1>2. \A u : SlotOfX(u)' = SlotOfX(u)
  BY SameDraws
<1>3. \A m, u, s : Unmasked(m, u, s)' = Unmasked(m, u, s) /\ Share(m, u)' = Share(m, u)
  BY SameDraws
<1> QED
  BY <1>1, <1>2, <1>3 DEF Answered

(* ... the indices ...                                                     *)
LEMMA KeepsIndexed ==
  ASSUME Indexed, NEW passed, Moves(passed), UNCHANGED <<request, oleIndex>>,
         \A u \in Members : <<u, IndexPos>> \notin passed
  PROVE  Indexed'
<1>1. \A u \in Members : at'[u] > IndexPos <=> at[u] > IndexPos
  BY PositionFacts DEF Moves
<1>2. \A u : SlotOfX(u)' = SlotOfX(u)
  BY SameDraws
<1> QED
  BY <1>1, <1>2 DEF Indexed

(* ... and the verdict, which only Finish writes.                          *)
LEMMA KeepsVerdict ==
  ASSUME FoundIfHeldByEnough, UNCHANGED <<request, outcome, found>>
  PROVE  FoundIfHeldByEnough'
<1>1. Holders' = Holders /\ Alike' = Alike /\ leader' = leader /\ threshold' = threshold
  BY SameDraws DEF request
<1> QED
  BY <1>1 DEF FoundIfHeldByEnough

(* The leader is behind the index of each member that it has passed: it    *)
(* passes the position when they meet, or does not move.                   *)
LEMMA KeepsLast ==
  ASSUME Typed, LeaderLast, NEW passed, Moves(passed),
         \/ at'[leaderIdx] = at[leaderIdx]
         \/ at[leaderIdx] = 0 /\ at'[leaderIdx] = 1
         \/ /\ at'[leaderIdx] = at[leaderIdx] + 1
            /\ \A u \in Members : Program[leaderIdx][at[leaderIdx]] = Meeting("index", u, leaderIdx, 0)
                                  => <<u, IndexPos>> \in passed
  PROVE  LeaderLast'
<1> DEFINE L == leaderIdx
           X == LeaderEnd - (N - 1)
<1>1. at[L] \in Nat /\ \A u \in Members : at[u] \in Nat
  BY Counts DEF Typed
<1>2. X \in Nat /\ \A u \in Members : u + 1 \in Nat /\ u + 1 >= 1
  BY Counts, LeaderProgramFacts
<1>3. \A u \in Members : Program[L][X + (u + 1)] = Meeting("index", u, L, 0)
  BY LeaderProgramFacts
<1> SUFFICES ASSUME NEW u \in Members, at'[L] > X + (u + 1) PROVE at'[u] > IndexPos
  BY DEF LeaderLast
<1> HIDE DEF X
<1>4. CASE at[L] > X + (u + 1)
  <2>1. at[u] > IndexPos
    BY <1>4 DEF LeaderLast, X
  <2> QED
    BY <2>1, PositionFacts DEF Moves
<1>5. CASE ~ (at[L] > X + (u + 1))
  <2>1. at'[L] = at[L] + 1 /\ at[L] = X + (u + 1) /\ at[L] # 0
    BY <1>1, <1>2, <1>5
  <2>2. Program[L][at[L]] = Meeting("index", u, L, 0)
    BY <1>3, <2>1
  <2>3. ~ (at'[L] = at[L]) /\ ~ (at[L] = 0 /\ at'[L] = 1)
    BY <1>1, <2>1
  <2>4. <<u, IndexPos>> \in passed
    BY <2>2, <2>3
  <2> QED
    BY <2>4, PositionFacts DEF Moves
<1> QED
  BY <1>4, <1>5

-----------------------------------------------------------------------------
(* At first nobody has computed anything: all sums are zero.               *)
LEMMA InitHolds == Init => Yyh26Inv
<1> SUFFICES ASSUME Init PROVE Yyh26Inv
  OBVIOUS
<1>1. /\ at = [p \in Parties |-> 0] /\ leaderIdx \in Parties /\ Members \subseteq Parties
      /\ IsFiniteSet(Members)
  <2>1. IsFiniteSet(Members)
    BY Counts, FS_Interval DEF Members
  <2> QED
    BY <2>1, Counts DEF Init
<1>2. Drawn
  <2> DEFINE C == [1..(N - 1) -> Nat]
             V == [Members -> [Members -> [Slots -> Nat]]]
  <2>1. threshold \in 1..N /\ leader \in Parties
    BY Yyh26Assumption DEF Init
  <2>2. tape \in [a : C, g : [Members -> C], r : V, d : V]
    BY Yyh26Assumption DEF Init
  <2>3. tape.a \in C /\ tape.g \in [Members -> C] /\ tape.r \in V /\ tape.d \in V
    <3> HIDE DEF C, V
    <3> QED
      BY <2>2
  <2> QED
    BY <2>1, <2>3 DEF Drawn
<1>3. \A u \in Members : slots[u] \in Seq(DOMAIN Block) /\ Len(slots[u]) <= MaxBinSize
  <2> SUFFICES ASSUME NEW u \in Members
               PROVE  slots[u] \in Seq(DOMAIN Block) /\ Len(slots[u]) <= MaxBinSize
    OBVIOUS
  <2>1. slots[u] \in SeqOf(DOMAIN Block, MaxBinSize) /\ MaxBinSize \in Nat
    BY Yyh26Assumption DEF Init
  <2>2. PICK n \in 0..MaxBinSize : slots[u] \in [1..n -> DOMAIN Block]
    BY <2>1 DEF SeqOf
  <2>3. slots[u] \in Seq(DOMAIN Block) /\ Len(slots[u]) = n
    BY <2>1, <2>2, Tabulated
  <2> QED
    BY <2>1, <2>3
<1>4. Typed
  <2>1. serverShare \in [Moduli -> Int]
    BY <1>1, <1>2, ValuesAreNumbers DEF Init
  <2>2. leaderOle = Blank /\ memberOle = Blank /\ Blank \in [Members -> [Slots -> [Moduli -> Int]]]
    BY DEF Init, Blank
  <2>3. /\ at \in [Parties -> Nat] /\ DOMAIN outcome = Parties
        /\ DOMAIN payload = Members /\ \A u \in Members : DOMAIN payload[u] = Moduli
        /\ DOMAIN endPayload = Members /\ \A u \in Members : DOMAIN endPayload[u] = Moduli
        /\ DOMAIN oleIndex = Members
    BY DEF Init
  <2> QED
    BY <1>3, <2>1, <2>2, <2>3 DEF Typed
<1>5. \A p \in Parties : \A k \in Nat \ {0} : ~ (at[p] > k)
  BY <1>1
<1>6. SharesGiven /\ Answered /\ Indexed
  BY <1>1, <1>5, PositionFacts DEF SharesGiven, Answered, Indexed
<1>7. LeaderUpdated
  <2> SUFFICES ASSUME NEW m \in Moduli
               PROVE  Same(Primes[m], serverShare[m],
                           Share(m, leaderIdx) + Sum(UpdatesFor(m, leaderIdx), {v \in Members : at[v] > UpdatePos}))
    BY DEF LeaderUpdated
  <2>1. {v \in Members : at[v] > UpdatePos} = {}
    BY <1>1, <1>5, PositionFacts
  <2>2. UpdatesFor(m, leaderIdx) \in [Members -> Int] /\ Share(m, leaderIdx) \in Int
    BY <1>1, <1>2, ValuesAreNumbers DEF UpdatesFor
  <2>3. Sum(UpdatesFor(m, leaderIdx), {}) = 0
    BY <1>1, <2>2, SumFacts
  <2>4. serverShare[m] = Share(m, leaderIdx)
    BY DEF Init
  <2>5. Share(m, leaderIdx) + 0 = Share(m, leaderIdx)
    BY <2>2
  <2> QED
    BY <2>1, <2>3, <2>4, <2>5 DEF Same
<1>8. LeaderMasked
  <2> SUFFICES ASSUME NEW u \in Members, NEW s \in Slots, NEW m \in Moduli
               PROVE  Same(Primes[m], leaderOle[u][s][m], Sum(Masked(m, u, s), {v \in Members : at[v] > BolePos}))
    BY DEF LeaderMasked
  <2>1. {v \in Members : at[v] > BolePos} = {}
    BY <1>1, <1>5, PositionFacts
  <2>2. Sum(Masked(m, u, s), {}) = 0
    BY <1>1, <1>2, <1>4, MaskedFacts, SumFacts
  <2>3. leaderOle[u][s][m] = 0
    BY DEF Init, Blank
  <2> QED
    BY <2>1, <2>2, <2>3 DEF Same
<1>9. MembersUnmasked
  <2> SUFFICES ASSUME NEW u \in Members, NEW s \in 1..Len(slots[u]), NEW m \in Moduli
               PROVE  Same(Primes[m], memberOle[u][s][m],
                           Sum(Unmasked(m, u, s), {v \in Members \ {u} : at[u] > ReceivePos(u, v)}))
    BY DEF MembersUnmasked
  <2>1. {v \in Members \ {u} : at[u] > ReceivePos(u, v)} = {}
    BY <1>1, <1>5, PositionFacts
  <2>2. Sum(Unmasked(m, u, s), {}) = 0
    BY <1>1, <1>2, <1>4, UnmaskedFacts, SumFacts
  <2>3. memberOle[u][s][m] = 0
    <3>1. s \in Slots
      BY <1>4, SlotFacts
    <3> QED
      BY <3>1 DEF Init, Blank
  <2> QED
    BY <2>1, <2>2, <2>3 DEF Same
<1>10. LeaderLast
  <2>1. \A u \in Members : LeaderEnd - (N - 1) + (u + 1) \in Nat \ {0}
    BY Counts, LeaderProgramFacts
  <2> QED
    BY <1>1, <1>5, <2>1 DEF LeaderLast
<1>11. FoundIfHeldByEnough
  <2>1. outcome[leader] = "none"
    BY <1>2 DEF Init, Drawn
  <2> QED
    BY <2>1 DEF FoundIfHeldByEnough
<1> QED
  BY <1>2, <1>4, <1>6, <1>7, <1>8, <1>9, <1>10, <1>11 DEF Yyh26Inv

(* What every meeting keeps.                                               *)
LEMMA MeetKeeps ==
  ASSUME Yyh26Inv, NEW meeting, meeting.from \in Parties, meeting.to \in Parties,
         meeting.from # meeting.to, Meet(meeting), NEW passed, Moves(passed),
         \A u \in Members : meeting = Meeting("index", u, leaderIdx, 0) => <<u, IndexPos>> \in passed
  PROVE  /\ UNCHANGED request /\ slots' = slots /\ tape' = tape
         /\ Drawn' /\ LeaderLast' /\ FoundIfHeldByEnough'
         /\ at' \in [Parties -> Nat] /\ DOMAIN outcome' = Parties
<1>1. Typed /\ Drawn /\ LeaderLast /\ FoundIfHeldByEnough
  BY DEF Yyh26Inv
<1>2. /\ UNCHANGED <<request, outcome, found>>
      /\ leaderIdx \in {meeting.from, meeting.to} =>
              at'[leaderIdx] = at[leaderIdx] + 1 /\ Program[leaderIdx][at[leaderIdx]] = meeting
      /\ leaderIdx \notin {meeting.from, meeting.to} => at'[leaderIdx] = at[leaderIdx]
  BY <1>1, MeetMoves
<1>3. LeaderLast'
  <2>1. \/ at'[leaderIdx] = at[leaderIdx]
        \/ /\ at'[leaderIdx] = at[leaderIdx] + 1
           /\ \A u \in Members : Program[leaderIdx][at[leaderIdx]] = Meeting("index", u, leaderIdx, 0)
                                 => <<u, IndexPos>> \in passed
    BY <1>2
  <2> QED
    BY <1>1, <2>1, KeepsLast
<1>4. Drawn' /\ FoundIfHeldByEnough'
  BY <1>1, <1>2, SameDraws, KeepsVerdict
<1> QED
  BY <1>1, <1>2, <1>3, <1>4 DEF Typed, Moves, request

(* Sync(u): nothing is computed.                                           *)
LEMMA SyncPreserves ==
  ASSUME Yyh26Inv, NEW u \in Members, Sync(u)
  PROVE  Yyh26Inv'
<1> DEFINE b == Meeting("sync", leaderIdx, u, 0)
           passed == {<<u, 1>>}
<1>1. Typed /\ SharesGiven /\ LeaderUpdated /\ LeaderMasked /\ MembersUnmasked /\ Answered /\ Indexed
  BY DEF Yyh26Inv
<1>2. Moves(passed) /\ Meet(b) /\ UNCHANGED values
  BY <1>1, StepMoves DEF Sync
<1>3. b.from \in Parties /\ b.to \in Parties /\ b.from # b.to /\ b.kind # "index"
  BY Counts DEF Meeting
<1>4. b.kind # "index" => \A w \in Members : b # Meeting("index", w, leaderIdx, 0)
  BY DEF Meeting
<1> HIDE DEF b
<1>5. /\ UNCHANGED request /\ slots' = slots /\ tape' = tape
      /\ Drawn' /\ LeaderLast' /\ FoundIfHeldByEnough'
      /\ at' \in [Parties -> Nat] /\ DOMAIN outcome' = Parties
  BY <1>2, <1>3, <1>4, MeetKeeps
<1>6. Typed'
  BY <1>1, <1>2, <1>5 DEF Typed, values
<1>7. \A w \in Members : \A k : k # 1 => <<w, k>> \notin passed
  OBVIOUS
<1> HIDE DEF passed
<1>8. SharesGiven'
  BY <1>1, <1>2, <1>5, <1>7, PositionFacts, KeepsShares DEF values
<1>9. LeaderUpdated'
  BY <1>1, <1>2, <1>5, <1>7, PositionFacts, KeepsUpdated DEF values
<1>10. LeaderMasked'
  BY <1>1, <1>2, <1>5, <1>7, PositionFacts, KeepsMasked DEF values
<1>11. MembersUnmasked'
  BY <1>1, <1>2, <1>5, <1>7, PositionFacts, KeepsUnmasked DEF values
<1>12. Answered'
  BY <1>1, <1>2, <1>5, <1>7, PositionFacts, KeepsAnswered DEF values
<1>13. Indexed'
  BY <1>1, <1>2, <1>5, <1>7, PositionFacts, KeepsIndexed DEF values
<1> QED
  BY <1>5, <1>6, <1>8, <1>9, <1>10, <1>11, <1>12, <1>13 DEF Yyh26Inv

(* GiveShare(u, m): u gets its share at the slots with the prefix of x.    *)
LEMMA SharePreserves ==
  ASSUME Yyh26Inv, NEW u \in Members, NEW m \in Moduli, GiveShare(u, m)
  PROVE  Yyh26Inv'
<1> DEFINE b == Meeting("share", leaderIdx, u, m)
           passed == {<<u, 1 + m>>}
<1>1. Drawn /\ Typed /\ SharesGiven /\ LeaderUpdated /\ LeaderMasked /\ MembersUnmasked /\ Answered /\ Indexed
  BY DEF Yyh26Inv
<1>2. Moves(passed) /\ Meet(b) /\ UNCHANGED <<serverShare, leaderOle, memberOle, endPayload, oleIndex>>
  BY <1>1, StepMoves DEF GiveShare
<1>3. b.from \in Parties /\ b.to \in Parties /\ b.from # b.to
  BY Counts DEF Meeting
<1>4. \A w \in Members : b = Meeting("index", w, leaderIdx, 0) => <<w, IndexPos>> \in passed
  BY DEF Meeting
<1> HIDE DEF b
<1>5. /\ UNCHANGED request /\ slots' = slots /\ tape' = tape
      /\ Drawn' /\ LeaderLast' /\ FoundIfHeldByEnough'
      /\ at' \in [Parties -> Nat] /\ DOMAIN outcome' = Parties
  BY <1>1, <1>2, <1>3, <1>4, MeetKeeps
<1> DEFINE given == [s \in 1..Len(slots[u]) |-> IF SameAsX(slots[u][s]) THEN Share(m, u) ELSE Junk]
<1>6. Typed' /\ payload' = [payload EXCEPT ![u][m] = given]
  <2>1. payload' = [payload EXCEPT ![u][m] = given]
    BY DEF GiveShare
  <2> HIDE DEF given
  <2>2. DOMAIN payload' = Members /\ \A w \in Members : DOMAIN payload'[w] = Moduli
    BY <1>1, <2>1 DEF Typed
  <2> QED
    BY <1>1, <1>2, <1>5, <2>1, <2>2 DEF Typed, given
<1>7. SharesGiven'
  <2> SUFFICES ASSUME NEW w \in Members, NEW i \in Moduli, at'[w] > 1 + i
               PROVE  payload'[w][i] = [s \in 1..Len(slots[w]) |->
                                          IF SameAsX(slots[w][s]) THEN Share(i, w) ELSE Junk]
    <3>1. \A k, w : Share(k, w)' = Share(k, w)
      BY <1>5, SameDraws
    <3> QED
      BY <1>5, <3>1 DEF SharesGiven, SameAsX
  <2>1. CASE w = u /\ i = m
    <3>1. payload'[w][i] = given
      <4> HIDE DEF given
      <4> QED
        BY <1>1, <1>6, <2>1 DEF Typed
    <3> QED
      BY <2>1, <3>1
  <2>2. CASE ~ (w = u /\ i = m)
    <3>1. payload'[w][i] = payload[w][i]
      <4> HIDE DEF given
      <4> QED
        BY <1>1, <1>6, <2>2 DEF Typed
    <3>2. <<w, 1 + i>> \notin passed
      BY <2>2, PositionFacts
    <3>3. at[w] > 1 + i
      BY <1>2, <3>2, PositionFacts DEF Moves
    <3> QED
      BY <1>1, <3>1, <3>3 DEF SharesGiven
  <2> QED
    BY <2>1, <2>2
<1>8. LeaderUpdated'
  BY <1>1, <1>2, <1>5, PositionFacts, KeepsUpdated
<1>9. LeaderMasked'
  BY <1>1, <1>2, <1>5, PositionFacts, KeepsMasked
<1>10. MembersUnmasked'
  BY <1>1, <1>2, <1>5, PositionFacts, KeepsUnmasked
<1>11. Answered'
  BY <1>1, <1>2, <1>5, PositionFacts, KeepsAnswered
<1>12. Indexed'
  BY <1>1, <1>2, <1>5, PositionFacts, KeepsIndexed
<1> QED
  BY <1>5, <1>6, <1>7, <1>8, <1>9, <1>10, <1>11, <1>12 DEF Yyh26Inv

(* Update(u): the leader adds u's sharing of zero to its own share.        *)
LEMMA UpdatePreserves ==
  ASSUME Yyh26Inv, NEW u \in Members, Update(u)
  PROVE  Yyh26Inv'
<1> DEFINE b == Meeting("update", u, leaderIdx, 0)
           passed == {<<u, UpdatePos>>}
<1>1. Drawn /\ Typed /\ SharesGiven /\ LeaderUpdated /\ LeaderMasked /\ MembersUnmasked /\ Answered /\ Indexed
  BY DEF Yyh26Inv
<1>2. Moves(passed) /\ Meet(b) /\ UNCHANGED <<payload, leaderOle, memberOle, endPayload, oleIndex>>
  BY <1>1, StepMoves DEF Update
<1>3. b.from \in Parties /\ b.to \in Parties /\ b.from # b.to
  BY Counts DEF Meeting
<1>4. \A w \in Members : b = Meeting("index", w, leaderIdx, 0) => <<w, IndexPos>> \in passed
  BY DEF Meeting
<1> HIDE DEF b
<1>5. /\ UNCHANGED request /\ slots' = slots /\ tape' = tape
      /\ Drawn' /\ LeaderLast' /\ FoundIfHeldByEnough'
      /\ at' \in [Parties -> Nat] /\ DOMAIN outcome' = Parties
  BY <1>1, <1>2, <1>3, <1>4, MeetKeeps
<1> DEFINE L == leaderIdx
<1>6. Typed'
  <2>1. \A m \in Moduli : serverShare[m] \in Int /\ UpdateValue(m, u, L) \in Int
    BY <1>1, Counts, ValuesAreNumbers DEF Typed
  <2>2. \A m \in Moduli : Plus(m, serverShare[m], UpdateValue(m, u, L)) \in Int
    BY <2>1, OperationFacts
  <2>3. serverShare' \in [Moduli -> Int]
    BY <2>2 DEF Update
  <2> QED
    BY <1>1, <1>2, <1>5, <2>3 DEF Typed
<1>7. LeaderUpdated'
  <2> DEFINE old == {v \in Members : at[v] > UpdatePos}
  <2>1. {v \in Members : at'[v] > UpdatePos} = old \union {u} /\ u \in Members \ old
    BY <1>2, PositionFacts DEF Moves
  <2> SUFFICES ASSUME NEW m \in Moduli
               PROVE  Same(Primes[m], serverShare'[m], Share(m, L) + Sum(UpdatesFor(m, L), old \union {u}))
    <3>1. \A k : Share(k, L)' = Share(k, L) /\ UpdatesFor(k, L)' = UpdatesFor(k, L)
      BY <1>5, SameDraws
    <3> QED
      BY <2>1, <3>1 DEF LeaderUpdated
  <2> DEFINE f == UpdatesFor(m, L)
             a == serverShare[m]
             c == Share(m, L)
             d == UpdateValue(m, u, L)
             e == Plus(m, a, d)
             p == Primes[m]
  <2>2. /\ p \in Nat \ {0} /\ IsFiniteSet(Members) /\ f \in [Members -> Int] /\ f[u] = d
        /\ a \in Int /\ c \in Int /\ d \in Int /\ old \in SUBSET Members
    <3>1. IsFiniteSet(Members) /\ L \in Parties
      BY Counts, FS_Interval
    <3>2. c \in Int /\ \A v \in Members : UpdateValue(m, v, L) \in Int
      BY <1>1, <3>1, ValuesAreNumbers
    <3> QED
      BY <1>1, <3>1, <3>2, ModulusFacts DEF Typed, UpdatesFor
  <2>3. Same(p, a, c + Sum(f, old))
    BY <1>1 DEF LeaderUpdated
  <2>4. serverShare'[m] = e
    BY DEF Update
  <2> HIDE DEF f, a, c, d, p, old
  <2>5. e \in Int /\ Same(p, e, a + d)
    BY <2>2, OperationFacts DEF p
  <2>6. Same(p, d, f[u])
    BY <2>2 DEF Same
  <2>7. Same(p, e, c + Sum(f, old \union {u}))
    <3> HIDE DEF e
    <3> QED
      BY <2>1, <2>2, <2>3, <2>5, <2>6, SumGrows
  <2> QED
    BY <2>4, <2>7 DEF p, c, f
<1>8. SharesGiven'
  BY <1>1, <1>2, <1>5, PositionFacts, KeepsShares
<1>9. LeaderMasked'
  BY <1>1, <1>2, <1>5, PositionFacts, KeepsMasked
<1>10. MembersUnmasked'
  BY <1>1, <1>2, <1>5, PositionFacts, KeepsUnmasked
<1>11. Answered'
  BY <1>1, <1>2, <1>5, PositionFacts, KeepsAnswered
<1>12. Indexed'
  BY <1>1, <1>2, <1>5, PositionFacts, KeepsIndexed
<1> QED
  BY <1>5, <1>6, <1>7, <1>8, <1>9, <1>10, <1>11, <1>12 DEF Yyh26Inv

(* LeaderBole(u): the leader adds the masked terms of u to every sum it    *)
(* keeps.                                                                  *)
LEMMA LeaderBolePreserves ==
  ASSUME Yyh26Inv, NEW u \in Members, LeaderBole(u)
  PROVE  Yyh26Inv'
<1> DEFINE b == Meeting("bole", u, leaderIdx, 0)
           passed == {<<u, BolePos>>}
<1>1. Drawn /\ Typed /\ SharesGiven /\ LeaderUpdated /\ LeaderMasked /\ MembersUnmasked /\ Answered /\ Indexed
  BY DEF Yyh26Inv
<1>2. Moves(passed) /\ Meet(b) /\ UNCHANGED <<payload, serverShare, memberOle, endPayload, oleIndex>>
  BY <1>1, StepMoves DEF LeaderBole
<1>3. b.from \in Parties /\ b.to \in Parties /\ b.from # b.to
  BY Counts DEF Meeting
<1>4. \A w \in Members : b = Meeting("index", w, leaderIdx, 0) => <<w, IndexPos>> \in passed
  BY DEF Meeting
<1> HIDE DEF b
<1>5. /\ UNCHANGED request /\ slots' = slots /\ tape' = tape
      /\ Drawn' /\ LeaderLast' /\ FoundIfHeldByEnough'
      /\ at' \in [Parties -> Nat] /\ DOMAIN outcome' = Parties
  BY <1>1, <1>2, <1>3, <1>4, MeetKeeps
<1> DEFINE term(w, s, m) ==
             Plus(m, Times(m, tape.r[u][w][s], Block[x]), Plus(m, UpdateValue(m, u, w), Neg(m, tape.d[u][w][s])))
<1>20. leaderOle' = [w \in Members |-> [s \in Slots |-> [m \in Moduli |->
                       Plus(m, leaderOle[w][s][m], term(w, s, m))]]]
  BY DEF LeaderBole
<1>21. \A w \in Members : \A s \in Slots : \A m \in Moduli :
        /\ term(w, s, m) \in Int
        /\ Same(Primes[m], term(w, s, m), Masked(m, w, s)[u])
        /\ Masked(m, w, s) \in [Members -> Int]
        /\ leaderOle[w][s][m] \in Int
  BY <1>1, MaskedFacts DEF Typed
<1> HIDE DEF term
<1>6. Typed'
  <2>1. \A w \in Members : \A s \in Slots : \A m \in Moduli : Plus(m, leaderOle[w][s][m], term(w, s, m)) \in Int
    BY <1>21, OperationFacts
  <2>2. leaderOle' \in [Members -> [Slots -> [Moduli -> Int]]]
    BY <1>20, <2>1
  <2> QED
    BY <1>1, <1>2, <1>5, <2>2 DEF Typed
<1>7. LeaderMasked'
  <2> DEFINE old == {v \in Members : at[v] > BolePos}
  <2>1. {v \in Members : at'[v] > BolePos} = old \union {u} /\ u \in Members \ old
    BY <1>2, PositionFacts DEF Moves
  <2> SUFFICES ASSUME NEW w \in Members, NEW s \in Slots, NEW m \in Moduli
               PROVE  Same(Primes[m], leaderOle'[w][s][m], Sum(Masked(m, w, s), old \union {u}))
    <3>1. \A k, w, s : Masked(k, w, s)' = Masked(k, w, s)
      BY <1>5, SameDraws
    <3> QED
      BY <2>1, <3>1 DEF LeaderMasked
  <2> DEFINE f == Masked(m, w, s)
             a == leaderOle[w][s][m]
             d == term(w, s, m)
             e == Plus(m, a, d)
             p == Primes[m]
  <2>2. /\ p \in Nat \ {0} /\ IsFiniteSet(Members) /\ f \in [Members -> Int] /\ Same(p, d, f[u])
        /\ a \in Int /\ d \in Int /\ old \in SUBSET Members
    <3>1. IsFiniteSet(Members)
      BY Counts, FS_Interval
    <3>2. p \in Nat \ {0}
      BY ModulusFacts
    <3> QED
      BY <1>21, <3>1, <3>2
  <2>3. Same(p, a, Sum(f, old))
    BY <1>1 DEF LeaderMasked
  <2>4. leaderOle'[w][s][m] = e
    BY <1>20
  <2> HIDE DEF f, a, d, p, old
  <2>5. e \in Int /\ Same(p, e, a + d)
    BY <2>2, OperationFacts DEF p
  <2>6. \A T \in SUBSET Members : Sum(f, T) \in Int /\ 0 + Sum(f, T) = Sum(f, T)
    BY <2>2, SumFacts
  <2>7. Same(p, e, 0 + Sum(f, old \union {u}))
    <3> HIDE DEF e
    <3>1. Same(p, a, 0 + Sum(f, old)) /\ 0 \in Int
      BY <2>2, <2>3, <2>6
    <3> QED
      BY <2>1, <2>2, <2>5, <3>1, SumGrows
  <2>8. old \union {u} \in SUBSET Members
    BY <2>1
  <2> QED
    BY <2>4, <2>6, <2>7, <2>8 DEF p, f
<1>8. SharesGiven'
  BY <1>1, <1>2, <1>5, PositionFacts, KeepsShares
<1>9. LeaderUpdated'
  BY <1>1, <1>2, <1>5, PositionFacts, KeepsUpdated
<1>10. MembersUnmasked'
  BY <1>1, <1>2, <1>5, PositionFacts, KeepsUnmasked
<1>11. Answered'
  BY <1>1, <1>2, <1>5, PositionFacts, KeepsAnswered
<1>12. Indexed'
  BY <1>1, <1>2, <1>5, PositionFacts, KeepsIndexed
<1> QED
  BY <1>5, <1>6, <1>7, <1>8, <1>9, <1>10, <1>11, <1>12 DEF Yyh26Inv

(* ClientBole(v, u): u adds the terms of v to the sum of each of its       *)
(* slots.                                                                  *)
LEMMA ClientBolePreserves ==
  ASSUME Yyh26Inv, NEW u \in Members, NEW v \in Members \ {u}, ClientBole(v, u)
  PROVE  Yyh26Inv'
<1> DEFINE b == Meeting("bole", v, u, 0)
           passed == {<<u, ReceivePos(u, v)>>, <<v, SendPos(v, u)>>}
<1>1. Drawn /\ Typed /\ SharesGiven /\ LeaderUpdated /\ LeaderMasked /\ MembersUnmasked /\ Answered /\ Indexed
  BY DEF Yyh26Inv
<1>2. Moves(passed) /\ Meet(b) /\ UNCHANGED <<payload, serverShare, leaderOle, endPayload, oleIndex>>
  BY <1>1, StepMoves DEF ClientBole
<1>3. b.from \in Parties /\ b.to \in Parties /\ b.from # b.to
  BY Counts DEF Meeting
<1>4. \A w \in Members : b = Meeting("index", w, leaderIdx, 0) => <<w, IndexPos>> \in passed
  BY DEF Meeting
<1> HIDE DEF b
<1>5. /\ UNCHANGED request /\ slots' = slots /\ tape' = tape
      /\ Drawn' /\ LeaderLast' /\ FoundIfHeldByEnough'
      /\ at' \in [Parties -> Nat] /\ DOMAIN outcome' = Parties
  BY <1>1, <1>2, <1>3, <1>4, MeetKeeps
<1> DEFINE filled == [s \in Slots |-> [m \in Moduli |->
                         IF Filled(u, s) THEN Plus(m, memberOle[u][s][m], Term(m, v, u, s))
                         ELSE memberOle[u][s][m]]]
<1>20. memberOle' = [memberOle EXCEPT ![u] = filled]
  BY DEF ClientBole
<1>21. \A s \in 1..Len(slots[u]) : \A m \in Moduli :
        /\ Term(m, v, u, s) \in Int /\ Same(Primes[m], Term(m, v, u, s), Unmasked(m, u, s)[v])
        /\ Unmasked(m, u, s) \in [Members -> Int]
  BY <1>1, UnmaskedFacts
<1>22. \A s \in Slots : Filled(u, s) <=> s \in 1..Len(slots[u])
  <2>1. MaxBinSize \in Nat /\ Len(slots[u]) \in Nat
    BY <1>1, Yyh26Assumption DEF Typed
  <2> QED
    BY <2>1 DEF Filled, Slots
<1>23. \A w \in Members : \A s \in Slots : \A m \in Moduli : memberOle[w][s][m] \in Int
  BY <1>1 DEF Typed
<1>6. Typed'
  <2>1. filled \in [Slots -> [Moduli -> Int]]
    <3>1. \A s \in Slots : \A m \in Moduli :
            (IF Filled(u, s) THEN Plus(m, memberOle[u][s][m], Term(m, v, u, s)) ELSE memberOle[u][s][m]) \in Int
      BY <1>21, <1>22, <1>23, OperationFacts
    <3> QED
      BY <3>1
  <2> HIDE DEF filled
  <2>2. memberOle' \in [Members -> [Slots -> [Moduli -> Int]]]
    BY <1>1, <1>20, <2>1 DEF Typed
  <2> QED
    BY <1>1, <1>2, <1>5, <2>2 DEF Typed
<1>7. MembersUnmasked'
  <2> DEFINE from(w) == {y \in Members \ {w} : at[w] > ReceivePos(w, y)}
  <2> SUFFICES ASSUME NEW w \in Members, NEW s \in 1..Len(slots[w]), NEW m \in Moduli
               PROVE  Same(Primes[m], memberOle'[w][s][m],
                           Sum(Unmasked(m, w, s), {y \in Members \ {w} : at'[w] > ReceivePos(w, y)}))
    <3>1. \A k, w, s : Unmasked(k, w, s)' = Unmasked(k, w, s)
      BY <1>5, SameDraws
    <3> QED
      BY <1>5, <3>1 DEF MembersUnmasked
  <2>1. s \in Slots /\ memberOle \in [Members -> [Slots -> [Moduli -> Int]]]
    BY <1>1, SlotFacts DEF Typed
  <2>2. Same(Primes[m], memberOle[w][s][m], Sum(Unmasked(m, w, s), from(w)))
    BY <1>1 DEF MembersUnmasked
  <2>3. CASE w = u
    <3>1. {y \in Members \ {w} : at'[w] > ReceivePos(w, y)} = from(u) \union {v} /\ v \in Members \ from(u)
      <4>1. \A y \in Members \ {u} : at'[u] > ReceivePos(u, y) <=> at[u] > ReceivePos(u, y) \/ y = v
        <5>1. \A y \in Members \ {u} : <<u, ReceivePos(u, y)>> \in passed <=> y = v
          BY PositionFacts
        <5> HIDE DEF passed
        <5> QED
          BY <1>2, <5>1, PositionFacts DEF Moves
      <4>2. at[u] = ReceivePos(u, v)
        BY <1>2 DEF Moves
      <4>3. ~ (ReceivePos(u, v) > ReceivePos(u, v))
        BY PositionFacts
      <4> QED
        BY <2>3, <4>1, <4>2, <4>3
    <3> DEFINE f == Unmasked(m, u, s)
               a == memberOle[u][s][m]
               d == Term(m, v, u, s)
               e == Plus(m, a, d)
               p == Primes[m]
               old == from(u)
    <3>2. /\ p \in Nat \ {0} /\ f \in [Members -> Int] /\ Same(p, d, f[v])
          /\ a \in Int /\ d \in Int /\ old \in SUBSET Members
      <4>1. p \in Nat \ {0}
        BY ModulusFacts
      <4> QED
        BY <1>21, <1>23, <2>1, <2>3, <4>1
    <3>3. IsFiniteSet(Members)
      BY Counts, FS_Interval
    <3>4. Same(p, a, Sum(f, old))
      BY <2>2, <2>3
    <3>5. memberOle'[w][s][m] = e
      <4>1. Filled(u, s)
        BY <1>22, <2>1, <2>3
      <4>2. filled[s][m] = e
        BY <2>1, <4>1
      <4> HIDE DEF filled, e
      <4> QED
        BY <1>20, <2>1, <2>3, <4>2
    <3> HIDE DEF f, a, d, p, old, from
    <3>6. e \in Int /\ Same(p, e, a + d)
      BY <3>2, OperationFacts DEF p
    <3>7. \A T \in SUBSET Members : Sum(f, T) \in Int /\ 0 + Sum(f, T) = Sum(f, T)
      BY <3>2, <3>3, SumFacts
    <3>8. Same(p, e, 0 + Sum(f, old \union {v}))
      <4> HIDE DEF e
      <4>1. Same(p, a, 0 + Sum(f, old)) /\ 0 \in Int
        BY <3>2, <3>4, <3>7
      <4>2. v \in Members \ old
        BY <3>1 DEF old
      <4> QED
        BY <3>2, <3>3, <3>6, <4>1, <4>2, SumGrows
    <3>9. old \union {v} \in SUBSET Members
      BY <3>2
    <3>10. Same(p, e, Sum(f, old \union {v}))
      BY <3>7, <3>8, <3>9
    <3> QED
      BY <2>3, <3>1, <3>5, <3>10 DEF p, f, old
  <2>4. CASE w # u
    <3>1. \A y \in Members \ {w} : <<w, ReceivePos(w, y)>> \notin passed
      <4>1. \A y \in Members \ {v} : ReceivePos(v, y) # SendPos(v, u)
        BY PositionFacts
      <4> QED
        BY <2>4, <4>1
    <3>2. {y \in Members \ {w} : at'[w] > ReceivePos(w, y)} = from(w)
      <4> HIDE DEF passed
      <4> QED
        BY <1>2, <3>1, PositionFacts DEF Moves
    <3>3. memberOle'[w] = memberOle[w]
      BY <1>20, <2>1, <2>4
    <3> QED
      BY <2>2, <3>2, <3>3
  <2> QED
    BY <2>3, <2>4
<1>8. SharesGiven'
  BY <1>1, <1>2, <1>5, PositionFacts, KeepsShares
<1>9. LeaderUpdated'
  BY <1>1, <1>2, <1>5, PositionFacts, KeepsUpdated
<1>10. LeaderMasked'
  BY <1>1, <1>2, <1>5, PositionFacts, KeepsMasked
<1>11. Answered'
  BY <1>1, <1>2, <1>5, PositionFacts, KeepsAnswered
<1>12. Indexed'
  BY <1>1, <1>2, <1>5, PositionFacts, KeepsIndexed
<1> QED
  BY <1>5, <1>6, <1>7, <1>8, <1>9, <1>10, <1>11, <1>12 DEF Yyh26Inv

(* GiveAnswer(u, m): u's sum is complete but for its own term, which it    *)
(* adds together with its share.                                           *)
LEMMA AnswerPreserves ==
  ASSUME Yyh26Inv, NEW u \in Members, NEW m \in Moduli, GiveAnswer(u, m)
  PROVE  Yyh26Inv'
<1> DEFINE b == Meeting("answer", u, leaderIdx, m)
           passed == {<<u, AnswerPos(m)>>}
<1>1. Drawn /\ Typed /\ SharesGiven /\ LeaderUpdated /\ LeaderMasked /\ MembersUnmasked /\ Answered /\ Indexed
  BY DEF Yyh26Inv
<1>2. Moves(passed) /\ Meet(b) /\ UNCHANGED <<payload, serverShare, leaderOle, memberOle, oleIndex>>
  BY <1>1, StepMoves DEF GiveAnswer
<1>3. b.from \in Parties /\ b.to \in Parties /\ b.from # b.to
  BY Counts DEF Meeting
<1>4. \A w \in Members : b = Meeting("index", w, leaderIdx, 0) => <<w, IndexPos>> \in passed
  BY DEF Meeting
<1> HIDE DEF b
<1>5. /\ UNCHANGED request /\ slots' = slots /\ tape' = tape
      /\ Drawn' /\ LeaderLast' /\ FoundIfHeldByEnough'
      /\ at' \in [Parties -> Nat] /\ DOMAIN outcome' = Parties
  BY <1>1, <1>2, <1>3, <1>4, MeetKeeps
<1> DEFINE answer == IF SlotOfX(u) = {} THEN Junk ELSE Updated(u, m, Min(SlotOfX(u)))
<1>20. endPayload' = [endPayload EXCEPT ![u][m] = answer]
  BY DEF GiveAnswer
<1>21. SlotOfX(u) # {} =>
        /\ answer \in Int
        /\ Same(Primes[m], answer, Share(m, u) + Sum(Unmasked(m, u, Min(SlotOfX(u))), Members))
  <2> SUFFICES ASSUME SlotOfX(u) # {}
               PROVE  /\ answer \in Int
                      /\ Same(Primes[m], answer, Share(m, u) + Sum(Unmasked(m, u, Min(SlotOfX(u))), Members))
    OBVIOUS
  <2> DEFINE s == Min(SlotOfX(u))
             f == Unmasked(m, u, s)
             a == memberOle[u][s][m]
             d == Term(m, u, u, s)
             b1 == Plus(m, a, d)
             c == payload[u][m][s]
             p == Primes[m]
             T == Members \ {u}
  <2>1. s \in SlotOfX(u) /\ s \in 1..Len(slots[u]) /\ SameAsX(slots[u][s]) /\ s \in Slots
    <3>1. s \in SlotOfX(u) /\ 1..Len(slots[u]) \subseteq Slots
      BY <1>1, SlotFacts
    <3> HIDE DEF s
    <3> QED
      BY <3>1 DEF SlotOfX
  <2>2. answer = Plus(m, c, b1)
    BY DEF Updated
  <2> HIDE DEF s, answer
  <2>3. at[u] = AnswerPos(m)
    BY <1>2 DEF Moves
  <2>4. c = Share(m, u)
    <3>1. at[u] > 1 + m
      BY <2>3, PositionFacts
    <3>2. payload[u][m] = [i \in 1..Len(slots[u]) |-> IF SameAsX(slots[u][i]) THEN Share(m, u) ELSE Junk]
      BY <1>1, <3>1 DEF SharesGiven
    <3> QED
      BY <2>1, <3>2
  <2>5. Same(p, a, Sum(f, T))
    <3>1. \A v \in Members \ {u} : at[u] > ReceivePos(u, v)
      BY <2>3, PositionFacts
    <3>2. {v \in Members \ {u} : at[u] > ReceivePos(u, v)} = T
      BY <3>1
    <3> QED
      BY <1>1, <2>1, <3>2 DEF MembersUnmasked
  <2>6. f \in [Members -> Int] /\ d \in Int /\ Same(p, d, f[u])
    BY <1>1, <2>1, UnmaskedFacts
  <2>7. p \in Nat \ {0}
    BY ModulusFacts
  <2>8. IsFiniteSet(Members) /\ u \in Parties
    BY Counts, FS_Interval
  <2>9. a \in Int /\ c \in Int
    BY <1>1, <2>1, <2>4, <2>8, ValuesAreNumbers DEF Typed
  <2> HIDE DEF f, a, d, c
  <2>10. b1 \in Int /\ Same(p, b1, a + d)
    BY <2>6, <2>9, OperationFacts
  <2> HIDE DEF b1
  <2>11. \A R \in SUBSET Members : Sum(f, R) \in Int /\ 0 + Sum(f, R) = Sum(f, R)
    BY <2>6, <2>8, SumFacts
  <2>12. T \in SUBSET Members /\ u \in Members \ T /\ T \union {u} = Members /\ 0 \in Int
    OBVIOUS
  <2> HIDE DEF T, p
  <2>13. Same(p, a, 0 + Sum(f, T))
    BY <2>5, <2>11, <2>12
  <2>14. Same(p, b1, 0 + Sum(f, T \union {u}))
    BY <2>6, <2>7, <2>8, <2>9, <2>10, <2>12, <2>13, SumGrows
  <2>15. Same(p, b1, Sum(f, Members)) /\ Sum(f, Members) \in Int
    <3>1. Members \in SUBSET Members
      OBVIOUS
    <3> QED
      BY <2>11, <2>12, <2>14, <3>1
  <2>16. Same(p, c + b1, c + Sum(f, Members)) /\ Same(p, c, c)
    <3>1. Same(p, c, c)
      BY DEF Same
    <3> QED
      BY <2>7, <2>9, <2>10, <2>15, <3>1, SameOps
  <2>17. Plus(m, c, b1) \in Int /\ Same(p, Plus(m, c, b1), c + b1)
    BY <2>9, <2>10, OperationFacts DEF p
  <2>18. Same(p, Plus(m, c, b1), c + Sum(f, Members))
    BY <2>16, <2>17, SameChain
  <2> QED
    BY <2>2, <2>4, <2>17, <2>18 DEF p, f, s
<1> HIDE DEF answer
<1>6. Typed'
  <2>1. DOMAIN endPayload' = Members /\ \A w \in Members : DOMAIN endPayload'[w] = Moduli
    BY <1>1, <1>20 DEF Typed
  <2> QED
    BY <1>1, <1>2, <1>5, <2>1 DEF Typed
<1>7. Answered'
  <2> DEFINE told(w, i) == Share(i, w) + Sum(Unmasked(i, w, Min(SlotOfX(w))), Members)
  <2> SUFFICES ASSUME NEW w \in Members, NEW i \in Moduli, at'[w] > AnswerPos(i), SlotOfX(w) # {}
               PROVE  endPayload'[w][i] \in Int /\ Same(Primes[i], endPayload'[w][i], told(w, i))
    <3>1. \A k, w, s : /\ Unmasked(k, w, s)' = Unmasked(k, w, s) /\ Share(k, w)' = Share(k, w)
                       /\ SlotOfX(w)' = SlotOfX(w)
      BY <1>5, SameDraws
    <3> QED
      BY <3>1 DEF Answered
  <2>1. CASE w = u /\ i = m
    <3>1. endPayload'[w][i] = answer
      BY <1>1, <1>20, <2>1 DEF Typed
    <3> QED
      BY <1>21, <2>1, <3>1
  <2>2. CASE ~ (w = u /\ i = m)
    <3>1. endPayload'[w][i] = endPayload[w][i]
      BY <1>1, <1>20, <2>2 DEF Typed
    <3>2. <<w, AnswerPos(i)>> \notin passed
      BY <2>2, PositionFacts
    <3>3. at[w] > AnswerPos(i)
      BY <1>2, <3>2, PositionFacts DEF Moves
    <3> QED
      BY <1>1, <3>1, <3>3 DEF Answered
  <2> QED
    BY <2>1, <2>2
<1>8. SharesGiven'
  BY <1>1, <1>2, <1>5, PositionFacts, KeepsShares
<1>9. LeaderUpdated'
  BY <1>1, <1>2, <1>5, PositionFacts, KeepsUpdated
<1>10. LeaderMasked'
  BY <1>1, <1>2, <1>5, PositionFacts, KeepsMasked
<1>11. MembersUnmasked'
  BY <1>1, <1>2, <1>5, PositionFacts, KeepsUnmasked
<1>12. Indexed'
  BY <1>1, <1>2, <1>5, PositionFacts, KeepsIndexed
<1> QED
  BY <1>5, <1>6, <1>7, <1>8, <1>9, <1>10, <1>11, <1>12 DEF Yyh26Inv

(* GiveIndex(u): u names the slot it answered for.                         *)
LEMMA IndexPreserves ==
  ASSUME Yyh26Inv, NEW u \in Members, GiveIndex(u)
  PROVE  Yyh26Inv'
<1> DEFINE b == Meeting("index", u, leaderIdx, 0)
           passed == {<<u, IndexPos>>}
<1>1. Drawn /\ Typed /\ SharesGiven /\ LeaderUpdated /\ LeaderMasked /\ MembersUnmasked /\ Answered /\ Indexed
  BY DEF Yyh26Inv
<1>2. Moves(passed) /\ Meet(b) /\ UNCHANGED <<payload, serverShare, leaderOle, memberOle, endPayload>>
  BY <1>1, StepMoves DEF GiveIndex
<1>3. b.from \in Parties /\ b.to \in Parties /\ b.from # b.to
  BY Counts DEF Meeting
<1>4. \A w \in Members : b = Meeting("index", w, leaderIdx, 0) => <<w, IndexPos>> \in passed
  BY DEF Meeting
<1> HIDE DEF b
<1>5. /\ UNCHANGED request /\ slots' = slots /\ tape' = tape
      /\ Drawn' /\ LeaderLast' /\ FoundIfHeldByEnough'
      /\ at' \in [Parties -> Nat] /\ DOMAIN outcome' = Parties
  BY <1>1, <1>2, <1>3, <1>4, MeetKeeps
<1> DEFINE slot == IF SlotOfX(u) = {} THEN Junk ELSE Min(SlotOfX(u))
<1>20. oleIndex' = [oleIndex EXCEPT ![u] = slot]
  BY DEF GiveIndex
<1>6. Typed'
  <2>1. DOMAIN oleIndex' = Members
    BY <1>1, <1>20 DEF Typed
  <2> QED
    BY <1>1, <1>2, <1>5, <2>1 DEF Typed
<1>7. Indexed'
  <2> SUFFICES ASSUME NEW w \in Members, at'[w] > IndexPos
               PROVE  oleIndex'[w] = IF SlotOfX(w) = {} THEN Junk ELSE Min(SlotOfX(w))
    <3>1. \A w : SlotOfX(w)' = SlotOfX(w)
      BY <1>5, SameDraws
    <3> QED
      BY <3>1 DEF Indexed
  <2>1. CASE w = u
    <3>1. oleIndex'[w] = slot
      <4> HIDE DEF slot
      <4> QED
        BY <1>1, <1>20, <2>1 DEF Typed
    <3> QED
      BY <2>1, <3>1
  <2>2. CASE w # u
    <3>1. oleIndex'[w] = oleIndex[w]
      <4> HIDE DEF slot
      <4> QED
        BY <1>1, <1>20, <2>2 DEF Typed
    <3>2. at[w] > IndexPos
      BY <1>2, <2>2, PositionFacts DEF Moves
    <3> QED
      BY <1>1, <3>1, <3>2 DEF Indexed
  <2> QED
    BY <2>1, <2>2
<1>8. SharesGiven'
  BY <1>1, <1>2, <1>5, PositionFacts, KeepsShares
<1>9. LeaderUpdated'
  BY <1>1, <1>2, <1>5, PositionFacts, KeepsUpdated
<1>10. LeaderMasked'
  BY <1>1, <1>2, <1>5, PositionFacts, KeepsMasked
<1>11. MembersUnmasked'
  BY <1>1, <1>2, <1>5, PositionFacts, KeepsUnmasked
<1>12. Answered'
  BY <1>1, <1>2, <1>5, PositionFacts, KeepsAnswered
<1> QED
  BY <1>5, <1>6, <1>7, <1>8, <1>9, <1>10, <1>11, <1>12 DEF Yyh26Inv

(* Submit(p): a party is called for the first time.                        *)
LEMMA SubmitPreserves ==
  ASSUME Yyh26Inv, NEW p \in Parties, Submit(p)
  PROVE  Yyh26Inv'
<1> DEFINE passed == {}
<1>1. /\ Drawn /\ Typed /\ SharesGiven /\ LeaderUpdated /\ LeaderMasked
      /\ MembersUnmasked /\ Answered /\ Indexed /\ LeaderLast /\ FoundIfHeldByEnough
  BY DEF Yyh26Inv
<1>2. Moves(passed) /\ UNCHANGED <<request, outcome, values, found>>
  BY <1>1, StepMoves DEF Submit
<1>3. UNCHANGED <<payload, serverShare, leaderOle, memberOle, endPayload, oleIndex>>
  BY <1>2 DEF values
<1>4. at'[leaderIdx] = at[leaderIdx] \/ (at[leaderIdx] = 0 /\ at'[leaderIdx] = 1)
  BY <1>1, Counts DEF Submit, Typed
<1>5. Drawn' /\ FoundIfHeldByEnough'
  BY <1>1, <1>2, SameDraws, KeepsVerdict
<1>6. Typed'
  BY <1>1, <1>2, <1>3 DEF Typed, Moves, request
<1>7. LeaderLast'
  BY <1>1, <1>2, <1>4, KeepsLast
<1>8. SharesGiven' /\ LeaderUpdated'
  BY <1>1, <1>2, <1>3, KeepsShares, KeepsUpdated
<1>9. LeaderMasked' /\ MembersUnmasked'
  BY <1>1, <1>2, <1>3, KeepsMasked, KeepsUnmasked
<1>10. Answered' /\ Indexed'
  BY <1>1, <1>2, <1>3, KeepsAnswered, KeepsIndexed
<1> QED
  BY <1>5, <1>6, <1>7, <1>8, <1>9, <1>10 DEF Yyh26Inv

-----------------------------------------------------------------------------
(* A finite set has subsets of every smaller size.                         *)
LEMMA SubsetOfSize ==
  ASSUME NEW S, IsFiniteSet(S), NEW k \in Nat, k <= Cardinality(S)
  PROVE  \E T \in SUBSET S : Cardinality(T) = k
<1> DEFINE Large == {T \in SUBSET S : Cardinality(T) >= k}
<1>1. Large \in SUBSET SUBSET S /\ S \in Large
  OBVIOUS
<1>2. PICK T \in Large : \A i \in T : T \ {i} \notin Large
  <2> HIDE DEF Large
  <2> QED
    BY <1>1, SmallestBad
<1>3. T \in SUBSET S /\ Cardinality(T) >= k /\ IsFiniteSet(T) /\ Cardinality(T) \in Nat
  BY FS_Subset, FS_CardinalityType
<1>4. CASE T = {}
  BY <1>3, <1>4, FS_EmptySet
<1>5. CASE T # {}
  <2>1. PICK i \in T : TRUE
    BY <1>5
  <2>2. Cardinality(T \ {i}) = Cardinality(T) - 1
    BY <1>3, <2>1, FS_RemoveElement
  <2>3. ~ (Cardinality(T \ {i}) >= k)
    <3>1. T \ {i} \in SUBSET S
      BY <1>3
    <3> QED
      BY <1>2, <3>1
  <2>4. Cardinality(T) = k
    BY <1>3, <2>2, <2>3
  <2> QED
    BY <1>3, <2>4
<1> QED
  BY <1>4, <1>5

(* What the leader and v leave in an answer is v's update.                 *)
LEMMA MasksCancel ==
  ASSUME Drawn, Typed, NEW m \in Moduli, NEW u \in Members, NEW s \in SlotOfX(u)
  PROVE  Same(Primes[m], Sum(UpdatesFor(m, u), Members),
              Sum(Unmasked(m, u, s), Members) + Sum(Masked(m, u, s), Members))
<1> DEFINE p == Primes[m]
           k == UpdatesFor(m, u)
           f == Unmasked(m, u, s)
           e == Masked(m, u, s)
<1>1. s \in 1..Len(slots[u]) /\ s \in Slots /\ Block[slots[u][s]] = Block[x] /\ Block[x] \in Int
  <2>1. s \in 1..Len(slots[u]) /\ Block[slots[u][s]] = Block[x]
    BY DEF SlotOfX, SameAsX
  <2> QED
    BY <2>1, SlotFacts
<1>2. p \in Nat \ {0}
  BY ModulusFacts
<1>3. IsFiniteSet(Members) /\ u \in Parties
  BY Counts, FS_Interval
<1>4. k \in [Members -> Int] /\ \A v \in Members : k[v] = UpdateValue(m, v, u) /\ UpdateValue(m, v, u) \in Int
  BY <1>3, ValuesAreNumbers DEF UpdatesFor
<1>5. f \in [Members -> Int] /\ e \in [Members -> Int]
  BY <1>1, MaskedFacts, UnmaskedFacts
<1>6. \A v \in Members : Same(p, k[v], 1 * f[v] + 1 * e[v])
  <2> SUFFICES ASSUME NEW v \in Members PROVE Same(p, k[v], 1 * f[v] + 1 * e[v])
    OBVIOUS
  <2> DEFINE d == tape.d[v][u][s]
             q == tape.r[v][u][s] * Block[x]
             b == UpdateValue(m, v, u)
  <2>1. f[v] = d - q /\ e[v] = (b - d) + q
    BY <1>1 DEF Unmasked, Masked
  <2>2. d \in Int /\ q \in Int /\ b \in Int
    <3>1. tape.d[v][u][s] \in Nat /\ tape.r[v][u][s] \in Nat
      BY <1>1 DEF Drawn
    <3>2. \A y, z \in Int : y * z \in Int
      OBVIOUS
    <3>3. tape.r[v][u][s] \in Int
      BY <3>1
    <3> QED
      BY <1>1, <1>4, <3>1, <3>2, <3>3
  <2> HIDE DEF d, q
  <2>3. 1 * (d - q) + 1 * ((b - d) + q) = b
    <3> HIDE DEF b
    <3> QED
      BY <2>2
  <2>4. k[v] = 1 * f[v] + 1 * e[v]
    BY <1>4, <2>1, <2>3
  <2> QED
    BY <2>4 DEF Same
<1> HIDE DEF p, k, f, e
<1>7. Same(p, Sum(k, Members), 1 * Sum(f, Members) + 1 * Sum(e, Members))
  <2>1. 1 \in Int /\ Members \in SUBSET Members
    OBVIOUS
  <2> QED
    BY <1>2, <1>3, <1>4, <1>5, <1>6, <2>1, SumIsLinear
<1>8. 1 * Sum(f, Members) + 1 * Sum(e, Members) = Sum(f, Members) + Sum(e, Members)
  <2>1. Members \in SUBSET Members
    OBVIOUS
  <2>2. Sum(f, Members) \in Int /\ Sum(e, Members) \in Int
    BY <1>3, <1>5, <2>1, SumFacts
  <2> QED
    BY <2>2
<1> QED
  BY <1>7, <1>8 DEF p, k, f, e

(* When the leader has finished, the end shares of the holders and of the  *)
(* leader are refreshed shares, and the others' are not numbers.           *)
LEMMA EndShareFacts ==
  ASSUME Yyh26Inv, Finished(leaderIdx), NEW m \in Moduli
  PROVE  /\ EndShare(m, leaderIdx) \in Int
         /\ Same(Primes[m], EndShare(m, leaderIdx), Refreshed(m, leaderIdx))
         /\ \A u \in Members :
              /\ u \notin Holders => EndShare(m, u) = Junk
              /\ u \in Holders => /\ EndShare(m, u) \in Int
                                  /\ Same(Primes[m], EndShare(m, u), Refreshed(m, u))
<1> DEFINE L == leaderIdx
           p == Primes[m]
<1>1. Drawn /\ Typed /\ LeaderUpdated /\ LeaderMasked /\ Answered /\ Indexed /\ LeaderLast
  BY DEF Yyh26Inv
<1>2. \A u \in Members : at[u] > IndexPos
  <2>1. at[L] \in Nat /\ at[L] > LeaderEnd /\ LeaderEnd \in Nat /\ N \in Nat /\ Members = 0..(N - 2)
    BY <1>1, Counts, LeaderProgramFacts DEF Finished, LeaderEnd, Typed
  <2>2. \A u \in Members : at[L] > LeaderEnd - (N - 1) + (u + 1)
    BY <2>1
  <2> QED
    BY <1>1, <2>2 DEF LeaderLast
<1>3. \A u \in Members : at[u] > UpdatePos /\ at[u] > BolePos /\ at[u] > AnswerPos(m)
  <2>1. \A u \in Members : at[u] \in Nat
    BY <1>1, Counts DEF Typed
  <2> QED
    BY <1>2, <2>1, PositionFacts
<1>4. p \in Nat \ {0}
  BY ModulusFacts
<1>5. IsFiniteSet(Members) /\ Members \subseteq Parties /\ L \notin Members
  BY Counts, FS_Interval
<1>6. EndShare(m, L) \in Int /\ Same(p, EndShare(m, L), Refreshed(m, L))
  <2>1. {v \in Members : at[v] > UpdatePos} = Members
    BY <1>3
  <2>2. Same(p, serverShare[m], Refreshed(m, L))
    BY <1>1, <2>1 DEF LeaderUpdated, Refreshed
  <2>3. EndShare(m, L) = serverShare[m] /\ serverShare[m] \in Int
    BY <1>1 DEF EndShare, Typed
  <2> QED
    BY <2>2, <2>3
<1>7. ASSUME NEW u \in Members, u \notin Holders PROVE EndShare(m, u) = Junk
  <2>1. SlotOfX(u) = {}
    BY <1>1, <1>7, SlotFacts
  <2>2. oleIndex[u] = Junk
    BY <1>1, <1>2, <2>1 DEF Indexed
  <2> QED
    BY <1>5, <2>2 DEF EndShare
<1>8. ASSUME NEW u \in Members, u \in Holders
      PROVE  EndShare(m, u) \in Int /\ Same(p, EndShare(m, u), Refreshed(m, u))
  <2> DEFINE s == Min(SlotOfX(u))
             f == Sum(Unmasked(m, u, s), Members)
             g == Sum(Masked(m, u, s), Members)
             h == Sum(UpdatesFor(m, u), Members)
             a == endPayload[u][m]
             b == leaderOle[u][s][m]
             c == Share(m, u)
  <2>1. SlotOfX(u) # {} /\ s \in SlotOfX(u) /\ 1..Len(slots[u]) \subseteq Slots
    BY <1>1, <1>8, SlotFacts
  <2>2. s \in 1..Len(slots[u]) /\ s \in Slots
    <3> HIDE DEF s
    <3> QED
      BY <2>1 DEF SlotOfX
  <2>3. oleIndex[u] = s
    BY <1>1, <1>2, <2>1 DEF Indexed
  <2>4. a \in Int /\ Same(p, a, c + f)
    BY <1>1, <1>3, <2>1 DEF Answered
  <2>5. b \in Int /\ Same(p, b, g)
    <3>1. {v \in Members : at[v] > BolePos} = Members
      BY <1>3
    <3> HIDE DEF s
    <3>2. Same(p, leaderOle[u][s][m], Sum(Masked(m, u, s), {v \in Members : at[v] > BolePos}))
      BY <1>1, <2>2 DEF LeaderMasked
    <3>3. leaderOle[u][s][m] \in Int
      BY <1>1, <2>2 DEF Typed
    <3> QED
      BY <3>1, <3>2, <3>3
  <2>6. Same(p, h, f + g)
    <3> HIDE DEF s
    <3> QED
      BY <1>1, <2>1, MasksCancel
  <2>7. f \in Int /\ g \in Int /\ h \in Int /\ c \in Int
    <3> HIDE DEF s
    <3>1. Members \in SUBSET Members /\ u \in Parties
      BY <1>5
    <3>2. Unmasked(m, u, s) \in [Members -> Int] /\ Masked(m, u, s) \in [Members -> Int]
      BY <1>1, <2>2, MaskedFacts, UnmaskedFacts
    <3>3. UpdatesFor(m, u) \in [Members -> Int] /\ c \in Int
      BY <1>1, <3>1, ValuesAreNumbers DEF UpdatesFor
    <3> QED
      BY <1>5, <3>1, <3>2, <3>3, SumFacts
  <2>8. EndShare(m, u) = Plus(m, a, b)
    <3>1. oleIndex[u] # Junk
      <4>1. s \in Int
        BY <2>2
      <4> HIDE DEF s
      <4> QED
        BY <2>3, <4>1, Yyh26Assumption
    <3> HIDE DEF s
    <3> QED
      BY <1>5, <2>3, <3>1 DEF EndShare
  <2>9. Refreshed(m, u) = c + h
    BY DEF Refreshed
  <2> HIDE DEF f, g, h, a, b, c, p
  <2>10. Plus(m, a, b) \in Int /\ Same(p, Plus(m, a, b), a + b)
    BY <2>4, <2>5, OperationFacts DEF p
  <2>11. Same(p, a + b, (c + f) + g) /\ c + f \in Int
    BY <1>4, <2>4, <2>5, <2>7, SameOps
  <2>12. (c + f) + g = c + (f + g) /\ f + g \in Int
    BY <2>7
  <2>13. Same(p, f + g, h) /\ Same(p, c, c)
    <3>1. Same(p, c, c)
      BY DEF Same
    <3>2. Same(p, f + g, h)
      BY <1>4, <2>6, <2>7, <2>12, <3>1, SameOps
    <3> QED
      BY <3>1, <3>2
  <2>14. Same(p, c + (f + g), c + h)
    BY <1>4, <2>7, <2>12, <2>13, SameOps
  <2>15. Same(p, Plus(m, a, b), c + h)
    BY <2>10, <2>11, <2>12, <2>14, SameChain
  <2> QED
    BY <2>8, <2>9, <2>10, <2>15
<1> QED
  BY <1>6, <1>7, <1>8

(* Threshold parties that have x verify, whoever they are; a set with one  *)
(* that does not have it does not.                                         *)
LEMMA VerdictIsRight ==
  ASSUME Yyh26Inv, Finished(leaderIdx)
  PROVE  (\E S \in Combinations : Verifies(S)) <=> 1 + Cardinality(Holders) >= threshold
<1> DEFINE L == leaderIdx
<1>1. Drawn /\ threshold \in Nat \ {0}
  <2>1. Drawn
    BY DEF Yyh26Inv
  <2>2. threshold \in 1..N /\ N \in Nat
    BY <2>1, Counts DEF Drawn
  <2> QED
    BY <2>1, <2>2
<1>2. IsFiniteSet(Members) /\ Members \subseteq Parties /\ L \notin Members /\ L \in Parties
  BY Counts, FS_Interval
<1>3. Holders \in SUBSET Members /\ IsFiniteSet(Holders) /\ Cardinality(Holders) \in Nat
  BY <1>2, FS_Subset, FS_CardinalityType DEF Holders
<1>4. Combinations = {R \union {L} : R \in {T \in SUBSET Members : Cardinality(T) = threshold - 1}}
  BY DEF Combinations, kSubset
<1>5. ASSUME 1 + Cardinality(Holders) >= threshold
      PROVE  \E S \in Combinations : Verifies(S)
  <2>1. threshold - 1 \in Nat /\ threshold - 1 <= Cardinality(Holders)
    BY <1>1, <1>3, <1>5
  <2>2. PICK R \in SUBSET Holders : Cardinality(R) = threshold - 1
    BY <1>3, <2>1, SubsetOfSize
  <2> DEFINE S == R \union {L}
  <2>3. S \in Combinations
    <3>1. R \in SUBSET Members
      BY <1>3
    <3> QED
      BY <1>4, <2>2, <3>1
  <2>4. S \in SUBSET Parties /\ Cardinality(S) >= threshold
    <3>1. IsFiniteSet(R) /\ L \notin R /\ S \in SUBSET Parties
      BY <1>2, <1>3, FS_Subset
    <3>2. Cardinality(S) = (threshold - 1) + 1
      BY <2>2, <3>1, FS_AddElement
    <3> QED
      BY <1>1, <3>1, <3>2
  <2>5. ASSUME NEW m \in Moduli
        PROVE  /\ \A p \in S : EndShare(m, p) # Junk
               /\ Interpolate(m, S, [p \in S |-> EndShare(m, p)]) = Block[x] % Primes[m]
    <3> DEFINE f == [p \in S |-> EndShare(m, p)]
    <3>1. \A p \in S : EndShare(m, p) \in Int /\ Same(Primes[m], EndShare(m, p), Refreshed(m, p))
      <4>1. EndShare(m, L) \in Int /\ Same(Primes[m], EndShare(m, L), Refreshed(m, L))
        BY EndShareFacts
      <4>2. \A p \in R : p \in Members /\ p \in Holders
        BY <1>3
      <4>3. \A p \in R : EndShare(m, p) \in Int /\ Same(Primes[m], EndShare(m, p), Refreshed(m, p))
        BY <4>2, EndShareFacts
      <4> QED
        BY <4>1, <4>3
    <3>2. \A p \in S : EndShare(m, p) # Junk
      BY <3>1, Yyh26Assumption
    <3>3. f \in [S -> Int] /\ \A p \in S : Same(Primes[m], f[p], Refreshed(m, p))
      BY <3>1
    <3> HIDE DEF f, S
    <3>4. Interpolate(m, S, f) = Block[x] % Primes[m]
      BY <1>1, <2>4, <3>3, RefreshedAtZero
    <3> QED
      BY <3>2, <3>4 DEF f
  <2> QED
    BY <2>3, <2>5 DEF Verifies
<1>6. ASSUME NEW S \in Combinations, Verifies(S)
      PROVE  1 + Cardinality(Holders) >= threshold
  <2>1. PICK R \in SUBSET Members : Cardinality(R) = threshold - 1 /\ S = R \union {L}
    BY <1>4
  <2>2. 1 \in Moduli
    BY Counts
  <2>3. R \in SUBSET Holders
    <3>1. \A p \in R : EndShare(1, p) # Junk
      BY <1>6, <2>1, <2>2 DEF Verifies
    <3>2. \A u \in Members : u \notin Holders => EndShare(1, u) = Junk
      BY <2>2, EndShareFacts
    <3> QED
      BY <2>1, <3>1, <3>2
  <2>4. Cardinality(R) <= Cardinality(Holders)
    BY <1>3, <2>3, FS_Subset
  <2> QED
    BY <1>1, <1>3, <2>1, <2>4
<1> QED
  BY <1>5, <1>6

(* Finish(p): the leader looks for threshold shares that give zero.        *)
LEMMA FinishPreserves ==
  ASSUME Yyh26Inv, NEW p \in Parties, Finish(p)
  PROVE  Yyh26Inv'
<1> DEFINE passed == {}
<1>1. /\ Drawn /\ Typed /\ SharesGiven /\ LeaderUpdated /\ LeaderMasked
      /\ MembersUnmasked /\ Answered /\ Indexed /\ LeaderLast /\ FoundIfHeldByEnough
  BY DEF Yyh26Inv
<1>2. Moves(passed) /\ UNCHANGED <<request, at, values>>
  BY <1>1, StepMoves DEF Finish
<1>3. UNCHANGED <<payload, serverShare, leaderOle, memberOle, endPayload, oleIndex>>
  BY <1>2 DEF values
<1>4. /\ Drawn' /\ Holders' = Holders /\ Alike' = Alike
      /\ threshold' = threshold /\ leader' = leader /\ leader \in Parties
  BY <1>1, <1>2, SameDraws DEF request, Drawn
<1>5. /\ outcome' = [outcome EXCEPT ![p] = IF p = leader /\ p # leaderIdx THEN "undefined" ELSE "ok"]
      /\ found' = IF p = leader /\ p = leaderIdx THEN \E S \in Combinations : Verifies(S) ELSE found
      /\ Finished(p) /\ DOMAIN outcome = Parties
  BY <1>1 DEF Finish, Typed
<1>6. FoundIfHeldByEnough'
  <2> SUFFICES ASSUME Alike, outcome'[leader] = "ok"
               PROVE  found' <=> 1 + Cardinality(Holders) >= threshold
    BY <1>4 DEF FoundIfHeldByEnough
  <2>1. CASE p = leader /\ p = leaderIdx
    BY <1>5, <2>1, VerdictIsRight
  <2>2. CASE p = leader /\ p # leaderIdx
    <3>1. outcome'[leader] = "undefined"
      BY <1>4, <1>5, <2>2
    <3> QED
      BY <3>1
  <2>3. CASE p # leader
    <3>1. outcome'[leader] = outcome[leader] /\ found' = found
      BY <1>4, <1>5, <2>3
    <3> QED
      BY <1>1, <3>1 DEF FoundIfHeldByEnough
  <2> QED
    BY <2>1, <2>2, <2>3
<1>7. Typed'
  BY <1>1, <1>2, <1>3, <1>5 DEF Typed, request
<1>8. LeaderLast'
  BY <1>1, <1>2, KeepsLast
<1>9. SharesGiven' /\ LeaderUpdated'
  BY <1>1, <1>2, <1>3, KeepsShares, KeepsUpdated
<1>10. LeaderMasked' /\ MembersUnmasked'
  BY <1>1, <1>2, <1>3, KeepsMasked, KeepsUnmasked
<1>11. Answered' /\ Indexed'
  BY <1>1, <1>2, <1>3, KeepsAnswered, KeepsIndexed
<1> QED
  BY <1>4, <1>6, <1>7, <1>8, <1>9, <1>10, <1>11 DEF Yyh26Inv

(* A step that computes nothing, and answers nobody.                       *)
LEMMA OutcomeAlonePreserves ==
  ASSUME Yyh26Inv, UNCHANGED <<request, at, values, found>>, DOMAIN outcome' = Parties,
         outcome'[leader] \in {outcome[leader], "undefined"}
  PROVE  Yyh26Inv'
<1> DEFINE passed == {}
<1>1. /\ Drawn /\ Typed /\ SharesGiven /\ LeaderUpdated /\ LeaderMasked
      /\ MembersUnmasked /\ Answered /\ Indexed /\ LeaderLast /\ FoundIfHeldByEnough
  BY DEF Yyh26Inv
<1>2. UNCHANGED <<payload, serverShare, leaderOle, memberOle, endPayload, oleIndex>>
  BY DEF values
<1>3. Moves(passed)
  BY <1>1 DEF Moves, Typed
<1>4. Drawn' /\ LeaderLast'
  BY <1>1, <1>3, SameDraws, KeepsLast
<1>5. FoundIfHeldByEnough'
  <2>1. /\ Holders' = Holders /\ Alike' = Alike /\ found' = found
        /\ threshold' = threshold /\ leader' = leader
    BY SameDraws DEF request
  <2>2. outcome'[leader] = "ok" => outcome[leader] = "ok"
    OBVIOUS
  <2> QED
    BY <1>1, <2>1, <2>2 DEF FoundIfHeldByEnough
<1>6. Typed'
  BY <1>1, <1>2 DEF Typed, request
<1>7. SharesGiven' /\ LeaderUpdated'
  BY <1>1, <1>2, <1>3, KeepsShares, KeepsUpdated
<1>8. LeaderMasked' /\ MembersUnmasked'
  BY <1>1, <1>2, <1>3, KeepsMasked, KeepsUnmasked
<1>9. Answered' /\ Indexed'
  BY <1>1, <1>2, <1>3, KeepsAnswered, KeepsIndexed
<1> QED
  BY <1>4, <1>5, <1>6, <1>7, <1>8, <1>9 DEF Yyh26Inv

(* Derail(p): a party expects other frames than its peer sends.            *)
LEMMA DerailPreserves ==
  ASSUME Yyh26Inv, NEW p \in Parties, Derail(p)
  PROVE  Yyh26Inv'
<1>1. outcome' = [outcome EXCEPT ![p] = "undefined"] /\ UNCHANGED <<request, at, values, found>>
  BY DEF Derail
<1>2. DOMAIN outcome = Parties /\ leader \in Parties
  BY DEF Yyh26Inv, Typed, Drawn
<1>3. DOMAIN outcome' = Parties /\ outcome'[leader] \in {outcome[leader], "undefined"}
  BY <1>1, <1>2
<1> QED
  BY <1>1, <1>3, OutcomeAlonePreserves

(* A step that changes nothing.                                            *)
LEMMA StutterPreserves == Yyh26Inv /\ UNCHANGED vars => Yyh26Inv'
<1> SUFFICES ASSUME Yyh26Inv, UNCHANGED vars PROVE Yyh26Inv'
  OBVIOUS
<1>1. UNCHANGED <<request, at, values, found>> /\ outcome' = outcome
  BY DEF vars
<1>2. DOMAIN outcome = Parties
  BY DEF Yyh26Inv, Typed
<1> QED
  BY <1>1, <1>2, OutcomeAlonePreserves

-----------------------------------------------------------------------------
(* At every point of the computation, also of one that breaks off because  *)
(* the sets have different sizes: what a member has got of the leader is a *)
(* share or no number, the sums that are under way hold the terms of the   *)
(* members met so far, and an answer is the member's share with all terms. *)
THEOREM Yyh26Invariant == Spec => []Yyh26Inv
<1>1. Init => Yyh26Inv
  BY InitHolds
<1>2. Yyh26Inv /\ [Next]_vars => Yyh26Inv'
  <2> SUFFICES ASSUME Yyh26Inv, [Next]_vars PROVE Yyh26Inv'
    OBVIOUS
  <2>1. ASSUME NEW p \in Parties, Submit(p) PROVE Yyh26Inv'
    BY <2>1, SubmitPreserves
  <2>2. ASSUME NEW p \in Parties, Finish(p) PROVE Yyh26Inv'
    BY <2>2, FinishPreserves
  <2>3. ASSUME NEW u \in Members, MemberMeets(u) PROVE Yyh26Inv'
    <3>1. CASE Sync(u)
      BY <3>1, SyncPreserves
    <3>2. CASE Update(u)
      BY <3>2, UpdatePreserves
    <3>3. CASE LeaderBole(u)
      BY <3>3, LeaderBolePreserves
    <3>4. CASE GiveIndex(u)
      BY <3>4, IndexPreserves
    <3>5. ASSUME NEW m \in Moduli, GiveShare(u, m) PROVE Yyh26Inv'
      BY <3>5, SharePreserves
    <3>6. ASSUME NEW m \in Moduli, GiveAnswer(u, m) PROVE Yyh26Inv'
      BY <3>6, AnswerPreserves
    <3>7. ASSUME NEW v \in Members \ {u}, ClientBole(v, u) PROVE Yyh26Inv'
      BY <3>7, ClientBolePreserves
    <3> QED
      BY <2>3, <3>1, <3>2, <3>3, <3>4, <3>5, <3>6, <3>7 DEF MemberMeets
  <2>4. ASSUME NEW p \in Parties, Derail(p) PROVE Yyh26Inv'
    BY <2>4, DerailPreserves
  <2>5. CASE UNCHANGED vars
    BY <2>5, StutterPreserves
  <2> QED
    BY <2>1, <2>2, <2>3, <2>4, <2>5 DEF Next
<1> QED
  BY <1>1, <1>2, PTL DEF Spec

(* When all sets have one size, or are small enough to be padded to one,   *)
(* the leader finds x if and only if it and the members that have x, or an *)
(* element with the same first 16 bytes, are threshold parties: for any    *)
(* number of parties, any primes above it, any slots and any random        *)
(* values, and in every order of the meetings.  Nothing is claimed of sets *)
(* of other sizes.                                                         *)
THEOREM FoundExactlyIfEnough == Spec => []FoundIfHeldByEnough
<1>1. Yyh26Inv => FoundIfHeldByEnough
  BY DEF Yyh26Inv
<1> QED
  BY <1>1, Yyh26Invariant, PTL
=============================================================================
