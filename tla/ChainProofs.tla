----------------------------- MODULE ChainProofs -----------------------------
(***************************************************************************)
(* Facts that the proofs about KS05 and BEH21 share: where the members are *)
(* in the chain and whom they pick as neighbours, for any number of        *)
(* parties, how sums and largest values over parties or elements grow, and *)
(* what is on a stream of one or two frames.                               *)
(***************************************************************************)
EXTENDS Chain, Sequences, FiniteSetsExt, Functions, FiniteSetTheorems, SequenceTheorems,
        WellFoundedInduction, TLAPS

-----------------------------------------------------------------------------
(* Of a set of numbers one comes first.                                    *)
LEMMA LeastOf ==
  ASSUME NEW T \in SUBSET Nat, T # {}
  PROVE  \E i \in T : \A j \in T : ~ j < i
<1>1. \E i \in T : \A j \in T : <<j, i>> \notin OpToRel(<, Nat)
  BY NatLessThanWellFounded, WFMin
<1> QED
  BY <1>1 DEF OpToRel

(* ... and of the subsets of a finite set that are bad in some respect,    *)
(* there is one whose smaller subsets are all good.                        *)
LEMMA SmallestBad ==
  ASSUME NEW S, IsFiniteSet(S), NEW Bad \in SUBSET SUBSET S, Bad # {}
  PROVE  \E T \in Bad : \A x \in T : T \ {x} \notin Bad
<1> DEFINE Sizes == {Cardinality(T) : T \in Bad}
<1>1. \A T \in SUBSET S : IsFiniteSet(T) /\ Cardinality(T) \in Nat
  BY FS_Subset, FS_CardinalityType
<1>2. PICK n \in Sizes : \A j \in Sizes : ~ j < n
  <2>1. Sizes \in SUBSET Nat /\ Sizes # {}
    BY <1>1
  <2> HIDE DEF Sizes
  <2> QED
    BY <2>1, LeastOf
<1>3. PICK T \in Bad : Cardinality(T) = n
  OBVIOUS
<1>4. n \in Nat /\ \A x \in T : Cardinality(T \ {x}) = n - 1
  BY <1>1, <1>3, FS_RemoveElement
<1>5. \A x \in T : T \ {x} \in Bad => n - 1 \in Sizes
  BY <1>4
<1>6. n - 1 < n
  BY <1>4
<1> HIDE DEF Sizes
<1>7. \A x \in T : T \ {x} \notin Bad
  BY <1>2, <1>5, <1>6
<1> QED
  BY <1>7

-----------------------------------------------------------------------------
(* Sums: SumFunctionOnSet folds a function over a finite set of arguments, *)
(* taken in an order that CHOOSE determines.                               *)
Pick(s) == CHOOSE x \in s : TRUE

IsSum(f, S, g) ==
    g = [s \in SUBSET S |-> IF s = {} THEN 0 ELSE f[Pick(s)] + g[s \ {Pick(s)}]]

(* The library's sum is such a function, at the set.                       *)
LEMMA SumIsRecursive ==
  ASSUME NEW f, NEW S
  PROVE  SumFunctionOnSet(f, S) = (CHOOSE g : IsSum(f, S, g))[S]
BY DEF SumFunctionOnSet, FoldFunctionOnSet, MapThenFoldSet, IsSum, Pick

(* The library picks an element of a set that has one.                     *)
LEMMA PickIsMember ==
  ASSUME NEW s, s # {}
  PROVE  Pick(s) \in s
BY DEF Pick

(* A recursively defined sum exists on every finite set.                   *)
LEMMA SumExists ==
  ASSUME NEW f, NEW S, IsFiniteSet(S)
  PROVE  \E g : IsSum(f, S, g)
<1> DEFINE Upto(n) == {s \in SUBSET S : Cardinality(s) <= n}
           Good(n) == \E g : g = [s \in Upto(n) |->
                                    IF s = {} THEN 0 ELSE f[Pick(s)] + g[s \ {Pick(s)}]]
           T == {n \in Nat : ~ Good(n)}
<1>1. \A s \in SUBSET S : IsFiniteSet(s) /\ Cardinality(s) \in Nat
  BY FS_Subset, FS_CardinalityType
<1>2. Good(0)
  <2>1. \A s \in Upto(0) : s = {}
    BY <1>1, FS_EmptySet
  <2> DEFINE g == [s \in Upto(0) |-> 0]
  <2>2. g = [s \in Upto(0) |-> IF s = {} THEN 0 ELSE f[Pick(s)] + g[s \ {Pick(s)}]]
    BY <2>1
  <2> QED
    BY <2>2
<1>3. ASSUME NEW n \in Nat \ {0}, Good(n - 1) PROVE Good(n)
  <2>1. PICK h : h = [s \in Upto(n - 1) |-> IF s = {} THEN 0 ELSE f[Pick(s)] + h[s \ {Pick(s)}]]
    BY <1>3
  <2> DEFINE g == [s \in Upto(n) |-> IF s = {} THEN 0 ELSE f[Pick(s)] + h[s \ {Pick(s)}]]
  <2>2. \A s \in Upto(n - 1) : s \in Upto(n) /\ g[s] = h[s]
    <3>1. \A s \in Upto(n - 1) : s \in Upto(n)
      BY <1>1
    <3>2. \A s \in Upto(n - 1) : h[s] = IF s = {} THEN 0 ELSE f[Pick(s)] + h[s \ {Pick(s)}]
      <4> HIDE DEF Upto
      <4> QED
        BY <2>1
    <3> QED
      BY <3>1, <3>2
  <2>3. \A s \in Upto(n) : s # {} => s \ {Pick(s)} \in Upto(n - 1)
    BY <1>1, PickIsMember, FS_RemoveElement
  <2>4. g = [s \in Upto(n) |-> IF s = {} THEN 0 ELSE f[Pick(s)] + g[s \ {Pick(s)}]]
    <3> HIDE DEF Upto
    <3> QED
      BY <2>2, <2>3
  <2> QED
    BY <2>4
<1>4. T = {}
  <2> SUFFICES ASSUME T # {} PROVE FALSE
    OBVIOUS
  <2>1. PICK n \in T : \A j \in T : ~ j < n
    <3>1. T \in SUBSET Nat
      OBVIOUS
    <3> HIDE DEF T
    <3> QED
      BY <3>1, LeastOf
  <2>2. n \in Nat \ {0}
    <3> HIDE DEF Good
    <3> QED
      BY <1>2
  <2>3. n - 1 \in Nat /\ n - 1 < n
    BY <2>2
  <2>4. n - 1 \notin T
    <3> HIDE DEF T
    <3> QED
      BY <2>1, <2>3
  <2> HIDE DEF Good
  <2> QED
    BY <1>3, <2>2, <2>3, <2>4
<1>5. Upto(Cardinality(S)) = SUBSET S /\ Cardinality(S) \in Nat
  BY <1>1, FS_Subset, FS_CardinalityType
<1>6. Good(Cardinality(S))
  BY <1>4, <1>5
<1> QED
  BY <1>5, <1>6 DEF IsSum

(* The sums of subsets do not depend on the set they are computed for.     *)
LEMMA SumsAgree ==
  ASSUME NEW f, NEW S, IsFiniteSet(S), NEW T \in SUBSET S, NEW g, NEW h,
         IsSum(f, S, g), IsSum(f, T, h)
  PROVE  \A s \in SUBSET T : g[s] = h[s]
<1> DEFINE Bad == {s \in SUBSET T : g[s] # h[s]}
<1> SUFFICES ASSUME Bad # {} PROVE FALSE
  OBVIOUS
<1>1. PICK s \in Bad : \A x \in s : s \ {x} \notin Bad
  <2>1. Bad \in SUBSET SUBSET T /\ IsFiniteSet(T)
    BY FS_Subset
  <2> HIDE DEF Bad
  <2> QED
    BY <2>1, SmallestBad
<1>2. \A r \in SUBSET T : r \in SUBSET S
  OBVIOUS
<1>3. g[s] = IF s = {} THEN 0 ELSE f[Pick(s)] + g[s \ {Pick(s)}]
  BY <1>2 DEF IsSum
<1>4. h[s] = IF s = {} THEN 0 ELSE f[Pick(s)] + h[s \ {Pick(s)}]
  BY DEF IsSum
<1>5. s # {} => g[s \ {Pick(s)}] = h[s \ {Pick(s)}]
  BY <1>1, PickIsMember
<1> QED
  BY <1>3, <1>4, <1>5

(* A sum takes its arguments in any order.                                 *)
LEMMA SumFacts ==
  ASSUME NEW f, NEW S, IsFiniteSet(S), \A x \in S : f[x] \in Nat
  PROVE  /\ SumFunctionOnSet(f, {}) = 0
         /\ \A T \in SUBSET S :
              /\ SumFunctionOnSet(f, T) \in Nat
              /\ \A x \in T : SumFunctionOnSet(f, T) = f[x] + SumFunctionOnSet(f, T \ {x})
<1> DEFINE g == CHOOSE g : IsSum(f, S, g)
<1>1. IsSum(f, S, g)
  BY SumExists
<1>2. \A T \in SUBSET S : SumFunctionOnSet(f, T) = g[T]
  <2> TAKE T \in SUBSET S
  <2> DEFINE h == CHOOSE h : IsSum(f, T, h)
  <2>1. IsFiniteSet(T)
    BY FS_Subset
  <2>2. IsSum(f, T, h)
    BY <2>1, SumExists
  <2>3. SumFunctionOnSet(f, T) = h[T]
    BY SumIsRecursive
  <2> HIDE DEF g, h
  <2> QED
    BY <1>1, <2>2, <2>3, SumsAgree
<1> HIDE DEF g
<1>3. g[{}] = 0 /\ \A T \in SUBSET S : T # {} => g[T] = f[Pick(T)] + g[T \ {Pick(T)}]
  BY <1>1 DEF IsSum
<1>4. \A T \in SUBSET S : g[T] \in Nat
  <2> DEFINE Bad == {T \in SUBSET S : g[T] \notin Nat}
  <2> SUFFICES ASSUME Bad # {} PROVE FALSE
    OBVIOUS
  <2>1. PICK T \in Bad : \A x \in T : T \ {x} \notin Bad
    <3>1. Bad \in SUBSET SUBSET S
      OBVIOUS
    <3> HIDE DEF Bad
    <3> QED
      BY <3>1, SmallestBad
  <2>2. T # {} /\ g[T] \notin Nat
    <3>1. g[T] \notin Nat
      OBVIOUS
    <3>2. g[{}] \in Nat
      BY <1>3
    <3> HIDE DEF Bad
    <3> QED
      BY <3>1, <3>2
  <2> DEFINE p == Pick(T)
  <2>3. p \in T /\ p \in S
    BY <2>2, PickIsMember
  <2>4. g[T] = f[p] + g[T \ {p}]
    BY <1>3, <2>2
  <2>5. g[T \ {p}] \in Nat /\ f[p] \in Nat
    BY <2>1, <2>3
  <2> HIDE DEF p
  <2> QED
    BY <2>2, <2>4, <2>5
<1>5. \A T \in SUBSET S : \A x \in T : g[T] = f[x] + g[T \ {x}]
  <2> DEFINE Bad == {T \in SUBSET S : \E x \in T : g[T] # f[x] + g[T \ {x}]}
  <2> SUFFICES ASSUME Bad # {} PROVE FALSE
    OBVIOUS
  <2>1. PICK T \in Bad : \A x \in T : T \ {x} \notin Bad
    <3>1. Bad \in SUBSET SUBSET S
      OBVIOUS
    <3> HIDE DEF Bad
    <3> QED
      BY <3>1, SmallestBad
  <2>2. PICK x \in T : g[T] # f[x] + g[T \ {x}]
    OBVIOUS
  <2> DEFINE p == Pick(T)
  <2>3. p \in T /\ g[T] = f[p] + g[T \ {p}] /\ x # p
    BY <1>3, <2>2, PickIsMember
  <2>4. g[T \ {p}] = f[x] + g[(T \ {p}) \ {x}]
    BY <2>1, <2>2, <2>3
  <2>5. g[T \ {x}] = f[p] + g[(T \ {x}) \ {p}]
    BY <2>1, <2>2, <2>3
  <2> DEFINE rest == g[(T \ {p}) \ {x}]
  <2>6. rest = g[(T \ {x}) \ {p}]
    <3>1. (T \ {p}) \ {x} = (T \ {x}) \ {p}
      OBVIOUS
    <3> QED
      BY <3>1
  <2>7. f[p] \in Nat /\ f[x] \in Nat /\ rest \in Nat
    BY <1>4, <2>3
  <2>8. g[T \ {p}] = f[x] + rest /\ g[T \ {x}] = f[p] + rest
    BY <2>4, <2>5, <2>6
  <2> HIDE DEF p, rest
  <2>9. g[T] = f[p] + (f[x] + rest) /\ f[x] + g[T \ {x}] = f[x] + (f[p] + rest)
    BY <2>3, <2>8
  <2> QED
    BY <2>2, <2>7, <2>9
<1> QED
  BY <1>2, <1>3, <1>4, <1>5

(* A sum is no smaller than one of its terms, nor than the number of its   *)
(* terms when none of them is zero.                                        *)
LEMMA SumBounds ==
  ASSUME NEW f, NEW S, IsFiniteSet(S), \A x \in S : f[x] \in Nat
  PROVE  /\ \A x \in S : f[x] <= SumFunctionOnSet(f, S)
         /\ (\A x \in S : f[x] >= 1) => Cardinality(S) <= SumFunctionOnSet(f, S)
<1> DEFINE sum(T) == SumFunctionOnSet(f, T)
<1>1. /\ sum({}) = 0
      /\ \A T \in SUBSET S : sum(T) \in Nat /\ \A x \in T : sum(T) = f[x] + sum(T \ {x})
  BY SumFacts
<1> HIDE DEF sum
<1>2. \A x \in S : f[x] <= sum(S)
  <2> TAKE x \in S
  <2>1. sum(S) = f[x] + sum(S \ {x}) /\ sum(S \ {x}) \in Nat
    BY <1>1
  <2> QED
    BY <2>1
<1>3. ASSUME \A x \in S : f[x] >= 1 PROVE Cardinality(S) <= sum(S)
  <2> DEFINE Bad == {T \in SUBSET S : ~ Cardinality(T) <= sum(T)}
  <2> SUFFICES ASSUME Bad # {} PROVE FALSE
    OBVIOUS
  <2>2. PICK T \in Bad : \A x \in T : T \ {x} \notin Bad
    <3>1. Bad \in SUBSET SUBSET S
      OBVIOUS
    <3> HIDE DEF Bad
    <3> QED
      BY <3>1, SmallestBad
  <2>3. IsFiniteSet(T) /\ Cardinality(T) \in Nat /\ sum(T) \in Nat
    BY <1>1, FS_Subset, FS_CardinalityType
  <2>4. PICK x \in T : TRUE
    BY <1>1, <2>3, FS_EmptySet
  <2>5. sum(T) = f[x] + sum(T \ {x}) /\ sum(T \ {x}) \in Nat /\ f[x] \in Nat /\ f[x] >= 1
    BY <1>1, <1>3
  <2>6. Cardinality(T \ {x}) = Cardinality(T) - 1
    BY <2>3, FS_RemoveElement
  <2>7. Cardinality(T \ {x}) <= sum(T \ {x})
    BY <2>2
  <2> QED
    BY <2>2, <2>3, <2>5, <2>6, <2>7
<1> QED
  BY <1>2, <1>3 DEF sum

-----------------------------------------------------------------------------
(* A sum of zeros and ones counts the ones.                                *)
LEMMA SumCounts ==
  ASSUME NEW f, NEW S, IsFiniteSet(S), \A x \in S : f[x] \in {0, 1}
  PROVE  SumFunctionOnSet(f, S) = Cardinality({x \in S : f[x] = 1})
<1> DEFINE sum(T) == SumFunctionOnSet(f, T)
           ones(T) == {x \in T : f[x] = 1}
           Bad == {T \in SUBSET S : sum(T) # Cardinality(ones(T))}
<1>1. /\ sum({}) = 0
      /\ \A T \in SUBSET S : sum(T) \in Nat /\ \A x \in T : sum(T) = f[x] + sum(T \ {x})
  BY SumFacts
<1>2. \A T \in SUBSET S : IsFiniteSet(ones(T)) /\ Cardinality(ones(T)) \in Nat
  BY FS_Subset, FS_CardinalityType
<1> HIDE DEF sum
<1>3. Bad = {}
  <2> SUFFICES ASSUME Bad # {} PROVE FALSE
    OBVIOUS
  <2>1. PICK T \in Bad : \A x \in T : T \ {x} \notin Bad
    <3>1. Bad \in SUBSET SUBSET S
      OBVIOUS
    <3> HIDE DEF Bad
    <3> QED
      BY <3>1, SmallestBad
  <2>2. T # {}
    <3>1. ones({}) = {} /\ Cardinality({}) = 0
      BY FS_EmptySet
    <3> QED
      BY <1>1, <3>1
  <2>3. PICK x \in T : TRUE
    BY <2>2
  <2>4. /\ T \in SUBSET S /\ T \ {x} \in SUBSET S /\ x \in S
        /\ sum(T) # Cardinality(ones(T)) /\ sum(T \ {x}) = Cardinality(ones(T \ {x}))
    BY <2>1, <2>3
  <2>5. sum(T) = f[x] + sum(T \ {x})
    BY <1>1, <2>3, <2>4
  <2>6. CASE f[x] = 1
    <3>1. ones(T) = ones(T \ {x}) \union {x} /\ x \notin ones(T \ {x})
      BY <2>3, <2>6
    <3>2. IsFiniteSet(ones(T \ {x})) /\ Cardinality(ones(T \ {x})) \in Nat
      BY <1>2, <2>4
    <3>3. Cardinality(ones(T)) = Cardinality(ones(T \ {x})) + 1
      <4> HIDE DEF ones
      <4> QED
        BY <3>1, <3>2, FS_AddElement
    <3> QED
      BY <2>4, <2>5, <2>6, <3>2, <3>3
  <2>7. CASE f[x] = 0
    <3>1. ones(T) = ones(T \ {x})
      BY <2>7
    <3>2. Cardinality(ones(T \ {x})) \in Nat
      BY <1>2, <2>4
    <3> QED
      BY <2>4, <2>5, <2>7, <3>1, <3>2
  <2> QED
    BY <2>4, <2>6, <2>7
<1>4. S \in SUBSET S
  OBVIOUS
<1> QED
  BY <1>3, <1>4 DEF sum

(* The values of a function on a finite set are finitely many.             *)
LEMMA ValuesAreFinite ==
  ASSUME NEW f, NEW S, IsFiniteSet(S)
  PROVE  IsFiniteSet({f[x] : x \in S})
<1> DEFINE T == {f[x] : x \in S}
           h == [x \in S |-> f[x]]
<1>1. h \in [S -> T] /\ \A t \in T : \E x \in S : h[x] = t
  OBVIOUS
<1>2. h \in Surjection(S, T)
  BY <1>1 DEF Surjection
<1> QED
  BY <1>2, FS_Surjection

(* Finitely many numbers have a largest and a smallest one.                *)
LEMMA Extremes ==
  ASSUME NEW S \in SUBSET Nat, IsFiniteSet(S), S # {}
  PROVE  /\ Max(S) \in S /\ \A x \in S : x <= Max(S)
         /\ Min(S) \in S /\ \A x \in S : Min(S) <= x
<1> DEFINE Largest(T) == \E m \in T : \A x \in T : m >= x
           Bad == {T \in SUBSET S : T # {} /\ ~ Largest(T)}
<1>1. Bad = {}
  <2> SUFFICES ASSUME Bad # {} PROVE FALSE
    OBVIOUS
  <2>1. PICK T \in Bad : \A x \in T : T \ {x} \notin Bad
    <3>1. Bad \in SUBSET SUBSET S
      OBVIOUS
    <3> HIDE DEF Bad
    <3> QED
      BY <3>1, SmallestBad
  <2>2. PICK x \in T : TRUE
    OBVIOUS
  <2>3. T \ {x} # {}
    <3> SUFFICES ASSUME T \ {x} = {} PROVE FALSE
      OBVIOUS
    <3>1. T = {x} /\ x \in Nat
      OBVIOUS
    <3>2. Largest(T)
      BY <3>1
    <3> QED
      BY <3>2
  <2>4. PICK m \in T \ {x} : \A y \in T \ {x} : m >= y
    BY <2>1, <2>3
  <2>5. m \in Nat /\ x \in Nat /\ \A y \in T : y \in Nat
    OBVIOUS
  <2>6. Largest(T)
    <3>1. CASE m >= x
      BY <2>4, <3>1
    <3>2. CASE x >= m
      <4>1. \A y \in T : x >= y
        BY <2>4, <2>5, <3>2
      <4> QED
        BY <4>1
    <3> QED
      BY <2>5, <3>1, <3>2
  <2> QED
    BY <2>6
<1>2. Largest(S)
  BY <1>1
<1>3. \E m \in S : \A x \in S : m =< x
  <2>1. PICK m \in S : \A x \in S : ~ x < m
    BY LeastOf
  <2> QED
    BY <2>1
<1> QED
  BY <1>2, <1>3 DEF Max, Min

-----------------------------------------------------------------------------
(* Streams of one or two frames.                                           *)
LEMMA ShortStreams ==
  ASSUME NEW a, NEW b
  PROVE  /\ <<a>> # <<>> /\ <<a, b>> # <<>>
         /\ Append(<<>>, a) = <<a>> /\ Append(<<a>>, b) = <<a, b>>
         /\ Head(<<a>>) = a /\ Head(<<a, b>>) = a
         /\ Tail(<<a>>) = <<>> /\ Tail(<<a, b>>) = <<b>>
<1>1. <<a>> # <<>> /\ <<a, b>> # <<>>
  <2>1. Len(<<a>>) = 1 /\ Len(<<a, b>>) = 2 /\ Len(<<>>) = 0
    OBVIOUS
  <2> QED
    BY <2>1
<1>2. Append(<<>>, a) = <<a>>
  <2>1. <<>> \in Seq({a}) /\ <<a>> \in Seq({a})
    OBVIOUS
  <2> QED
    BY <2>1, AppendIsConcat, ConcatEmptySeq
<1>3. Append(<<a>>, b) = <<a, b>>
  <2>1. <<a>> \in Seq({a, b}) /\ <<a, b>> \in Seq({a, b}) /\ Append(<<a>>, b) \in Seq({a, b})
    OBVIOUS
  <2>2. Len(<<a>>) = 1 /\ <<a>>[1] = a /\ Len(<<a, b>>) = 2 /\ <<a, b>>[1] = a /\ <<a, b>>[2] = b
    OBVIOUS
  <2>3. Len(Append(<<a>>, b)) = Len(<<a>>) + 1 /\ Append(<<a>>, b)[Len(<<a>>) + 1] = b
    BY <2>1, AppendProperties
  <2>4. Append(<<a>>, b)[1] = <<a>>[1]
    BY <2>1, <2>2, AppendProperties
  <2>5. Len(Append(<<a>>, b)) = 2
    BY <2>2, <2>3
  <2>6. Append(<<a>>, b)[1] = a /\ Append(<<a>>, b)[2] = b
    BY <2>2, <2>3, <2>4
  <2>7. Len(Append(<<a>>, b)) = Len(<<a, b>>)
    BY <2>2, <2>5
  <2>8. \A i \in 1..Len(Append(<<a>>, b)) : i = 1 \/ i = 2
    BY <2>5
  <2>9. \A i \in 1..Len(Append(<<a>>, b)) : Append(<<a>>, b)[i] = <<a, b>>[i]
    BY <2>2, <2>6, <2>8
  <2> QED
    BY <2>1, <2>7, <2>9, SeqEqual
<1>4. Head(<<a>>) = a /\ Head(<<a, b>>) = a
  OBVIOUS
<1>5. Tail(<<a>>) = <<>>
  <2>1. <<a>> \in Seq({a}) /\ Len(<<a>>) = 1
    OBVIOUS
  <2>2. Len(Tail(<<a>>)) = 0 /\ Tail(<<a>>) \in Seq({a})
    BY <1>1, <2>1, HeadTailProperties
  <2> QED
    BY <2>2, EmptySeq
<1>6. Tail(<<a, b>>) = <<b>>
  <2>1. <<a, b>> \in Seq({a, b}) /\ Len(<<a, b>>) = 2 /\ <<b>> \in Seq({a, b}) /\ Len(<<b>>) = 1
        /\ <<a, b>>[2] = b /\ <<b>>[1] = b
    OBVIOUS
  <2>2. /\ Len(Tail(<<a, b>>)) = 1 /\ Tail(<<a, b>>) \in Seq({a, b})
        /\ Tail(<<a, b>>)[1] = b
    BY <1>1, <2>1, HeadTailProperties
  <2> QED
    BY <2>1, <2>2, SeqEqual
<1> QED
  BY <1>1, <1>2, <1>3, <1>4, <1>5, <1>6

-----------------------------------------------------------------------------
(* The position of a member, and the neighbours it picks.  Only the party  *)
(* with the largest id can be without a next hop, and it is unless it      *)
(* leads; only member 1 can be without a previous one.                     *)
Positions ==
    /\ \A m \in Members : Position(m) = IF m < leader THEN m ELSE m - 1
    /\ First = (IF leader = 0 THEN 1 ELSE 0) /\ First \in Members
    /\ Last = (IF leader = N - 1 THEN N - 2 ELSE N - 1) /\ Last \in Members

Hops ==
    \A m \in Members :
      /\ Prev(m) = IF m = 0 THEN leader ELSE IF m = 1 /\ leader = 0 THEN None
                   ELSE IF m - 1 = leader THEN m - 2 ELSE m - 1
      /\ NextHop(m) = IF m = N - 2 THEN leader ELSE IF m = N - 1 THEN None
                      ELSE IF m + 1 = leader THEN m + 2 ELSE m + 1

(* The members' positions, for any leader.                                 *)
LEMMA ChainPositions ==
  ASSUME N \in Nat, N >= 2, leader \in Parties
  PROVE  Positions
<1>1. leader \in Nat /\ leader <= N - 1
  BY DEF Parties
<1>2. \A m \in Members : Position(m) = IF m < leader THEN m ELSE m - 1
  <2> TAKE m \in Members
  <2>1. m \in Nat /\ m <= N - 1 /\ m # leader
    BY DEF Members, Parties
  <2>2. IsFiniteSet(0..(m - 1)) /\ Cardinality(0..(m - 1)) = m
    BY <2>1, FS_Interval
  <2>3. CASE m < leader
    <3>1. {q \in Members : q < m} = 0..(m - 1)
      BY <1>1, <2>1, <2>3 DEF Members, Parties
    <3> QED
      BY <2>2, <2>3, <3>1 DEF Position
  <2>4. CASE leader < m
    <3>1. {q \in Members : q < m} = (0..(m - 1)) \ {leader}
      BY <1>1, <2>1, <2>4 DEF Members, Parties
    <3>2. leader \in 0..(m - 1)
      BY <1>1, <2>1, <2>4
    <3>3. Cardinality((0..(m - 1)) \ {leader}) = m - 1
      BY <2>2, <3>2, FS_RemoveElement
    <3> QED
      BY <1>1, <2>1, <2>4, <3>1, <3>3 DEF Position
  <2> QED
    BY <1>1, <2>1, <2>3, <2>4
<1>3. First = IF leader = 0 THEN 1 ELSE 0
  <2> DEFINE f == IF leader = 0 THEN 1 ELSE 0
  <2>1. f \in Members
    BY <1>1 DEF Members, Parties
  <2>2. \A m \in Members : Position(m) = 0 <=> m = f
    BY <1>1, <1>2 DEF Members, Parties
  <2> HIDE DEF f
  <2>3. First = f
    BY <2>1, <2>2 DEF First
  <2> QED
    BY <2>3 DEF f
<1>4. Last = IF leader = N - 1 THEN N - 2 ELSE N - 1
  <2> DEFINE l == IF leader = N - 1 THEN N - 2 ELSE N - 1
  <2>1. l \in Members
    BY <1>1 DEF Members, Parties
  <2>2. \A m \in Members : Position(m) = N - 2 <=> m = l
    BY <1>1, <1>2 DEF Members, Parties
  <2> HIDE DEF l
  <2>3. Last = l
    BY <2>1, <2>2 DEF Last
  <2> QED
    BY <2>3 DEF l
<1>5. First \in Members /\ Last \in Members
  BY <1>1, <1>3, <1>4 DEF Members, Parties
<1> QED
  BY <1>2, <1>3, <1>4, <1>5 DEF Positions

(* The members' neighbours, for any leader.                                *)
LEMMA ChainHops ==
  ASSUME N \in Nat, N >= 2, leader \in Parties
  PROVE  Hops
<1>1. leader \in Nat /\ leader <= N - 1
  BY DEF Parties
<1> DEFINE at(k) == {q \in Members : Position(q) = k}
           peer(S) == IF S = {} THEN None ELSE CHOOSE q \in S : TRUE
<1>2. \A k \in Int : at(k) = IF k < 0 \/ k > N - 2 THEN {} ELSE {IF k < leader THEN k ELSE k + 1}
  <2> TAKE k \in Int
  <2>1. \A q \in Members : Position(q) = k <=> k \in 0..(N - 2) /\ q = IF k < leader THEN k ELSE k + 1
    BY <1>1, ChainPositions DEF Positions, Members, Parties
  <2>2. k \in 0..(N - 2) => (IF k < leader THEN k ELSE k + 1) \in Members
    BY <1>1 DEF Members, Parties
  <2> QED
    BY <2>1, <2>2
<1>3. \A k \in Int : peer(at(k)) = IF k < 0 \/ k > N - 2 THEN None ELSE IF k < leader THEN k ELSE k + 1
  <2> HIDE DEF at
  <2> QED
    BY <1>2
<1>4. SUFFICES ASSUME NEW m \in Members
               PROVE  /\ Prev(m) = IF m = 0 THEN leader ELSE IF m = 1 /\ leader = 0 THEN None
                                   ELSE IF m - 1 = leader THEN m - 2 ELSE m - 1
                      /\ NextHop(m) = IF m = N - 2 THEN leader ELSE IF m = N - 1 THEN None
                                      ELSE IF m + 1 = leader THEN m + 2 ELSE m + 1
  BY DEF Hops
<1>5. ChannelTo(m, 0) = leader
  BY DEF ChannelTo
<1>6. ChannelTo(m, 1) = peer(at(Position(m) - 1))
  BY DEF ChannelTo
<1>7. ChannelTo(m, 2) = peer(at(Position(m) + 1))
  BY DEF ChannelTo
<1>8. Position(m) = (IF m < leader THEN m ELSE m - 1) /\ m \in Nat /\ m <= N - 1 /\ m # leader
  BY ChainPositions DEF Positions, Members, Parties
<1> HIDE DEF at, peer
<1>9. ChannelTo(m, 1) = IF Position(m) = 0 THEN None
                        ELSE IF Position(m) - 1 < leader THEN Position(m) - 1 ELSE Position(m)
  BY <1>1, <1>3, <1>6, <1>8
<1>10. ChannelTo(m, 2) = IF Position(m) = N - 2 THEN None
                         ELSE IF Position(m) + 1 < leader THEN Position(m) + 1 ELSE Position(m) + 2
  BY <1>1, <1>3, <1>7, <1>8
<1>11. Prev(m) = IF m = 0 THEN leader ELSE ChannelTo(m, 1)
  BY <1>5 DEF Prev
<1>12. NextHop(m) = IF m = N - 2 THEN leader ELSE ChannelTo(m, 2)
  BY <1>5 DEF NextHop
<1> QED
  BY <1>1, <1>8, <1>9, <1>10, <1>11, <1>12
=============================================================================
