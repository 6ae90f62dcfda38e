------------------------ MODULE Beh21ProtocolProofs ------------------------
(***************************************************************************)
(* Proofs about Beh21Protocol, for any number of parties, any inputs,      *)
(* Bloom filters and thresholds, any leader, streams of any length and any *)
(* process that may die: that whoever reads a frame finds the kind that it *)
(* expects, and that the leader's result is exact unless a member draws    *)
(* the factor 1.  First, proofs about SecureComparison: what every hop     *)
(* does to a triple.                                                       *)
(***************************************************************************)
EXTENDS Beh21Protocol, ChainProofs

-----------------------------------------------------------------------------
(* The triple selects 1 when yes, 0 otherwise, and c is not zero.          *)
Carries(tr, yes) == /\ tr \in Triples
                    /\ tr.c # 0
                    /\ (tr.a = 1) <=> ((tr.c < 0) <=> yes)

(* What the leader sends when it draws 1 for a difference of 1: c is zero. *)
Undecided(tr) == tr \in Triples /\ tr.c = 0 /\ tr.a = 1

-----------------------------------------------------------------------------
(* A product with a positive factor keeps the sign and does not come       *)
(* closer to zero.                                                         *)
LEMMA ProductGrows ==
  ASSUME NEW x \in Int, NEW r \in Nat, r >= 1
  PROVE  /\ r * x \in Int
         /\ x >= 1 => r * x >= r
         /\ x <= -1 => r * x <= -r
         /\ x = 0 => r * x = 0
<1>1. r * x \in Int
  OBVIOUS
<1>2. ASSUME x >= 1 PROVE r * x >= r
  <2>1. r * x = r + r * (x - 1)
    OBVIOUS
  <2>2. r * (x - 1) >= 0
    BY <1>2
  <2> QED
    BY <2>1, <2>2
<1>3. ASSUME x <= -1 PROVE r * x <= -r
  <2>1. r * x = -r - r * (-1 - x)
    OBVIOUS
  <2>2. r * (-1 - x) >= 0
    BY <1>3
  <2> QED
    BY <2>1, <2>2
<1> QED
  BY <1>1, <1>2, <1>3

(* The ranges of the factor and of the offset.                             *)
LEMMA DrawType ==
  ASSUME NEW r \in Factors, NEW s \in Offsets(r)
  PROVE  /\ r \in Nat /\ r >= 1
         /\ s \in Nat /\ s >= 1
         /\ r # 1 => s < r
         /\ r = 1 => s = 1
  BY BoundAssumption DEF Factors, Offsets

(* The leader's triple answers whether the difference is at most zero;     *)
(* only a factor of 1 can leave it undecided, for a difference of 1.       *)
THEOREM StartDecides ==
  ASSUME NEW d \in Int, NEW r \in Factors, NEW s \in Offsets(r)
  PROVE  \/ Carries(Start(d, r, s), d <= 0)
         \/ Undecided(Start(d, r, s)) /\ d = 1 /\ r = 1
<1> USE DrawType, ProductGrows
<1>1. r * d \in Int /\ r * d - s \in Int
  OBVIOUS
<1>2. d <= -1 \/ d = 0 \/ d >= 1
  OBVIOUS
<1>3. CASE d <= 0
  <2>1. r * d - s < 0
    BY <1>1, <1>2, <1>3
  <2> QED
    BY <1>1, <1>3, <2>1 DEF Carries, Start, Triples
<1>4. CASE d >= 1 /\ r * d - s > 0
  BY <1>1, <1>4 DEF Carries, Start, Triples
<1>5. CASE d >= 1 /\ r * d - s <= 0
  <2>1. r = 1 /\ s = 1
    BY <1>1, <1>5
  <2>2. d = 1 /\ r * d - s = 0
    BY <1>5, <2>1
  <2> QED
    BY <2>1, <2>2 DEF Undecided, Start, Triples
<1> QED
  BY <1>2, <1>3, <1>4, <1>5, <1>1

(* A hop whose factor is not 1 keeps the answer, whether it swaps or not.  *)
THEOREM PassKeeps ==
  ASSUME NEW tr, NEW yes \in BOOLEAN, Carries(tr, yes),
         NEW r \in Factors, NEW s \in Offsets(r), r # 1, NEW swap \in BOOLEAN
  PROVE  Carries(Pass(tr, r, s, swap), yes)
<1> USE DrawType, ProductGrows
<1>1. tr.c \in Int /\ tr.a \in 0..1 /\ (tr.c <= -1 \/ tr.c >= 1)
  BY DEF Carries, Triples
<1>2. r * tr.c \in Int /\ r * tr.c + s \in Int /\ -(r * tr.c) - s \in Int
  BY <1>1
<1>3. tr.c <= -1 => r * tr.c + s < 0 /\ -(r * tr.c) - s > 0
  BY <1>1, <1>2
<1>4. tr.c >= 1 => r * tr.c + s > 0 /\ -(r * tr.c) - s < 0
  BY <1>1, <1>2
<1>5. CASE swap
  <2>1. Pass(tr, r, s, swap) = [c |-> -(r * tr.c) - s, a |-> 1 - tr.a]
    BY <1>5 DEF Pass
  <2> QED
    BY <1>1, <1>2, <1>3, <1>4, <2>1 DEF Carries, Triples
<1>6. CASE ~ swap
  <2>1. Pass(tr, r, s, swap) = [c |-> r * tr.c + s, a |-> tr.a]
    BY <1>6 DEF Pass
  <2> QED
    BY <1>1, <1>2, <1>3, <1>4, <2>1 DEF Carries, Triples
<1> QED
  BY <1>5, <1>6

(* A hop, whatever its factor, decides an undecided triple, and rightly.   *)
THEOREM PassDecides ==
  ASSUME NEW tr, Undecided(tr),
         NEW r \in Factors, NEW s \in Offsets(r), NEW swap \in BOOLEAN
  PROVE  Carries(Pass(tr, r, s, swap), FALSE)
<1>1. r * tr.c = 0 /\ s \in Nat /\ s >= 1
  BY DrawType, ProductGrows DEF Undecided, Triples
<1>2. CASE swap
  BY <1>1, <1>2 DEF Pass, Carries, Undecided, Triples
<1>3. CASE ~ swap
  BY <1>1, <1>3 DEF Pass, Carries, Undecided, Triples
<1> QED
  BY <1>2, <1>3

(* The selection returns the answer that the triple carries.               *)
THEOREM SelectReturns ==
  ASSUME NEW tr, NEW yes \in BOOLEAN, Carries(tr, yes)
  PROVE  Select(tr) = (IF yes THEN 1 ELSE 0)
  BY DEF Carries, Triples, Select

(* A hop whose factor is 1 may reverse the answer: a triple that carries   *)
(* yes, or no, with c next to zero becomes one that selects the opposite.  *)
THEOREM FactorOneReverses ==
  /\ Carries([c |-> -1, a |-> 1], TRUE)
  /\ Select(Pass([c |-> -1, a |-> 1], 1, 1, TRUE)) = 0
  /\ Carries([c |-> -1, a |-> 0], FALSE)
  /\ Select(Pass([c |-> -1, a |-> 0], 1, 1, TRUE)) = 1
  BY DEF Carries, Triples, Pass, Select

-----------------------------------------------------------------------------
(* The inductive invariant.  The triples of both rounds are numbered, and  *)
(* pass the members in that order; a stream holds those that one end has   *)
(* passed and the other has not.                                           *)

MemberStates == {"size", "negotiate", "filter", "ring", "decrypt", "done", "crashed", "stuck"}
LeaderStates == {"sizes", "filters", "ring", "share", "collect", "done", "crashed", "error"}

Alive(m) == pc[m] \notin {"crashed", "stuck"}

(* The triples up to the end of round r, of which the third has none; the  *)
(* ones of the rounds before the leader's; the ones it has sent.           *)
Total(r) == IF r = 1 THEN Size * (N - 1) ELSE Size * (N - 1) + Size
R == round[leader]
Base == IF R = 1 THEN 0 ELSE Total(1)
Sent == Base + sent

(* What triple g is to answer: whether the filter of a member has an       *)
(* element, and in round 2 whether enough of the filters have.             *)
AskedMember(g) == MemberAt((g - 1) % (N - 1))
AskedElement(g) == input[leader][((g - 1) \div (N - 1)) + 1]
Answers == [g \in 1..Total(3) |->
              IF g <= Total(1) THEN bits[AskedMember(g)][AskedElement(g)] = NumHash
                               ELSE counts[g - Total(1)] >= threshold - 1]

(* The triples from number g + 1 to number n, as a member has passed them  *)
(* on, and as the leader has sent them.                                    *)
Flows(s, g, n, answers, spoilt) ==
    /\ s \in Seq(Triples)
    /\ Len(s) = n - g
    /\ ~ spoilt => \A k \in 1..Len(s) : Carries(s[k], answers[g + k])

Starts(s, g, n, answers) ==
    /\ s \in Seq(Triples)
    /\ Len(s) = n - g
    /\ \A k \in 1..Len(s) : \/ Carries(s[k], answers[g + k])
                            \/ Undecided(s[k]) /\ ~ answers[g + k]

Batch(r) == [batch |-> r]
Announced(n) == [elements |-> n]

Shaped(n) == n = [p \in Parties |-> [q \in Parties |-> n[p][q]]]

Types ==
    /\ leader \in Parties
    /\ input \in [Parties -> Seq(Elements)]
    /\ bits \in [Members -> [Elements -> 0..NumHash]]
    /\ threshold \in 2..N
    /\ pc \in [Parties -> MemberStates \union LeaderStates]
    /\ pc[leader] \in LeaderStates
    /\ \A m \in Members : pc[m] \in MemberStates
    /\ round \in [Parties -> 1..3]
    /\ Shaped(net)
    /\ elements \in [Parties -> Nat]
    /\ sent \in Nat
    /\ scp \in Seq(Triples)
    /\ passed \in [Parties -> Nat]
    /\ served \in SUBSET Members /\ served # Members
    /\ ones \in BOOLEAN
    /\ R # 1 => counts \in [1..Size -> Nat]

(* How far the leader is.                                                  *)
Leading ==
    /\ pc[leader] \in {"sizes", "filters", "error"} =>
         R = 1 /\ sent = 0 /\ scp = <<>> /\ result = {}
    /\ pc[leader] = "ring" => R \in {1, 2}
    /\ pc[leader] \in {"sizes", "ring", "done"} => served = {}
    /\ pc[leader] \in {"share", "collect"} =>
         /\ Sent = Total(R)
         /\ \A m \in Members : passed[m] = Total(R)
    /\ pc[leader] \in {"share", "collect"} => leader = N - 1 /\ Len(scp) = Items
    /\ pc[leader] = "done" => R = 3 \/ Size = 0
    /\ Sent <= Total(R)

(* The members pass the triples in the order of the chain.                 *)
InOrder == /\ \A m \in Members : passed[m] <= Sent
           /\ \A m, q \in Members : q < m => passed[m] <= passed[q]

(* A member after its answer to the batch of round r.                      *)
After(m, r) == /\ r = 1 => pc[m] = "ring" /\ round[m] = 2
               /\ r = 2 => pc[m] = "decrypt" /\ round[m] = 3
               /\ r = 3 => pc[m] = "done"

Deciding(m) == pc[m] = "decrypt" /\ round[m] = R

(* A member after its filter.                                              *)
Entered == IF Size = 0 THEN "done" ELSE "ring"

(* Where a member is, by itself and with respect to the leader.            *)
Standing(m) ==
    /\ pc[m] \in {"size", "negotiate", "filter"} => round[m] = 1 /\ passed[m] = 0 /\ Sent = 0
    /\ pc[m] \in {"filter", "ring", "decrypt"} => elements[m] = Size
    /\ pc[m] \in {"ring", "decrypt"} => Size # 0
    /\ pc[m] = "ring" => round[m] \in {1, 2} /\ passed[m] < Total(round[m])
    /\ pc[m] = "decrypt" => passed[m] = Total(round[m])
    /\ pc[m] = "done" => round[m] = 3 \/ Size = 0
    /\ Alive(m) => R <= round[m]

InStep(m) ==
    Alive(m) =>
      /\ pc[leader] = "sizes" => pc[m] \in {"size", "negotiate"}
      /\ pc[leader] = "filters" => pc[m] \in {"negotiate", "filter", Entered} /\ round[m] = 1
      /\ pc[leader] = "filters" /\ m \in served => pc[m] = Entered
      /\ pc[leader] = "ring" => pc[m] \in {"ring", "decrypt"} /\ round[m] = R
      /\ pc[leader] = "share" => \/ Deciding(m)
                                 \/ m \in served /\ After(m, R)
      /\ pc[leader] = "collect" => \/ After(m, R)
                                   \/ m \notin served /\ Deciding(m)

(* From member to member.                                                  *)
Across(m, q) == IF NextHop(m) = q THEN Flows(net[m][q], passed[q], passed[m], Answers, ones)
                                  ELSE net[m][q] = <<>>

(* From the leader to a member that is alive.                              *)
Down(m) ==
    LET stream == net[leader][m] IN
    /\ pc[m] \in {"size", "filter", "done"} => stream = <<>>
    /\ pc[m] = "negotiate" => stream = <<>> \/ stream = <<Announced(Size)>>
    /\ pc[m] = "ring" => IF m = First THEN Starts(stream, passed[m], Sent, Answers)
                                      ELSE stream = <<>>
    /\ pc[m] = "decrypt" => stream = <<>> \/ stream = <<Batch(round[m])>>
    /\ pc[leader] = "sizes" /\ Alive(m) => stream = <<>>
    /\ pc[leader] = "ring" /\ pc[m] = "decrypt" => stream = <<>>
    /\ pc[leader] = "share" /\ m \notin served /\ Alive(m) => stream = <<>>
    /\ pc[leader] \in {"share", "collect"} /\ Alive(m) /\ ~ Deciding(m) => stream = <<>>

(* From a member to the leader.                                            *)
Up(m) ==
    LET stream == net[m][leader] IN
    /\ pc[leader] = "sizes" => /\ pc[m] = "size" => stream = <<>>
                               /\ stream = <<>> \/ stream = <<[size |-> Len(input[m])]>>
    /\ pc[leader] = "filters" => /\ m \in served => stream = <<>>
                                 /\ pc[m] \in {"negotiate", "filter"} => stream = <<>>
                                 /\ stream = <<>> \/ stream = <<[filter |-> bits[m]]>>
    /\ pc[leader] = "ring" =>
         IF NextHop(m) = leader THEN Flows(stream, Base + Len(scp), passed[m], Answers, ones)
                                ELSE stream = <<>>
    /\ pc[leader] = "share" => /\ m \notin served \/ Deciding(m) => stream = <<>>
                               /\ stream = <<>> \/ stream = <<Batch(R)>>
    /\ pc[leader] = "collect" => /\ m \in served \/ Deciding(m) => stream = <<>>
                                 /\ stream = <<>> \/ stream = <<Batch(R)>>

(* What the leader has received, counted and found.                        *)
Found ==
    /\ Flows(scp, Base, Base + Len(scp), Answers, ones)
    /\ R # 1 /\ ~ ones => \A i \in 1..Size : counts[i] = Cardinality(Hits(i))
    /\ pc[leader] = "done" /\ ~ ones => result = {i \in 1..Size : Answers[Total(1) + i]}

IInv == /\ Types
        /\ Leading
        /\ InOrder
        /\ \A m \in Members : Standing(m) /\ InStep(m)
        /\ \A m, q \in Members : m # q => Across(m, q)
        /\ \A m \in Members : Down(m) /\ Up(m)
        /\ Found

-----------------------------------------------------------------------------
(* What is read from a stream, and what is put on it.                      *)
LEMMA FlowTaken ==
  ASSUME NEW s, NEW g \in Nat, NEW n \in Nat, NEW answers, NEW spoilt, Flows(s, g, n, answers, spoilt), s # <<>>
  PROVE  /\ g < n /\ Head(s) \in Triples
         /\ ~ spoilt => Carries(Head(s), answers[g + 1])
         /\ Flows(Tail(s), g + 1, n, answers, spoilt)
<1>1. s \in Seq(Triples) /\ Len(s) = n - g /\ (~ spoilt => \A k \in 1..Len(s) : Carries(s[k], answers[g + k]))
  BY DEF Flows
<1>2. /\ Head(s) \in Triples /\ Tail(s) \in Seq(Triples) /\ Len(Tail(s)) = Len(s) - 1
      /\ \A k \in 1..Len(Tail(s)) : Tail(s)[k] = s[k + 1]
      /\ Head(s) = s[1] /\ Len(s) \in Nat /\ Len(s) # 0
  BY <1>1, HeadTailProperties, EmptySeq, LenProperties
<1>3. \A k \in 1..Len(Tail(s)) : k + 1 \in 1..Len(s) /\ g + (k + 1) = (g + 1) + k
  BY <1>2
<1>4. ~ spoilt => \A k \in 1..Len(Tail(s)) : Carries(Tail(s)[k], answers[(g + 1) + k])
  BY <1>1, <1>2, <1>3
<1>5. 1 \in 1..Len(s) /\ g < n /\ Len(Tail(s)) = n - (g + 1)
  BY <1>1, <1>2
<1> QED
  BY <1>1, <1>2, <1>4, <1>5 DEF Flows

(* A triple that carries its answer keeps the stream a flow.               *)
LEMMA FlowPut ==
  ASSUME NEW s, NEW g \in Nat, NEW n \in Nat, NEW answers, NEW spoilt, Flows(s, g, n, answers, spoilt),
         NEW tr \in Triples, ~ spoilt => Carries(tr, answers[n + 1])
  PROVE  Flows(Append(s, tr), g, n + 1, answers, spoilt)
<1>1. s \in Seq(Triples) /\ Len(s) = n - g /\ (~ spoilt => \A k \in 1..Len(s) : Carries(s[k], answers[g + k]))
  BY DEF Flows
<1>2. /\ Append(s, tr) \in Seq(Triples) /\ Len(Append(s, tr)) = Len(s) + 1
      /\ \A k \in 1..Len(s) : Append(s, tr)[k] = s[k]
      /\ Append(s, tr)[Len(s) + 1] = tr /\ Len(s) \in Nat
  BY <1>1, AppendProperties, LenProperties
<1>3. \A k \in 1..(Len(s) + 1) : k \in 1..Len(s) \/ k = Len(s) + 1
  BY <1>2
<1>4. g + (Len(s) + 1) = n + 1
  BY <1>1, <1>2
<1>5. ~ spoilt => \A k \in 1..(Len(s) + 1) : Carries(Append(s, tr)[k], answers[g + k])
  BY <1>1, <1>2, <1>3, <1>4
<1>6. Len(Append(s, tr)) = (n + 1) - g
  BY <1>1, <1>2
<1> QED
  BY <1>2, <1>5, <1>6 DEF Flows

(* What a member reads from the stream of the leader.                      *)
LEMMA StartTaken ==
  ASSUME NEW s, NEW g \in Nat, NEW n \in Nat, NEW answers, Starts(s, g, n, answers), s # <<>>
  PROVE  /\ g < n /\ Head(s) \in Triples
         /\ \/ Carries(Head(s), answers[g + 1])
            \/ Undecided(Head(s)) /\ ~ answers[g + 1]
         /\ Starts(Tail(s), g + 1, n, answers)
<1>1. s \in Seq(Triples) /\ Len(s) = n - g
      /\ \A k \in 1..Len(s) : Carries(s[k], answers[g + k]) \/ (Undecided(s[k]) /\ ~ answers[g + k])
  BY DEF Starts
<1>2. /\ Head(s) \in Triples /\ Tail(s) \in Seq(Triples) /\ Len(Tail(s)) = Len(s) - 1
      /\ \A k \in 1..Len(Tail(s)) : Tail(s)[k] = s[k + 1]
      /\ Head(s) = s[1] /\ Len(s) \in Nat /\ Len(s) # 0
  BY <1>1, HeadTailProperties, EmptySeq, LenProperties
<1>3. \A k \in 1..Len(Tail(s)) : k + 1 \in 1..Len(s) /\ g + (k + 1) = (g + 1) + k
  BY <1>2
<1>4. \A k \in 1..Len(Tail(s)) : \/ Carries(Tail(s)[k], answers[(g + 1) + k])
                                 \/ Undecided(Tail(s)[k]) /\ ~ answers[(g + 1) + k]
  BY <1>1, <1>2, <1>3
<1>5. 1 \in 1..Len(s) /\ g < n /\ Len(Tail(s)) = n - (g + 1)
  BY <1>1, <1>2
<1> QED
  BY <1>1, <1>2, <1>4, <1>5 DEF Starts

(* What the leader adds to its stream to the first member.                 *)
LEMMA StartPut ==
  ASSUME NEW s, NEW g \in Nat, NEW n \in Nat, NEW answers, Starts(s, g, n, answers),
         NEW tr \in Triples, Carries(tr, answers[n + 1]) \/ (Undecided(tr) /\ ~ answers[n + 1])
  PROVE  Starts(Append(s, tr), g, n + 1, answers)
<1>1. s \in Seq(Triples) /\ Len(s) = n - g
      /\ \A k \in 1..Len(s) : Carries(s[k], answers[g + k]) \/ (Undecided(s[k]) /\ ~ answers[g + k])
  BY DEF Starts
<1>2. /\ Append(s, tr) \in Seq(Triples) /\ Len(Append(s, tr)) = Len(s) + 1
      /\ \A k \in 1..Len(s) : Append(s, tr)[k] = s[k]
      /\ Append(s, tr)[Len(s) + 1] = tr /\ Len(s) \in Nat
  BY <1>1, AppendProperties, LenProperties
<1>3. \A k \in 1..(Len(s) + 1) : k \in 1..Len(s) \/ k = Len(s) + 1
  BY <1>2
<1>4. g + (Len(s) + 1) = n + 1
  BY <1>1, <1>2
<1>5. \A k \in 1..(Len(s) + 1) : \/ Carries(Append(s, tr)[k], answers[g + k])
                                 \/ Undecided(Append(s, tr)[k]) /\ ~ answers[g + k]
  BY <1>1, <1>2, <1>3, <1>4
<1>6. Len(Append(s, tr)) = (n + 1) - g
  BY <1>1, <1>2
<1> QED
  BY <1>2, <1>5, <1>6 DEF Starts

(* An empty stream has nothing between its ends, and a stream without      *)
(* anything between its ends is empty.                                     *)
LEMMA StillFlow ==
  ASSUME NEW g \in Nat, NEW answers, NEW spoilt
  PROVE  /\ Flows(<<>>, g, g, answers, spoilt)
         /\ \A s : Flows(s, g, g, answers, spoilt) => s = <<>>
<1>1. <<>> \in Seq(Triples) /\ Len(<<>>) = 0 /\ g - g = 0
  OBVIOUS
<1>2. \A s \in Seq(Triples) : Len(s) = 0 => s = <<>>
  BY EmptySeq
<1> QED
  BY <1>1, <1>2 DEF Flows

(* The same for the stream of the leader to the first member.              *)
LEMMA StillStart ==
  ASSUME NEW g \in Nat, NEW answers
  PROVE  /\ Starts(<<>>, g, g, answers)
         /\ \A s : Starts(s, g, g, answers) => s = <<>>
<1>1. <<>> \in Seq(Triples) /\ Len(<<>>) = 0 /\ g - g = 0
  OBVIOUS
<1>2. \A s \in Seq(Triples) : Len(s) = 0 => s = <<>>
  BY EmptySeq
<1> QED
  BY <1>1, <1>2 DEF Starts

-----------------------------------------------------------------------------
(* The number of a triple is that of an element and a member.              *)
Number(i, k, n) == (i - 1) * n + k

(* Numbers and pairs correspond.                                           *)
LEMMA Numbering ==
  ASSUME NEW n \in Nat, n >= 1, NEW size \in Nat
  PROVE  /\ \A g \in 1..(size * n) : (g - 1) % n \in 0..(n - 1) /\ ((g - 1) \div n) + 1 \in 1..size
         /\ \A i \in 1..size, k \in 1..n : /\ Number(i, k, n) \in 1..(size * n)
                                           /\ (Number(i, k, n) - 1) % n = k - 1
                                           /\ ((Number(i, k, n) - 1) \div n) + 1 = i
<1>1. ASSUME NEW x \in Nat
      PROVE  x % n \in 0..(n - 1) /\ x \div n \in Nat /\ x = n * (x \div n) + (x % n)
  OBVIOUS
<1>2. ASSUME NEW g \in 1..(size * n) PROVE (g - 1) % n \in 0..(n - 1) /\ ((g - 1) \div n) + 1 \in 1..size
  <2> DEFINE d == (g - 1) \div n
             r == (g - 1) % n
  <2>1. g - 1 \in Nat /\ g - 1 < size * n
    OBVIOUS
  <2>2. r \in 0..(n - 1) /\ d \in Nat /\ g - 1 = n * d + r
    BY <1>1, <2>1
  <2> HIDE DEF d, r
  <2>3. d < size
    <3> SUFFICES ASSUME d >= size PROVE FALSE
      BY <2>2
    <3>1. n * d >= n * size
      BY <2>2
    <3>2. n * size = size * n
      OBVIOUS
    <3> QED
      BY <2>1, <2>2, <3>1, <3>2
  <2> QED
    BY <2>2, <2>3 DEF d, r
<1>3. ASSUME NEW i \in 1..size, NEW k \in 1..n
      PROVE  /\ Number(i, k, n) \in 1..(size * n)
             /\ (Number(i, k, n) - 1) % n = k - 1
             /\ ((Number(i, k, n) - 1) \div n) + 1 = i
  <2> DEFINE x == Number(i, k, n) - 1
             d == x \div n
             r == x % n
  <2>1. (i - 1) * n \in Nat
    OBVIOUS
  <2>2. x \in Nat /\ x = (i - 1) * n + k - 1
    BY <2>1 DEF Number
  <2>3. r \in 0..(n - 1) /\ d \in Nat /\ x = n * d + r
    BY <1>1, <2>2
  <2>4. x = n * (i - 1) + (k - 1) /\ Number(i, k, n) = x + 1
    BY <2>1, <2>2 DEF Number
  <2>4a. x \in Nat
    BY <2>2
  <2> HIDE DEF x, d, r
  <2>5. n * (d - (i - 1)) = (k - 1) - r
    BY <2>4a, <2>3, <2>4
  <2>6. d = i - 1
    <3>1. CASE d >= i
      <4>1. n * (d - (i - 1)) >= n * 1
        BY <2>3, <3>1
      <4> QED
        BY <2>3, <2>5, <4>1
    <3>2. CASE d <= i - 2
      <4>1. n * (d - (i - 1)) <= n * (-1)
        <5>1. d - (i - 1) <= -1
          BY <2>3, <3>2
        <5> QED
          BY <2>3, <5>1
      <4> QED
        BY <2>3, <2>5, <4>1
    <3> QED
      BY <2>3, <3>1, <3>2
  <2>7. r = k - 1
    BY <2>3, <2>4, <2>6
  <2>8. (i - 1) * n + k <= size * n
    <3>1. (i - 1) * n <= (size - 1) * n
      OBVIOUS
    <3>2. (size - 1) * n + n = size * n
      OBVIOUS
    <3> QED
      BY <2>1, <3>1, <3>2
  <2> QED
    BY <2>1, <2>4, <2>6, <2>7, <2>8 DEF d, r, x, Number
<1> QED
  BY <1>2, <1>3

-----------------------------------------------------------------------------
(* The chain and the inputs do not change, nor, as long as the leader's    *)
(* round does not, do the numbers of the triples and what they answer.     *)
Same == /\ leader' = leader /\ input' = input /\ bits' = bits /\ threshold' = threshold
        /\ Members' = Members /\ First' = First /\ Last' = Last
        /\ Size' = Size /\ Entered' = Entered /\ \A r : Total(r)' = Total(r)
        /\ R' = R /\ Base' = Base /\ Items' = Items /\ Answers' = Answers
        /\ sent' = sent => Sent' = Sent
        /\ \A m \in Members : Prev(m)' = Prev(m) /\ NextHop(m)' = NextHop(m)
        /\ \A i : Hits(i)' = Hits(i)

(* The leader, the inputs and the filters do not change.                   *)
LEMMA Fixed ==
  ASSUME UNCHANGED chosen
  PROVE  /\ leader' = leader /\ input' = input /\ bits' = bits /\ threshold' = threshold
         /\ Members' = Members /\ First' = First /\ Last' = Last
         /\ Size' = Size /\ Entered' = Entered /\ \A r : Total(r)' = Total(r)
         /\ \A m \in Members : Prev(m)' = Prev(m) /\ NextHop(m)' = NextHop(m)
         /\ \A i : Hits(i)' = Hits(i)
<1>1. leader' = leader /\ input' = input /\ bits' = bits /\ threshold' = threshold
  BY DEF chosen
<1>2. Members' = Members
  BY <1>1 DEF Members
<1>3. First' = First /\ Last' = Last
  BY <1>1, <1>2 DEF First, Last, Position, Members
<1>4. \A m \in Members : Prev(m)' = Prev(m) /\ NextHop(m)' = NextHop(m)
  BY <1>1 DEF Prev, NextHop, ChannelTo, Position, Members
<1>5. Size' = Size
  BY <1>1 DEF Size
<1>6. Entered' = Entered /\ \A r : Total(r)' = Total(r)
  BY <1>5 DEF Entered, Total
<1>7. \A i : Hits(i)' = Hits(i)
  BY <1>1, <1>2 DEF Hits
<1> QED
  BY <1>1, <1>2, <1>3, <1>4, <1>5, <1>6, <1>7

(* What the triples answer changes with the counts only.                   *)
LEMMA AnswersStay ==
  ASSUME UNCHANGED chosen, counts' = counts
  PROVE  Answers' = Answers
<1>1. leader' = leader /\ input' = input /\ bits' = bits /\ threshold' = threshold
  BY DEF chosen
<1>2. \A k : MemberAt(k)' = MemberAt(k)
  BY <1>1 DEF MemberAt, Position, Members
<1>3. \A g : AskedMember(g)' = AskedMember(g) /\ AskedElement(g)' = AskedElement(g)
  BY <1>1, <1>2 DEF AskedMember, AskedElement
<1>4. Total(3)' = Total(3) /\ Total(1)' = Total(1)
  BY Fixed
<1> QED
  BY <1>1, <1>3, <1>4 DEF Answers

(* A step that keeps the leader's round and counts keeps all of these.     *)
LEMMA Untouched ==
  ASSUME UNCHANGED chosen, R' = R, counts' = counts
  PROVE  Same
<1>1. leader' = leader /\ input' = input /\ bits' = bits /\ threshold' = threshold
  BY DEF chosen
<1>2. Base' = Base
  BY Fixed DEF Base
<1>3. Items' = Items
  BY Fixed DEF Items, R
<1>6. Answers' = Answers
  BY AnswersStay
<1>7. sent' = sent => Sent' = Sent
  BY <1>2 DEF Sent
<1> QED
  BY <1>2, <1>3, <1>6, <1>7, Fixed DEF Same

(* The parties, and how many triples there are.                            *)
LEMMA Ground ==
  ASSUME Types, Beh21Assumption
  PROVE  /\ N \in Nat /\ N >= 2 /\ leader \in Parties /\ leader \in Nat /\ leader <= N - 1
         /\ \A m \in Members : m \in Parties /\ m # leader /\ m \in Nat /\ m <= N - 1
         /\ \A p \in Parties : p # leader => p \in Members
         /\ \A m \in Members : passed[m] \in Nat /\ round[m] \in 1..3
         /\ Size \in Nat /\ Total(1) \in Nat /\ Size <= Total(1) /\ (Size = 0 => Total(1) = 0)
         /\ Total(2) = Total(1) + Size /\ Total(3) = Total(1) + Size
         /\ \A r \in 1..3 : Total(r) \in Nat
         /\ R \in 1..3 /\ Base \in Nat /\ Items \in Nat /\ sent \in Nat
         /\ (R = 1 => Base = 0 /\ Items = Total(1)) /\ (R # 1 => Base = Total(1) /\ Items = Size)
         /\ Sent = Base + sent /\ Sent \in Nat /\ Base + Items = Total(R)
<1>1. /\ N \in Nat /\ N >= 2 /\ leader \in Parties /\ leader \in Nat /\ leader <= N - 1
      /\ \A m \in Members : m \in Parties /\ m # leader /\ m \in Nat /\ m <= N - 1
      /\ \A p \in Parties : p # leader => p \in Members
  BY DEF Types, Beh21Assumption, Members, Parties
<1>2. Size \in Nat
  BY <1>1, LenProperties DEF Size, Types
<1>3. Size * (N - 1) \in Nat /\ Size <= Size * (N - 1) /\ (Size = 0 => Size * (N - 1) = 0)
  <2>1. Size * (N - 1) = Size + Size * (N - 2)
    BY <1>1, <1>2
  <2>2. Size * (N - 2) \in Nat
    BY <1>1, <1>2
  <2> QED
    BY <1>2, <2>1, <2>2
<1>4. /\ Total(1) \in Nat /\ Size <= Total(1) /\ (Size = 0 => Total(1) = 0)
      /\ Total(2) = Total(1) + Size /\ Total(3) = Total(1) + Size
      /\ \A r \in 1..3 : Total(r) \in Nat
  BY <1>2, <1>3 DEF Total
<1>5. R \in 1..3 /\ sent \in Nat
  BY <1>1 DEF Types, R
<1>6. /\ R = 1 => Base = 0 /\ Items = Total(1) /\ Total(R) = Total(1)
      /\ R # 1 => Base = Total(1) /\ Items = Size /\ Total(R) = Total(1) + Size
  BY <1>4, <1>5 DEF Base, Items, Total, R
<1>7. \A m \in Members : passed[m] \in Nat /\ round[m] \in 1..3
  BY <1>1 DEF Types
<1> QED
  BY <1>1, <1>2, <1>4, <1>5, <1>6, <1>7 DEF Sent

(* Who a member reads from and writes to.                                  *)
LEMMA Neighbours ==
  ASSUME Types, Beh21Assumption
  PROVE  /\ First \in Members /\ Last \in Members /\ Prev(First) \in {leader, None}
         /\ \A q \in Members : First <= q
         /\ NextHop(Last) \in {leader, None}
         /\ NextHop(Last) = leader => leader = N - 1 /\ \A q \in Members : q <= Last
         /\ \A m \in Members :
              /\ Prev(m) \in Parties \union {None} /\ Prev(m) # m
              /\ Prev(m) = leader => m = First
              /\ Prev(m) \in Members => \A q \in Members : q < m => q <= Prev(m)
              /\ NextHop(m) \in Parties \union {None} /\ NextHop(m) # m
              /\ NextHop(m) = leader /\ leader = N - 1 => m = Last
              /\ NextHop(m) \in Members => m < NextHop(m) /\ Prev(NextHop(m)) = m
<1>1. Positions /\ Hops /\ leader \in Nat /\ leader <= N - 1 /\ N \in Nat /\ N >= 2
  BY ChainPositions, ChainHops DEF Types, Beh21Assumption, Parties
<1>2. \A m \in Members : m \in Nat /\ m <= N - 1 /\ m # leader
  BY DEF Members, Parties
<1>3. \A m \in Nat : m <= N - 1 => m \in Parties /\ (m # leader => m \in Members)
  BY DEF Members, Parties
<1>4. First \in Members /\ Last \in Members /\ Prev(First) \in {leader, None}
      /\ \A q \in Members : First <= q
  <2>1. First \in Members /\ Last \in Members
    BY <1>1 DEF Positions
  <2>2. \A q \in Members : First <= q
    BY <1>1, <1>2 DEF Positions
  <2>3. Prev(First) \in {leader, None}
    BY <1>1, <2>1 DEF Positions, Hops
  <2> QED
    BY <2>1, <2>2, <2>3
<1>5. NextHop(Last) \in {leader, None}
  BY <1>1 DEF Positions, Hops
<1>6. NextHop(Last) = leader => leader = N - 1 /\ \A q \in Members : q <= Last
  BY <1>1, <1>2 DEF Positions, Hops, None
<1>7. ASSUME NEW m \in Members
      PROVE  /\ Prev(m) \in Parties \union {None} /\ Prev(m) # m
             /\ Prev(m) = leader => m = First
             /\ Prev(m) \in Members => \A q \in Members : q < m => q <= Prev(m)
             /\ NextHop(m) \in Parties \union {None} /\ NextHop(m) # m
             /\ NextHop(m) = leader /\ leader = N - 1 => m = Last
             /\ NextHop(m) \in Members => m < NextHop(m) /\ Prev(NextHop(m)) = m
  <2>1. m \in Nat /\ m <= N - 1 /\ m # leader
    BY <1>2
  <2>2. Prev(m) \in Parties \union {None} /\ Prev(m) # m
    BY <1>1, <1>3, <2>1 DEF Hops, None
  <2>3. NextHop(m) \in Parties \union {None} /\ NextHop(m) # m
    BY <1>1, <1>3, <2>1 DEF Hops, None
  <2>4. Prev(m) = leader => m = First
    BY <1>1, <2>1 DEF Hops, Positions, None
  <2>5. Prev(m) \in Members => \A q \in Members : q < m => q <= Prev(m)
    BY <1>1, <1>2, <2>1 DEF Hops, None
  <2>6. NextHop(m) = leader /\ leader = N - 1 => m = Last
    BY <1>1, <2>1 DEF Hops, Positions, None
  <2>7. NextHop(m) \in Members => m < NextHop(m) /\ Prev(NextHop(m)) = m
    <3> HAVE NextHop(m) \in Members
    <3>1. NextHop(m) = IF m + 1 = leader THEN m + 2 ELSE m + 1
      BY <1>1, <1>2, <2>1 DEF Hops, None
    <3> QED
      BY <1>1, <2>1, <3>1 DEF Hops
  <2> QED
    BY <2>2, <2>3, <2>4, <2>5, <2>6, <2>7
<1> QED
  BY <1>4, <1>5, <1>6, <1>7

(* One stream changes, and no other.                                       *)
LEMMA OnePut ==
  ASSUME NEW n, Shaped(n), NEW p \in Parties, NEW q \in Parties, NEW f
  PROVE  /\ Shaped(Put(p, q, f, n))
         /\ \A x, y \in Parties :
              Put(p, q, f, n)[x][y] = IF x = p /\ y = q THEN Append(n[x][y], f) ELSE n[x][y]
BY DEF Shaped, Put

-----------------------------------------------------------------------------
(* A party that goes, or that waits for ever, takes nothing with it.       *)
LEMMA Dying ==
  ASSUME IInv, Beh21Assumption, NEW p \in Parties, NEW to, pc[p] # "done",
         \/ to = "crashed"
         \/ p \in Members /\ to = "stuck"
         \/ p = leader /\ to = "error" /\ pc[leader] = "sizes",
         pc' = [pc EXCEPT ![p] = to],
         UNCHANGED <<chosen, net, progress>>
  PROVE  IInv'
<1>1. Types /\ UNCHANGED chosen /\ UNCHANGED progress /\ net' = net
  BY DEF IInv
<1>2. Same /\ UNCHANGED <<round, elements, sent, scp, counts, passed, served, result, ones>>
  BY Untouched DEF R, chosen, progress
<1>3. \A q \in Parties : pc'[q] = IF q = p THEN to ELSE pc[q]
  BY <1>1 DEF Types
<1>4. Sent' = Sent /\ \A m \in Members : m \in Parties /\ m # leader
  BY <1>1, <1>2, Ground DEF Same
<1>4a. leader \in Parties
  BY <1>1 DEF Types
<1>5. Types'
  BY <1>1, <1>2, <1>3, <1>4, <1>4a DEF Types, Same, MemberStates, LeaderStates, Shaped, chosen, progress
<1>6. Leading'
  BY <1>1, <1>2, <1>3, <1>4, <1>4a DEF Same, IInv, Leading
<1>7. InOrder'
  BY <1>2, <1>4 DEF Same, IInv, InOrder
<1>8. \A m \in Members : Standing(m)'
  BY <1>2, <1>3, <1>4 DEF Same, IInv, Standing, Alive
<1>9. \A m \in Members : InStep(m)'
  <2> TAKE m \in Members
  <2>1. CASE p \in {m, leader}
    BY <1>2, <1>3, <1>4, <1>4a, <2>1 DEF Same, InStep, Alive
  <2>2. CASE p \notin {m, leader}
    <3>1. pc'[m] = pc[m] /\ pc'[leader'] = pc[leader]
      BY <1>2, <1>3, <1>4, <1>4a, <2>2 DEF Same
    <3> QED
      BY <1>2, <1>4, <3>1 DEF Same, IInv, InStep, Alive, Deciding, After
  <2> QED
    BY <2>1, <2>2
<1>10. \A m, q \in Members : m # q => Across(m, q)'
  BY <1>1, <1>2, <1>3, <1>4 DEF Same, IInv, Across
<1>11. \A m \in Members : Down(m)'
  BY <1>1, <1>2, <1>3, <1>4, <1>4a DEF Same, IInv, Down, Alive, Deciding
<1>12. \A m \in Members : Up(m)'
  <2> TAKE m \in Members
  <2>1. CASE p = leader
    <3>1. pc'[leader'] \notin {"sizes", "filters", "ring", "share", "collect"}
      BY <1>1, <1>2, <1>3, <1>4a, <2>1 DEF Same
    <3> QED
      BY <3>1 DEF Up
  <2>2. CASE p # leader
    <3>1. /\ Up(m) /\ pc'[leader'] = pc[leader] /\ net' = net
          /\ pc'[m] = pc[m] \/ pc'[m] = to
      BY <1>1, <1>2, <1>3, <1>4, <1>4a, <2>2 DEF Same, IInv, chosen, progress
    <3> QED
      BY <1>1, <1>2, <1>4, <2>2, <3>1 DEF Same, Up, Deciding
  <2> QED
    BY <2>1, <2>2
<1>13. Found'
  BY <1>1, <1>2, <1>3, <1>4, <1>4a DEF Same, IInv, Found
<1> QED
  BY <1>2, <1>5, <1>6, <1>7, <1>8, <1>9, <1>10, <1>11, <1>12, <1>13 DEF IInv, Same

-----------------------------------------------------------------------------
(* A member that has not sent its filter keeps the leader from the ring.   *)
LEMMA Negotiating ==
  ASSUME IInv, Beh21Assumption, NEW m \in Members, pc[m] \in {"size", "negotiate", "filter"}
  PROVE  pc[leader] \in {"sizes", "filters", "crashed", "error", "done"}
<1>1. InStep(m) /\ Alive(m) /\ pc[leader] \in LeaderStates /\ R \in 1..3
  BY Ground DEF IInv, Alive, Types
<1>2. ~ Deciding(m) /\ ~ After(m, R)
  BY <1>1 DEF Deciding, After
<1> QED
  BY <1>1, <1>2 DEF InStep, LeaderStates

(* The steps of a member.                                                  *)
LEMMA SendSizeKeeps ==
  ASSUME IInv, Beh21Assumption, NEW m \in Members, SendSize(m)
  PROVE  IInv'
<1>1. Types /\ UNCHANGED chosen /\ UNCHANGED progress /\ m \in Parties /\ m # leader /\ R \in 1..3
  BY Ground DEF IInv, SendSize
<1>2. Same /\ UNCHANGED <<round, elements, sent, scp, counts, passed, served, result, ones>>
  BY <1>1, Untouched DEF R, chosen, progress
<1>3. pc[m] = "size" /\ \A q \in Parties : pc'[q] = IF q = m THEN "negotiate" ELSE pc[q]
  BY <1>1 DEF Types, SendSize, Goto
<1>4. Sent' = Sent /\ leader \in Parties /\ \A q \in Members : q \in Parties /\ q # leader
  BY <1>1, <1>2, Ground DEF Same
<1>5. /\ Shaped(net') /\ \A x, y \in Parties :
           net'[x][y] = IF x = m /\ y = leader THEN Append(net[x][y], [size |-> Len(input[m])]) ELSE net[x][y]
  <2>1. Shaped(net) /\ net' = Put(m, leader, [size |-> Len(input[m])], net)
    BY <1>1 DEF Types, SendSize
  <2> QED
    BY <1>1, <1>4, <2>1, OnePut
<1>6. pc[leader] \in {"sizes", "crashed", "error", "done"}
  BY <1>3, Negotiating DEF IInv, InStep, Alive, Entered
<1>7. Types'
  BY <1>1, <1>2, <1>3, <1>4, <1>5 DEF Types, Same, MemberStates, LeaderStates, SendSize, Goto
<1>8. Leading'
  BY <1>1, <1>2, <1>3, <1>4 DEF Same, IInv, Leading
<1>9. InOrder'
  BY <1>2, <1>4 DEF Same, IInv, InOrder
<1>10. \A q \in Members : Standing(q)'
  BY <1>2, <1>3, <1>4 DEF Same, IInv, Standing, Alive
<1>11. \A q \in Members : InStep(q)'
  BY <1>2, <1>3, <1>4, <1>6 DEF Same, IInv, InStep, Alive
<1>12. \A x, y \in Members : x # y => Across(x, y)'
  <2> TAKE x, y \in Members
  <2> HAVE x # y
  <2>1. net'[x][y] = net[x][y]
    BY <1>1, <1>4, <1>5
  <2>2. Across(x, y)
    BY DEF IInv
  <2> QED
    BY <1>2, <2>1, <2>2 DEF Same, Across
<1>13. \A q \in Members : Down(q)'
  BY <1>2, <1>3, <1>4, <1>5, <1>6 DEF Same, IInv, Down, Alive, Deciding
<1>14. \A q \in Members : Up(q)'
  <2>1. pc[leader] = "sizes" => net'[m][leader] = <<[size |-> Len(input[m])]>>
    <3>1. pc[leader] = "sizes" => net[m][leader] = <<>>
      BY <1>3 DEF IInv, Up
    <3>2. net'[m][leader] = Append(net[m][leader], [size |-> Len(input[m])])
      BY <1>1, <1>4, <1>5
    <3> QED
      BY <3>1, <3>2, ShortStreams
  <2> QED
    BY <1>2, <1>3, <1>4, <1>5, <1>6, <2>1 DEF Same, IInv, Up
<1>15. Found'
  BY <1>2, <1>3, <1>4 DEF Same, IInv, Found
<1> QED
  BY <1>2, <1>7, <1>8, <1>9, <1>10, <1>11, <1>12, <1>13, <1>14, <1>15 DEF IInv, Same

(* A member reads the leader's set size (OtMpsiMember::negotiateSetSize).  *)
LEMMA NegotiateKeeps ==
  ASSUME IInv, Beh21Assumption, NEW m \in Members, Negotiate(m)
  PROVE  IInv'
<1>1. /\ Types /\ m \in Parties /\ m # leader /\ R \in 1..3
      /\ UNCHANGED <<chosen, round, sent, scp, counts, passed, served, result, ones>>
  BY Ground DEF IInv, Negotiate
<1>2. Same /\ UNCHANGED <<round, sent, scp, counts, passed, served, result, ones>>
  BY <1>1, Untouched DEF R, chosen
<1>3. pc[m] = "negotiate" /\ \A q \in Parties : pc'[q] = IF q = m THEN "filter" ELSE pc[q]
  BY <1>1 DEF Types, Negotiate, Goto
<1>4. Sent' = Sent /\ leader \in Parties /\ \A q \in Members : q \in Parties /\ q # leader
  BY <1>1, <1>2, Ground DEF Same
<1>5. /\ Shaped(net') /\ \A x, y \in Parties :
           net'[x][y] = IF x = leader /\ y = m THEN Tail(net[x][y]) ELSE net[x][y]
  <2>1. Shaped(net) /\ net' = Take(leader, m, net) /\ leader \in Parties /\ m \in Parties
    BY <1>1, <1>4 DEF Types, Negotiate
  <2> QED
    BY <2>1 DEF Shaped, Take
<1>6. net[leader][m] = <<Announced(Size)>> /\ net'[leader][m] = <<>>
  <2>1. net[leader][m] = <<Announced(Size)>>
    BY <1>3 DEF IInv, Down, Negotiate, Has
  <2> QED
    BY <1>1, <1>4, <1>5, <2>1, ShortStreams
<1>60. pc[leader] \notin {"sizes"}
  BY <1>3, <1>6, ShortStreams DEF IInv, Down, Alive
<1>61. pc[leader] \in {"filters", "crashed", "error", "done"}
  BY <1>3, <1>60, Negotiating
<1>62. \A q \in Parties : elements'[q] = IF q = m THEN Size ELSE elements[q]
  <2>1. Frame(leader, m).elements = Size
    BY <1>6, ShortStreams DEF Frame, Announced
  <2> QED
    BY <1>1, <2>1 DEF Types, Negotiate
<1>7. Types'
  <2>1. elements' \in [Parties -> Nat]
    <3>1. Size \in Nat
      BY <1>1, Ground
    <3> QED
      BY <1>1, <1>62, <3>1 DEF Types, Negotiate
  <2>2. pc' \in [Parties -> MemberStates \union LeaderStates]
    BY <1>1 DEF Types, Negotiate, Goto, MemberStates
  <2> QED
    BY <1>1, <1>2, <1>3, <1>4, <1>5, <2>1, <2>2 DEF Types, Same, MemberStates
<1>8. Leading'
  BY <1>1, <1>2, <1>3, <1>4 DEF Same, IInv, Leading
<1>9. InOrder'
  BY <1>2, <1>4 DEF Same, IInv, InOrder
<1>10. \A q \in Members : Standing(q)'
  BY <1>2, <1>3, <1>4, <1>62 DEF Same, IInv, Standing, Alive
<1>11. \A q \in Members : InStep(q)'
  <2>1. pc[leader] = "filters" => m \notin served
    BY <1>3 DEF IInv, InStep, Alive, Entered
  <2> QED
    BY <1>2, <1>3, <1>4, <1>61, <2>1 DEF Same, IInv, InStep, Alive
<1>12. \A x, y \in Members : x # y => Across(x, y)'
  <2> TAKE x, y \in Members
  <2> HAVE x # y
  <2>1. net'[x][y] = net[x][y]
    BY <1>1, <1>4, <1>5
  <2>2. Across(x, y)
    BY DEF IInv
  <2> QED
    BY <1>2, <2>1, <2>2 DEF Same, Across
<1>13. \A q \in Members : Down(q)'
  BY <1>2, <1>3, <1>4, <1>5, <1>6, <1>61 DEF Same, IInv, Down, Alive, Deciding
<1>14. \A q \in Members : Up(q)'
  BY <1>2, <1>3, <1>4, <1>5, <1>61 DEF Same, IInv, Up
<1>15. Found'
  BY <1>2, <1>3, <1>4 DEF Same, IInv, Found
<1> QED
  BY <1>2, <1>7, <1>8, <1>9, <1>10, <1>11, <1>12, <1>13, <1>14, <1>15 DEF IInv, Same

(* A member sends its Bloom filter, and enters the ring if the leader has  *)
(* submitted anything.                                                     *)
LEMMA SendFilterKeeps ==
  ASSUME IInv, Beh21Assumption, NEW m \in Members, SendFilter(m)
  PROVE  IInv'
<1>1. Types /\ UNCHANGED chosen /\ UNCHANGED progress /\ m \in Parties /\ m # leader /\ R \in 1..3
  BY Ground DEF IInv, SendFilter
<1>2. Same /\ UNCHANGED <<round, elements, sent, scp, counts, passed, served, result, ones>>
  BY <1>1, Untouched DEF R, chosen, progress
<1>3. pc[m] = "filter" /\ \A q \in Parties : pc'[q] = IF q = m THEN Entered ELSE pc[q]
  <2>1. pc[m] = "filter" /\ elements[m] = Size
    BY DEF SendFilter, Goto, IInv, Standing
  <2> QED
    BY <1>1, <2>1 DEF Types, SendFilter, Goto, Entered
<1>4. Sent' = Sent /\ leader \in Parties /\ \A q \in Members : q \in Parties /\ q # leader
  BY <1>1, <1>2, Ground DEF Same
<1>5. /\ Shaped(net') /\ \A x, y \in Parties :
           net'[x][y] = IF x = m /\ y = leader THEN Append(net[x][y], [filter |-> bits[m]]) ELSE net[x][y]
  <2>1. Shaped(net) /\ net' = Put(m, leader, [filter |-> bits[m]], net)
    BY <1>1 DEF Types, SendFilter
  <2> QED
    BY <1>1, <1>4, <2>1, OnePut
<1>6. pc[leader] \in {"filters", "crashed", "error", "done"} /\ (pc[leader] = "filters" => m \notin served)
  BY <1>3, Negotiating DEF IInv, InStep, Alive, Entered
<1>60. Entered \in {"ring", "done"} /\ (Entered = "ring" <=> Size # 0) /\ (Entered = "done" <=> Size = 0)
  BY DEF Entered
<1>61. passed[m] = 0 /\ round[m] = 1 /\ R = 1 /\ elements[m] = Size /\ Sent = 0
  BY <1>1, <1>3 DEF IInv, Standing, Alive
<1>62. Size # 0 => passed[m] < Total(round[m])
  BY <1>1, <1>61, Ground
<1>7. Types'
  BY <1>1, <1>2, <1>3, <1>4, <1>5, <1>60 DEF Types, Same, MemberStates, LeaderStates, SendFilter, Goto
<1>8. Leading'
  BY <1>1, <1>2, <1>3, <1>4 DEF Same, IInv, Leading
<1>9. InOrder'
  BY <1>2, <1>4 DEF Same, IInv, InOrder
<1>10. \A q \in Members : Standing(q)'
  BY <1>2, <1>3, <1>4, <1>60, <1>61, <1>62 DEF Same, IInv, Standing, Alive
<1>11. \A q \in Members : InStep(q)'
  BY <1>2, <1>3, <1>4, <1>6 DEF Same, IInv, InStep, Alive
<1>12. \A x, y \in Members : x # y => Across(x, y)'
  <2> TAKE x, y \in Members
  <2> HAVE x # y
  <2>1. net'[x][y] = net[x][y]
    BY <1>1, <1>4, <1>5
  <2>2. Across(x, y)
    BY DEF IInv
  <2> QED
    BY <1>2, <2>1, <2>2 DEF Same, Across
<1>13. \A q \in Members : Down(q)'
  <2>1. net'[leader][m] = <<>>
    BY <1>1, <1>3, <1>4, <1>5 DEF IInv, Down
  <2>2. Starts(<<>>, passed[m], Sent, Answers)
    BY <1>61, StillStart
  <2> QED
    BY <1>2, <1>3, <1>4, <1>5, <1>6, <1>60, <2>1, <2>2 DEF Same, IInv, Down, Alive, Deciding
<1>14. \A q \in Members : Up(q)'
  <2>1. pc[leader] = "filters" => net'[m][leader] = <<[filter |-> bits[m]]>>
    <3>1. pc[leader] = "filters" => net[m][leader] = <<>>
      BY <1>3 DEF IInv, Up
    <3>2. net'[m][leader] = Append(net[m][leader], [filter |-> bits[m]])
      BY <1>1, <1>4, <1>5
    <3> QED
      BY <3>1, <3>2, ShortStreams
  <2> QED
    BY <1>2, <1>3, <1>4, <1>5, <1>6, <1>60, <2>1 DEF Same, IInv, Up
<1>15. Found'
  BY <1>2, <1>3, <1>4 DEF Same, IInv, Found
<1> QED
  BY <1>2, <1>7, <1>8, <1>9, <1>10, <1>11, <1>12, <1>13, <1>14, <1>15 DEF IInv, Same

-----------------------------------------------------------------------------
(* The answers are well-defined, for the rounds that have begun.           *)
LEMMA AnswersDecide ==
  ASSUME Types, Beh21Assumption, NEW g \in 1..Total(R)
  PROVE  /\ Answers[g] \in BOOLEAN
         /\ g <= Total(1) => Answers[g] = (bits[AskedMember(g)][AskedElement(g)] = NumHash)
         /\ g > Total(1) => /\ R # 1 /\ g - Total(1) \in 1..Size
                            /\ Answers[g] = (counts[g - Total(1)] >= threshold - 1)
<1>1. /\ R \in 1..3 /\ Total(2) = Total(1) + Size /\ Total(3) = Total(1) + Size
      /\ Total(1) \in Nat /\ Size \in Nat
  BY Ground
<1>2. g \in 1..Total(3) /\ g \in Nat
  BY <1>1
<1>3. CASE g <= Total(1)
  <2>1. Answers[g] = (bits[AskedMember(g)][AskedElement(g)] = NumHash)
    BY <1>2, <1>3 DEF Answers
  <2> QED
    BY <1>1, <1>2, <1>3, <2>1
<1>4. CASE g > Total(1)
  <2>1. R # 1 /\ g - Total(1) \in 1..Size
    BY <1>1, <1>2, <1>4
  <2>2. counts[g - Total(1)] \in Nat /\ threshold \in Nat
    BY <2>1 DEF Types, Beh21Assumption
  <2>3. Answers[g] = (counts[g - Total(1)] >= threshold - 1)
    BY <1>1, <1>2, <1>4 DEF Answers
  <2>4. Answers[g] \in BOOLEAN
    BY <2>2, <2>3
  <2> QED
    BY <1>1, <1>2, <1>4, <2>1, <2>3, <2>4
<1> QED
  BY <1>1, <1>2, <1>3, <1>4

(* What a member does to a triple.                                         *)
LEMMA PassType ==
  ASSUME NEW tr \in Triples, NEW draw \in Draws, NEW swap \in BOOLEAN
  PROVE  Pass(tr, draw[1], draw[2], swap) \in Triples
<1>1. draw[1] \in Factors /\ draw[2] \in Offsets(draw[1])
  BY DEF Draws
<1>2. draw[1] \in Nat /\ draw[2] \in Nat /\ tr.c \in Int /\ tr.a \in 0..1
  BY <1>1, DrawType DEF Triples
<1>3. draw[1] * tr.c \in Int
  BY <1>2
<1> QED
  BY <1>2, <1>3 DEF Pass, Triples

(* A hop keeps or settles the answer of a triple, unless its factor is 1.  *)
LEMMA PassAnswers ==
  ASSUME NEW tr, NEW yes \in BOOLEAN, NEW draw \in Draws, NEW swap \in BOOLEAN,
         \/ Carries(tr, yes) /\ draw[1] # 1
         \/ Undecided(tr) /\ ~ yes
  PROVE  Carries(Pass(tr, draw[1], draw[2], swap), yes)
<1>1. draw[1] \in Factors /\ draw[2] \in Offsets(draw[1])
  BY DEF Draws
<1>2. CASE Carries(tr, yes) /\ draw[1] # 1
  BY <1>1, <1>2, PassKeeps
<1>3. CASE Undecided(tr) /\ ~ yes
  <2>1. Carries(Pass(tr, draw[1], draw[2], swap), FALSE)
    BY <1>1, <1>3, PassDecides
  <2> QED
    BY <1>3, <2>1 DEF Carries
<1> QED
  BY <1>2, <1>3

(* What a member finds when it has something to read in the ring.          *)
LEMMA Arriving ==
  ASSUME IInv, Beh21Assumption, NEW m \in Members, pc[m] = "ring", Prev(m) # None, Has(Prev(m), m)
  PROVE  /\ Prev(m) \in Parties
         /\ \/ Prev(m) = leader /\ m = First /\ Starts(net[Prev(m)][m], passed[m], Sent, Answers)
            \/ /\ Prev(m) \in Members /\ m # First /\ NextHop(Prev(m)) = m
               /\ Flows(net[Prev(m)][m], passed[m], passed[Prev(m)], Answers, ones)
         /\ passed[m] < Sent
         /\ \A q \in Members : q < m => passed[m] < passed[q]
         /\ Head(net[Prev(m)][m]) \in Triples
         /\ Answers[passed[m] + 1] \in BOOLEAN
         /\ ~ ones => \/ Carries(Head(net[Prev(m)][m]), Answers[passed[m] + 1])
                      \/ Undecided(Head(net[Prev(m)][m])) /\ ~ Answers[passed[m] + 1]
<1> DEFINE s == net[Prev(m)][m]
<1>1. Types /\ s # <<>> /\ passed[m] \in Nat /\ Sent \in Nat /\ m \in Nat
  BY Ground DEF IInv, Has
<1>2. Prev(m) \in Parties /\ Prev(m) # m /\ (Prev(m) = leader \/ Prev(m) \in Members)
  BY <1>1, Neighbours DEF Members
<1>3. ASSUME Prev(m) = leader
      PROVE  /\ m = First /\ Starts(s, passed[m], Sent, Answers)
             /\ passed[m] < Sent /\ Head(s) \in Triples
             /\ \/ Carries(Head(s), Answers[passed[m] + 1])
                \/ Undecided(Head(s)) /\ ~ Answers[passed[m] + 1]
             /\ \A q \in Members : ~ q < m
  <2>1. m = First /\ Starts(s, passed[m], Sent, Answers)
    BY <1>1, <1>3, Neighbours DEF IInv, Down
  <2>2. /\ passed[m] < Sent /\ Head(s) \in Triples
        /\ \/ Carries(Head(s), Answers[passed[m] + 1])
           \/ Undecided(Head(s)) /\ ~ Answers[passed[m] + 1]
    <3> HIDE DEF s
    <3> QED
      BY <1>1, <2>1, StartTaken
  <2>3. \A q \in Members : ~ q < m
    BY <1>1, <2>1, Ground, Neighbours
  <2> QED
    <3> HIDE DEF s
    <3> QED
      BY <2>1, <2>2, <2>3
<1>4. ASSUME Prev(m) \in Members
      PROVE  /\ NextHop(Prev(m)) = m /\ Flows(s, passed[m], passed[Prev(m)], Answers, ones)
             /\ m # First /\ passed[m] < Sent /\ Head(s) \in Triples
             /\ ~ ones => Carries(Head(s), Answers[passed[m] + 1])
             /\ \A q \in Members : q < m => passed[m] < passed[q]
  <2>1. NextHop(Prev(m)) = m /\ Flows(s, passed[m], passed[Prev(m)], Answers, ones)
    BY <1>1, <1>2, <1>4 DEF IInv, Across
  <2>2. m # First
    BY <1>1, <1>4, Neighbours, Ground DEF None
  <2>3. passed[Prev(m)] \in Nat /\ passed[Prev(m)] <= Sent
    BY <1>1, <1>4, Ground DEF IInv, InOrder
  <2>4. /\ passed[m] < passed[Prev(m)] /\ Head(s) \in Triples
        /\ ~ ones => Carries(Head(s), Answers[passed[m] + 1])
    <3> HIDE DEF s
    <3>1. s # <<>> /\ passed[m] \in Nat /\ passed[Prev(m)] \in Nat
      BY <1>1, <2>3
    <3>2. Flows(s, passed[m], passed[Prev(m)], Answers, ones)
      BY <2>1
    <3>3. passed[m] < passed[Prev(m)]
      BY <3>1, <3>2, FlowTaken
    <3>4. Head(s) \in Triples
      BY <3>1, <3>2, FlowTaken
    <3>5. ~ ones => Carries(Head(s), Answers[passed[m] + 1])
      BY <3>1, <3>2, FlowTaken
    <3> QED
      BY <3>3, <3>4, <3>5
  <2>5. \A q \in Members : q < m => passed[m] < passed[q]
    <3> TAKE q \in Members
    <3> HAVE q < m
    <3>1. q <= Prev(m) /\ q \in Nat /\ Prev(m) \in Nat /\ passed[q] \in Nat
      BY <1>1, <1>4, Neighbours, Ground
    <3>2. passed[Prev(m)] <= passed[q]
      BY <1>4, <2>3, <3>1 DEF IInv, InOrder
    <3> QED
      BY <1>1, <2>3, <2>4, <3>1, <3>2
  <2> QED
    <3> HIDE DEF s
    <3>1. passed[m] < Sent
      BY <1>1, <2>3, <2>4
    <3> QED
      BY <2>1, <2>2, <2>4, <2>5, <3>1
<1>5. ASSUME passed[m] < Sent PROVE Answers[passed[m] + 1] \in BOOLEAN
  <2>1. Sent <= Total(R)
    BY DEF IInv, Leading
  <2>2. Total(R) \in Nat
    BY <1>1, Ground
  <2>3. passed[m] + 1 \in 1..Total(R)
    BY <1>1, <1>5, <2>1, <2>2
  <2> QED
    BY <1>1, <2>3, AnswersDecide
<1> HIDE DEF s
<1>6. passed[m] < Sent /\ Head(s) \in Triples /\ \A q \in Members : q < m => passed[m] < passed[q]
  BY <1>2, <1>3, <1>4
<1>7. \/ Prev(m) = leader /\ m = First /\ Starts(s, passed[m], Sent, Answers)
      \/ /\ Prev(m) \in Members /\ m # First /\ NextHop(Prev(m)) = m
         /\ Flows(s, passed[m], passed[Prev(m)], Answers, ones)
  BY <1>2, <1>3, <1>4
<1>8. ~ ones => \/ Carries(Head(s), Answers[passed[m] + 1])
                \/ Undecided(Head(s)) /\ ~ Answers[passed[m] + 1]
  BY <1>2, <1>3, <1>4
<1>9. Prev(m) \in Parties /\ Answers[passed[m] + 1] \in BOOLEAN
  BY <1>2, <1>5, <1>6
<1> QED
  BY <1>6, <1>7, <1>8, <1>9 DEF s

(* A member passes a triple on; with its last one of a round, it goes to   *)
(* the batch.                                                              *)
LEMMA HopKeeps ==
  ASSUME IInv, Beh21Assumption, NEW m \in Members, Hop(m)
  PROVE  IInv'
<1> DEFINE p == Prev(m)
           n == NextHop(m)
           old == net[p][m]
           done == passed[m] + 1 = Total(round[m])
<1>1. /\ Types /\ m \in Parties /\ m # leader /\ R \in 1..3 /\ leader \in Parties
      /\ \A q \in Members : q \in Parties /\ q # leader /\ q \in Nat /\ passed[q] \in Nat /\ round[q] \in 1..3
      /\ Sent \in Nat /\ \A r \in 1..3 : Total(r) \in Nat
  BY Ground DEF IInv
<1>2. /\ pc[m] = "ring" /\ p # None /\ n # None /\ Has(p, m)
      /\ UNCHANGED <<chosen, round, elements, sent, scp, counts, served, result>>
      /\ passed' = [passed EXCEPT ![m] = @ + 1]
      /\ pc' = IF passed'[m] = Expected(m) THEN [pc EXCEPT ![m] = "decrypt"] ELSE pc
  BY DEF Hop
<1>3. Same /\ UNCHANGED <<round, elements, sent, scp, counts, served, result>> /\ Sent' = Sent
  <2>1. Same
    BY <1>2, Untouched DEF R, chosen
  <2> QED
    BY <1>2, <2>1 DEF Same
<1>4. /\ p \in Parties
      /\ \/ p = leader /\ m = First /\ Starts(old, passed[m], Sent, Answers)
         \/ /\ p \in Members /\ m # First /\ NextHop(p) = m
            /\ Flows(old, passed[m], passed[p], Answers, ones)
      /\ passed[m] < Sent
      /\ \A q \in Members : q < m => passed[m] < passed[q]
      /\ Head(old) \in Triples /\ old # <<>>
      /\ Answers[passed[m] + 1] \in BOOLEAN
      /\ ~ ones => \/ Carries(Head(old), Answers[passed[m] + 1])
                   \/ Undecided(Head(old)) /\ ~ Answers[passed[m] + 1]
  BY <1>2, Arriving DEF Has
<1>5. p # m /\ n \in Parties /\ n # m /\ (n \in Members => Prev(n) = m)
  BY <1>1, <1>2, Neighbours
<1>6. PICK draw \in Draws, swap \in BOOLEAN :
        /\ net' = Put(m, n, Pass(Head(old), draw[1], draw[2], swap), Take(p, m, net))
        /\ ones' = (ones \/ draw[1] = 1)
  BY DEF Hop, Frame
<1>60. ones => ones'
  BY <1>6
<1> DEFINE tr == Pass(Head(old), draw[1], draw[2], swap)
<1>7. tr \in Triples /\ (~ ones' => Carries(tr, Answers[passed[m] + 1]))
  <2>1. tr \in Triples
    BY <1>4, PassType
  <2>2. ~ ones' => ~ ones /\ draw[1] # 1
    BY <1>6
  <2> QED
    BY <1>4, <2>1, <2>2, PassAnswers
<1> HIDE DEF tr
<1>8. /\ Shaped(net') /\ \A x, y \in Parties :
           net'[x][y] = IF x = m /\ y = n THEN Append(net[x][y], tr)
                        ELSE IF x = p /\ y = m THEN Tail(net[x][y]) ELSE net[x][y]
  <2>1. Shaped(net) /\ net' = Put(m, n, tr, Take(p, m, net))
    BY <1>1, <1>6 DEF Types, tr
  <2> HIDE DEF p, n, old
  <2> DEFINE mid == Take(p, m, net)
  <2>2. /\ Shaped(mid) /\ \A x, y \in Parties :
             mid[x][y] = IF x = p /\ y = m THEN Tail(net[x][y]) ELSE net[x][y]
    BY <1>1, <1>4, <2>1 DEF Shaped, Take
  <2>3. net' = Put(m, n, tr, mid)
    BY <2>1
  <2> HIDE DEF mid
  <2>4. /\ Shaped(net') /\ \A x, y \in Parties :
             net'[x][y] = IF x = m /\ y = n THEN Append(mid[x][y], tr) ELSE mid[x][y]
    BY <1>1, <1>5, <2>2, <2>3, OnePut
  <2>5. ~ (p = m /\ m = n)
    BY <1>5
  <2> QED
    BY <1>5, <2>2, <2>4
<1>9. \A q \in Members : passed'[q] = IF q = m THEN passed[m] + 1 ELSE passed[q]
  BY <1>1, <1>2 DEF Types
<1>10. /\ passed[m] < Total(round[m]) /\ elements[m] = Size /\ Size # 0 /\ R <= round[m]
       /\ round[m] \in {1, 2} /\ Sent <= Total(R) /\ Total(R) <= Total(round[m])
  <2>1. passed[m] < Total(round[m]) /\ elements[m] = Size /\ Size # 0 /\ R <= round[m] /\ round[m] \in {1, 2}
        /\ Sent <= Total(R)
    BY <1>1, <1>2 DEF IInv, Standing, Alive, Leading
  <2>2. Total(1) \in Nat /\ Size \in Nat /\ Total(2) = Total(1) + Size
    BY <1>1, Ground
  <2> QED
    BY <1>1, <2>1, <2>2
<1>11. \A q \in Parties : pc'[q] = IF q = m /\ done THEN "decrypt" ELSE pc[q]
  <2>1. Expected(m) = Total(round[m])
    BY <1>10 DEF Expected, Total
  <2>2. passed'[m] = passed[m] + 1
    BY <1>9
  <2> QED
    BY <1>1, <1>2, <2>1, <2>2 DEF Types
<1>12. pc[leader] \in {"ring", "crashed"}
  <2>1. InStep(m) /\ Standing(m) /\ Leading /\ Alive(m) /\ pc[leader] \in LeaderStates
    BY <1>1, <1>2 DEF IInv, Alive, Types
  <2>2. pc[leader] \notin {"sizes", "filters", "error"}
    <3>1. R = 1 /\ sent = 0 => Sent = 0
      BY <1>1, Ground
    <3> QED
      BY <1>1, <1>4, <2>1, <3>1 DEF Leading
  <2>3. pc[leader] \notin {"share", "collect"}
    BY <1>1, <1>4, <2>1 DEF Leading
  <2>4. pc[leader] # "done"
    BY <1>1, <1>10, <2>1 DEF Leading
  <2> QED
    BY <2>1, <2>2, <2>3, <2>4 DEF LeaderStates
<1> HIDE DEF p, n, old
<1>13. Types'
  <2>1. passed' \in [Parties -> Nat] /\ ones' \in BOOLEAN
    BY <1>1, <1>2, <1>6 DEF Types
  <2>2. pc' \in [Parties -> MemberStates \union LeaderStates]
    BY <1>1, <1>2 DEF Types, MemberStates
  <2> QED
    BY <1>1, <1>3, <1>8, <1>11, <2>1, <2>2 DEF Types, Same, MemberStates, LeaderStates
<1>14. Leading'
  BY <1>1, <1>3, <1>11, <1>12 DEF Same, IInv, Leading
<1>15. InOrder'
  <2>1. InOrder /\ Members' = Members /\ Sent' = Sent
    BY <1>3 DEF Same, IInv
  <2>2. passed[m] + 1 <= Sent /\ \A q \in Members : q < m => passed[m] + 1 <= passed[q]
    BY <1>1, <1>4
  <2>3. \A q \in Members : passed'[q] \in Nat /\ passed[q] <= passed'[q] /\ passed'[q] <= Sent
    BY <1>1, <1>9, <2>1, <2>2 DEF InOrder
  <2>4. ASSUME NEW a \in Members, NEW q \in Members, q < a
        PROVE  passed'[a] <= passed'[q]
    <3>1. passed[a] <= passed[q] /\ passed[a] \in Nat /\ passed[q] \in Nat
      BY <1>1, <2>1, <2>4 DEF InOrder
    <3>2. CASE a = m
      BY <1>1, <1>9, <2>2, <2>3, <2>4, <3>1, <3>2
    <3>3. CASE a # m
      BY <1>9, <2>3, <3>1, <3>3
    <3> QED
      BY <3>2, <3>3
  <2> QED
    BY <2>1, <2>3, <2>4 DEF InOrder
<1>16. \A q \in Members : Standing(q)'
  <2> TAKE q \in Members
  <2>1. Standing(q) /\ round'[q] = round[q] /\ elements'[q] = elements[q] /\ R' = R /\ Size' = Size
        /\ \A r : Total(r)' = Total(r)
    BY <1>3 DEF Same, IInv
  <2>2. CASE q = m
    <3>1. pc'[m] = IF done THEN "decrypt" ELSE "ring"
      BY <1>1, <1>2, <1>11
    <3>2. passed'[m] = passed[m] + 1 /\ passed[m] + 1 <= Total(round[m])
      BY <1>1, <1>9, <1>10
    <3> QED
      BY <1>1, <1>10, <2>1, <2>2, <3>1, <3>2 DEF Standing
  <2>3. CASE q # m
    <3>1. pc'[q] = pc[q] /\ passed'[q] = passed[q]
      BY <1>1, <1>9, <1>11, <2>3
    <3> QED
      BY <1>3, <2>1, <3>1 DEF Standing, Alive
  <2> QED
    BY <2>2, <2>3
<1>17. \A q \in Members : InStep(q)'
  BY <1>1, <1>2, <1>3, <1>11, <1>12 DEF Same, IInv, InStep, Alive
<1>18. \A x, y \in Members : x # y => Across(x, y)'
  <2> TAKE x, y \in Members
  <2> HAVE x # y
  <2>1. CASE x = m /\ y = n
    <3>1. Flows(net[m][n], passed[n], passed[m], Answers, ones')
      <4>1. Flows(net[m][n], passed[n], passed[m], Answers, ones)
        BY <1>5, <2>1 DEF IInv, Across, n
      <4> QED
        BY <1>60, <4>1 DEF Flows
    <3>2. Flows(Append(net[m][n], tr), passed[n], passed[m] + 1, Answers, ones')
      BY <1>1, <1>7, <2>1, <3>1, FlowPut
    <3> QED
      BY <1>1, <1>3, <1>5, <1>8, <1>9, <2>1, <3>2 DEF Same, Across, n
  <2>2. CASE x = m /\ y # n
    BY <1>1, <1>3, <1>5, <1>8, <2>2 DEF Same, IInv, Across, n
  <2>3. CASE x # m /\ y = m /\ x = p
    <3>1. NextHop(x) = m /\ Flows(old, passed[m], passed[x], Answers, ones) /\ old = net[x][m]
      BY <1>1, <1>4, <2>3 DEF old
    <3>2. Flows(Tail(old), passed[m] + 1, passed[x], Answers, ones)
      BY <1>1, <1>4, <3>1, FlowTaken
    <3>3. Flows(Tail(old), passed[m] + 1, passed[x], Answers, ones')
      BY <1>60, <3>2 DEF Flows
    <3> QED
      BY <1>1, <1>3, <1>8, <1>9, <2>3, <3>1, <3>3 DEF Same, Across
  <2>4. CASE x # m /\ y = m /\ x # p
    <3>1. NextHop(x) # m
      BY <1>1, <2>4, Neighbours DEF p
    <3> QED
      BY <1>1, <1>3, <1>8, <2>4, <3>1 DEF Same, IInv, Across
  <2>5. CASE x # m /\ y # m
    <3>1. NextHop(x) = y => Flows(net[x][y], passed[y], passed[x], Answers, ones')
      BY <1>60 DEF IInv, Across, Flows
    <3> QED
      BY <1>1, <1>3, <1>8, <1>9, <2>5, <3>1 DEF Same, IInv, Across
  <2> QED
    BY <2>1, <2>2, <2>3, <2>4, <2>5
<1>19. \A q \in Members : Down(q)'
  <2> TAKE q \in Members
  <2>1. CASE q # m
    <3>1. net'[leader][q] = net[leader][q] /\ pc'[q] = pc[q] /\ pc'[leader] = pc[leader] /\ passed'[q] = passed[q]
      BY <1>1, <1>8, <1>9, <1>11, <2>1
    <3> QED
      BY <1>1, <1>3, <1>12, <2>1, <3>1 DEF Same, IInv, Down, Alive, Deciding
  <2>2. CASE q = m /\ m = First
    <3>1. p = leader /\ old = net[leader][m] /\ Starts(old, passed[m], Sent, Answers)
      BY <1>4, <2>2 DEF old
    <3>2. Starts(Tail(old), passed[m] + 1, Sent, Answers)
      BY <1>1, <1>4, <3>1, StartTaken
    <3>3. net'[leader][m] = Tail(old)
      BY <1>1, <1>8, <2>2, <3>1
    <3>4. done => Tail(old) = <<>>
      <4>1. done => passed[m] + 1 = Sent
        BY <1>1, <1>4, <1>10
      <4> QED
        BY <1>1, <3>2, <4>1, StillStart
    <3> QED
      BY <1>1, <1>2, <1>3, <1>9, <1>11, <1>12, <2>2, <3>2, <3>3, <3>4 DEF Same, Down, Alive, Deciding
  <2>3. CASE q = m /\ m # First
    <3>1. p # leader /\ net'[leader][m] = net[leader][m] /\ net[leader][m] = <<>>
      BY <1>1, <1>2, <1>4, <1>8, <2>3 DEF IInv, Down
    <3> QED
      BY <1>1, <1>2, <1>3, <1>9, <1>11, <1>12, <2>3, <3>1 DEF Same, Down, Alive, Deciding
  <2> QED
    BY <2>1, <2>2, <2>3
<1>20. \A q \in Members : Up(q)'
  <2> TAKE q \in Members
  <2>1. pc'[leader] = pc[leader] /\ scp' = scp /\ Len(scp) \in Nat /\ Base \in Nat
    BY <1>1, <1>3, <1>11, Ground, LenProperties DEF Types
  <2>2. SUFFICES ASSUME pc[leader] = "ring"
                 PROVE  IF NextHop(q) = leader
                        THEN Flows(net'[q][leader], Base + Len(scp), passed'[q], Answers, ones')
                        ELSE net'[q][leader] = <<>>
    BY <1>1, <1>3, <1>12, <2>1 DEF Same, Up
  <2>3. IF NextHop(q) = leader THEN Flows(net[q][leader], Base + Len(scp), passed[q], Answers, ones)
                               ELSE net[q][leader] = <<>>
    BY <2>2 DEF IInv, Up
  <2>4. NextHop(q) = leader => Flows(net[q][leader], Base + Len(scp), passed[q], Answers, ones')
    BY <1>60, <2>3 DEF Flows
  <2>5. CASE q = m /\ n = leader
    <3>1. Flows(Append(net[m][leader], tr), Base + Len(scp), passed[m] + 1, Answers, ones')
      <4>1. Base + Len(scp) \in Nat
        BY <2>1
      <4> QED
        BY <1>1, <1>7, <2>4, <2>5, <4>1, FlowPut DEF n
    <3> QED
      BY <1>1, <1>8, <1>9, <2>5, <3>1 DEF n
  <2>6. CASE ~ (q = m /\ n = leader)
    <3>1. net'[q][leader] = net[q][leader]
      BY <1>1, <1>5, <1>8, <2>6
    <3>2. q = m => NextHop(q) # leader
      BY <2>6 DEF n
    <3> QED
      BY <1>9, <2>3, <2>4, <2>6, <3>1, <3>2
  <2> QED
    BY <2>5, <2>6
<1>21. Found'
  <2>1. Flows(scp, Base, Base + Len(scp), Answers, ones')
    BY <1>60 DEF IInv, Found, Flows
  <2>2. ~ ones' => ~ ones
    BY <1>6
  <2> QED
    BY <1>1, <1>3, <1>11, <1>12, <2>1, <2>2 DEF Same, IInv, Found
<1> QED
  BY <1>3, <1>13, <1>14, <1>15, <1>16, <1>17, <1>18, <1>19, <1>20, <1>21 DEF IInv, Same

(* A member answers a batch and goes on to the next round.                 *)
LEMMA PartialDecryptKeeps ==
  ASSUME IInv, Beh21Assumption, NEW m \in Members, PartialDecrypt(m)
  PROVE  IInv'
<1>1. /\ Types /\ m \in Parties /\ m # leader /\ R \in 1..3 /\ leader \in Parties
      /\ \A q \in Members : q \in Parties /\ q # leader /\ passed[q] \in Nat /\ round[q] \in 1..3
      /\ Sent \in Nat /\ Total(2) = Total(1) + Size /\ Total(3) = Total(1) + Size
      /\ Total(1) \in Nat /\ Size \in Nat
  BY Ground DEF IInv
<1>2. /\ pc[m] = "decrypt" /\ Has(leader, m)
      /\ UNCHANGED <<chosen, elements, sent, scp, counts, passed, served, result, ones>>
      /\ net' = Put(m, leader, Frame(leader, m), Take(leader, m, net))
      /\ round' = [round EXCEPT ![m] = IF @ = 3 THEN 3 ELSE @ + 1]
      /\ pc' = [pc EXCEPT ![m] = CASE round[m] = 1 -> "ring"
                                   [] round[m] = 2 -> "decrypt"
                                   [] round[m] = 3 -> "done"]
  BY DEF PartialDecrypt
<1>3. \A q \in Parties : round'[q] = IF q = m THEN IF round[m] = 3 THEN 3 ELSE round[m] + 1 ELSE round[q]
  BY <1>1, <1>2 DEF Types
<1>4. Same /\ UNCHANGED <<elements, sent, scp, counts, passed, served, result, ones>> /\ Sent' = Sent
  <2>1. R' = R
    BY <1>1, <1>2, <1>3 DEF R, chosen
  <2> QED
    BY <1>2, <2>1, Untouched DEF Same
<1>5. /\ net[leader][m] = <<Batch(round[m])>> /\ Head(net[leader][m]) = Batch(round[m])
      /\ Tail(net[leader][m]) = <<>>
  <2>1. net[leader][m] = <<Batch(round[m])>>
    BY <1>2 DEF IInv, Down, Has
  <2> QED
    BY <2>1, ShortStreams
<1>6. /\ Shaped(net') /\ \A x, y \in Parties :
           net'[x][y] = IF x = m /\ y = leader THEN Append(net[x][y], Batch(round[m]))
                        ELSE IF x = leader /\ y = m THEN <<>> ELSE net[x][y]
  <2> DEFINE mid == Take(leader, m, net)
  <2>1. /\ Shaped(mid) /\ \A x, y \in Parties :
             mid[x][y] = IF x = leader /\ y = m THEN Tail(net[x][y]) ELSE net[x][y]
    <3>1. Shaped(net) /\ leader \in Parties /\ m \in Parties
      BY <1>1 DEF Types
    <3> QED
      BY <3>1 DEF Shaped, Take
  <2>2. net' = Put(m, leader, Batch(round[m]), mid)
    BY <1>2, <1>5 DEF Frame
  <2> HIDE DEF mid
  <2>3. /\ Shaped(net') /\ \A x, y \in Parties :
             net'[x][y] = IF x = m /\ y = leader THEN Append(mid[x][y], Batch(round[m])) ELSE mid[x][y]
    BY <1>1, <2>1, <2>2, OnePut
  <2>4. m # leader
    BY <1>1
  <2>5. mid[leader][m] = <<>> /\ \A x, y \in Parties : ~ (x = leader /\ y = m) => mid[x][y] = net[x][y]
    BY <1>1, <1>5, <2>1
  <2> QED
    BY <2>3, <2>4, <2>5
<1>7. /\ passed[m] = Total(round[m]) /\ elements[m] = Size /\ Size # 0 /\ R <= round[m]
      /\ passed[m] = Sent
  <2>1. passed[m] = Total(round[m]) /\ elements[m] = Size /\ Size # 0 /\ R <= round[m]
        /\ Sent <= Total(R) /\ passed[m] <= Sent
    BY <1>2 DEF IInv, Standing, Alive, Leading, InOrder
  <2>2. Total(R) <= Total(round[m])
    BY <1>1, <2>1
  <2> QED
    BY <1>1, <2>1, <2>2
<1>8. /\ pc[leader] \in {"share", "collect"} => Deciding(m) /\ round[m] = R
      /\ pc[leader] = "share" => m \in served
      /\ pc[leader] = "collect" => m \notin served
      /\ pc[leader] \in {"share", "collect", "crashed", "error", "done"}
  <2>1. InStep(m) /\ Down(m) /\ Alive(m) /\ pc[leader] \in LeaderStates /\ net[leader][m] # <<>>
    BY <1>1, <1>2 DEF IInv, Types, Alive, Has
  <2>2. pc[leader] \notin {"sizes", "filters", "ring"}
    BY <1>2, <2>1 DEF InStep, Down, Entered
  <2>3. pc[leader] \in {"share", "collect"} => Deciding(m)
    BY <2>1 DEF Down
  <2>4. Deciding(m) => round[m] = R /\ ~ After(m, R)
    BY <1>1, <1>2 DEF Deciding, After
  <2>5. pc[leader] = "share" => m \in served
    BY <2>1 DEF Down
  <2>6. pc[leader] = "collect" => m \notin served
    BY <2>1, <2>3, <2>4 DEF InStep
  <2> QED
    BY <2>1, <2>2, <2>3, <2>4, <2>5, <2>6 DEF LeaderStates
<1>9. \A q \in Parties :
        pc'[q] = IF q = m THEN IF round[m] = 1 THEN "ring" ELSE IF round[m] = 2 THEN "decrypt" ELSE "done"
                          ELSE pc[q]
  <2>1. round[m] = 1 \/ round[m] = 2 \/ round[m] = 3
    BY <1>1
  <2> QED
    BY <1>1, <1>2, <2>1 DEF Types
<1>10. \/ pc'[m] = "ring" /\ round[m] = 1
       \/ pc'[m] = "decrypt" /\ round[m] = 2
       \/ pc'[m] = "done" /\ round[m] = 3
  BY <1>1, <1>9
<1>11. Types'
  <2>1. round' \in [Parties -> 1..3]
    <3>1. (IF round[m] = 3 THEN 3 ELSE round[m] + 1) \in 1..3
      BY <1>1
    <3> QED
      BY <1>1, <1>2, <3>1 DEF Types
  <2>2. pc' \in [Parties -> MemberStates \union LeaderStates]
    <3>1. pc' = [pc EXCEPT ![m] = pc'[m]] /\ pc'[m] \in MemberStates
      BY <1>1, <1>2, <1>9 DEF Types, MemberStates
    <3> QED
      BY <1>1, <3>1 DEF Types
  <2> QED
    BY <1>1, <1>4, <1>6, <1>9, <2>1, <2>2 DEF Types, Same, MemberStates
<1>12. Leading'
  BY <1>1, <1>4, <1>8, <1>9 DEF Same, IInv, Leading
<1>13. InOrder'
  BY <1>4 DEF Same, IInv, InOrder
<1>14. \A q \in Members : Standing(q)'
  <2> TAKE q \in Members
  <2>1. CASE q # m
    BY <1>1, <1>3, <1>4, <1>9, <2>1 DEF Same, IInv, Standing, Alive
  <2>2. CASE q = m
    <3>1. /\ passed'[m] = passed[m] /\ elements'[m] = elements[m] /\ Size' = Size /\ R' = R /\ Sent' = Sent
          /\ \A r : Total(r)' = Total(r)
      BY <1>4 DEF Same
    <3>2. round'[m] = IF round[m] = 3 THEN 3 ELSE round[m] + 1
      BY <1>1, <1>3
    <3>3. R <= round'[m]
      BY <1>1, <1>7, <3>2
    <3>7. (round[m] = 1 => passed[m] = Total(1)) /\ (round[m] = 2 => passed[m] = Total(2))
      BY <1>7
    <3>8. Total(1) < Total(2) /\ Total(2) = Total(3)
      BY <1>1, <1>7
    <3>4. pc'[m] = "ring" => round'[m] = 2 /\ passed[m] < Total(2)
      BY <1>10, <3>2, <3>7, <3>8
    <3>5. pc'[m] = "decrypt" => round'[m] = 3 /\ passed[m] = Total(3)
      BY <1>10, <3>2, <3>7, <3>8
    <3>6. pc'[m] = "done" => round'[m] = 3
      BY <1>10, <3>2
    <3> QED
      BY <1>7, <1>10, <2>2, <3>1, <3>3, <3>4, <3>5, <3>6 DEF Standing
  <2> QED
    BY <2>1, <2>2
<1>15. \A q \in Members : InStep(q)'
  <2> TAKE q \in Members
  <2>1. CASE q # m
    BY <1>1, <1>3, <1>4, <1>8, <1>9, <2>1 DEF Same, IInv, InStep, Alive, Deciding, After
  <2>2. CASE q = m
    <3>1. pc[leader] \in {"share", "collect"} => After(m, R)'
      BY <1>1, <1>3, <1>4, <1>8, <1>10 DEF After, Same
    <3> QED
      BY <1>1, <1>4, <1>8, <1>9, <2>2, <3>1 DEF Same, InStep
  <2> QED
    BY <2>1, <2>2
<1>16. \A x, y \in Members : x # y => Across(x, y)'
  BY <1>1, <1>4, <1>6 DEF Same, IInv, Across
<1>17. \A q \in Members : Down(q)'
  <2> TAKE q \in Members
  <2>1. CASE q # m
    BY <1>1, <1>3, <1>4, <1>6, <1>8, <1>9, <2>1 DEF Same, IInv, Down, Alive, Deciding
  <2>2. CASE q = m
    <3>1. net'[leader][m] = <<>> /\ Starts(<<>>, passed[m], Sent, Answers)
      BY <1>1, <1>6, <1>7, StillStart
    <3> QED
      BY <1>1, <1>4, <1>9, <1>10, <2>2, <3>1 DEF Same, Down
  <2> QED
    BY <2>1, <2>2
<1>18. \A q \in Members : Up(q)'
  <2> TAKE q \in Members
  <2>1. CASE q # m
    BY <1>1, <1>3, <1>4, <1>6, <1>8, <1>9, <2>1 DEF Same, IInv, Up, Deciding
  <2>2. CASE q = m
    <3>1. pc[leader] \in {"share", "collect"} => net[m][leader] = <<>>
      BY <1>8 DEF IInv, Up
    <3>2. pc[leader] \in {"share", "collect"} => net'[m][leader] = <<Batch(R)>>
      BY <1>1, <1>6, <1>8, <3>1, ShortStreams
    <3>3. pc[leader] \in {"share", "collect"} => ~ Deciding(m)'
      BY <1>1, <1>3, <1>4, <1>8, <1>10 DEF Deciding, Same
    <3> QED
      BY <1>1, <1>4, <1>8, <1>9, <2>2, <3>2, <3>3 DEF Same, Up
  <2> QED
    BY <2>1, <2>2
<1>19. Found'
  BY <1>1, <1>4, <1>9 DEF Same, IInv, Found
<1> QED
  BY <1>4, <1>11, <1>12, <1>13, <1>14, <1>15, <1>16, <1>17, <1>18, <1>19 DEF IInv, Same

-----------------------------------------------------------------------------
(* The steps of the leader.                                                *)
LEMMA NegotiateSizesKeeps ==
  ASSUME IInv, Beh21Assumption, NegotiateSizes
  PROVE  IInv'
<1>1. /\ Types /\ UNCHANGED chosen /\ UNCHANGED progress /\ R \in 1..3 /\ leader \in Parties
      /\ \A q \in Members : q \in Parties /\ q # leader
  BY Ground DEF IInv, NegotiateSizes
<1>2. Same /\ UNCHANGED <<round, elements, sent, scp, counts, passed, served, result, ones>>
  BY <1>1, Untouched DEF R, chosen, progress
<1>3. pc[leader] = "sizes" /\ \A q \in Parties : pc'[q] = IF q = leader THEN "filters" ELSE pc[q]
  BY <1>1 DEF Types, NegotiateSizes, Goto
<1>4. Sent' = Sent /\ served = {} /\ R = 1
  BY <1>1, <1>2, <1>3 DEF Same, IInv, Leading
<1>5. \A q \in Members : net[q][leader] = <<[size |-> Len(input[q])]>> /\ Tail(net[q][leader]) = <<>>
  <2> TAKE q \in Members
  <2>1. net[q][leader] = <<[size |-> Len(input[q])]>>
    BY <1>3 DEF IInv, Up, NegotiateSizes, Has
  <2> QED
    BY <2>1, ShortStreams
<1>6. \A q \in Members : Alive(q) => pc[q] = "negotiate" /\ round[q] = 1 /\ net[leader][q] = <<>>
  <2> TAKE q \in Members
  <2>1. pc[q] # "size"
    BY <1>3, <1>5, ShortStreams DEF IInv, Up
  <2> QED
    BY <1>3, <2>1 DEF IInv, InStep, Standing, Down
<1>7. /\ Shaped(net')
      /\ \A q \in Members : net'[leader][q] = Append(net[leader][q], Announced(Size)) /\ net'[q][leader] = <<>>
      /\ \A x, y \in Members : net'[x][y] = net[x][y]
  <2>1. net' = [p \in Parties |-> [q \in Parties |->
                 IF p = leader /\ q # leader THEN Append(net[p][q], [elements |-> Size])
                 ELSE IF p # leader /\ q = leader THEN Tail(net[p][q])
                 ELSE net[p][q]]]
    BY DEF NegotiateSizes
  <2>2. Shaped(net')
    BY <2>1 DEF Shaped
  <2> QED
    BY <1>1, <1>5, <2>1, <2>2 DEF Announced
<1>8. Types'
  <2>1. pc' \in [Parties -> MemberStates \union LeaderStates]
    BY <1>1 DEF Types, NegotiateSizes, Goto, LeaderStates
  <2> QED
    BY <1>1, <1>2, <1>3, <1>7, <2>1 DEF Types, Same, LeaderStates
<1>9. Leading'
  BY <1>1, <1>2, <1>3, <1>4 DEF Same, IInv, Leading
<1>10. InOrder'
  BY <1>2, <1>4 DEF Same, IInv, InOrder
<1>11. \A q \in Members : Standing(q)'
  BY <1>1, <1>2, <1>3, <1>4 DEF Same, IInv, Standing, Alive
<1>12. \A q \in Members : InStep(q)'
  BY <1>1, <1>2, <1>3, <1>4, <1>6 DEF Same, InStep, Alive
<1>13. \A x, y \in Members : x # y => Across(x, y)'
  BY <1>2, <1>7 DEF Same, IInv, Across
<1>14. \A q \in Members : Down(q)'
  <2> TAKE q \in Members
  <2>1. CASE Alive(q)
    <3>1. net'[leader][q] = <<Announced(Size)>> /\ pc'[q] = "negotiate" /\ pc'[leader] = "filters"
      BY <1>1, <1>3, <1>6, <1>7, <2>1, ShortStreams
    <3> QED
      BY <1>2, <3>1 DEF Same, Down
  <2>2. CASE ~ Alive(q)
    BY <1>1, <1>2, <1>3, <2>2 DEF Same, Down, Alive
  <2> QED
    BY <2>1, <2>2
<1>15. \A q \in Members : Up(q)'
  BY <1>1, <1>2, <1>3, <1>7 DEF Same, Up
<1>16. Found'
  BY <1>1, <1>2, <1>3 DEF Same, IInv, Found
<1> QED
  BY <1>2, <1>8, <1>9, <1>10, <1>11, <1>12, <1>13, <1>14, <1>15, <1>16 DEF IInv, Same

(* A phase of the leader that ends when every member's thread has.         *)
LEMMA Serving ==
  ASSUME Types, NEW m \in Members, NEW from, NEW to, Serve(m, from, to), to \in LeaderStates, leader \in Parties
  PROVE  /\ pc[leader] = from /\ m \notin served
         /\ Joins(m) => /\ served' = {} /\ \A q \in Members : q # m => q \in served
                        /\ \A q \in Parties : pc'[q] = IF q = leader THEN to ELSE pc[q]
         /\ ~ Joins(m) => served' = served \union {m} /\ pc' = pc
         /\ served' \in SUBSET Members /\ served' # Members
         /\ pc' \in [Parties -> MemberStates \union LeaderStates]
<1>1. /\ pc[leader] = from /\ m \notin served
      /\ served' = IF Joins(m) THEN {} ELSE served \union {m}
      /\ pc' = IF Joins(m) THEN [pc EXCEPT ![leader] = to] ELSE pc
  BY DEF Serve
<1>2. pc \in [Parties -> MemberStates \union LeaderStates] /\ served \in SUBSET Members
  BY DEF Types
<1>3. Joins(m) => \A q \in Members : q # m => q \in served
  BY DEF Joins
<1>4. served' \in SUBSET Members /\ served' # Members
  BY <1>1, <1>2 DEF Joins
<1> QED
  BY <1>1, <1>2, <1>3, <1>4

(* A filter arrives; with the last one, the first round begins.            *)
LEMMA CollectFilterKeeps ==
  ASSUME IInv, Beh21Assumption, NEW m \in Members, CollectFilter(m)
  PROVE  IInv'
<1> DEFINE to == IF Size = 0 THEN "done" ELSE "ring"
<1>1. /\ Types /\ R \in 1..3 /\ leader \in Parties /\ m \in Parties /\ m # leader
      /\ \A q \in Members : q \in Parties /\ q # leader /\ passed[q] \in Nat
      /\ UNCHANGED <<chosen, round, elements, sent, scp, counts, passed, result, ones>>
  BY Ground DEF IInv, CollectFilter
<1>2. Same /\ UNCHANGED <<round, elements, sent, scp, counts, passed, result, ones>>
  BY <1>1, Untouched DEF R, chosen
<1>3. /\ pc[leader] = "filters" /\ m \notin served
      /\ Joins(m) => /\ served' = {} /\ \A q \in Members : q # m => q \in served
                     /\ \A q \in Parties : pc'[q] = IF q = leader THEN to ELSE pc[q]
      /\ ~ Joins(m) => served' = served \union {m} /\ pc' = pc
      /\ served' \in SUBSET Members /\ served' # Members
      /\ pc' \in [Parties -> MemberStates \union LeaderStates]
  <2>1. to \in LeaderStates /\ Serve(m, "filters", to)
    BY DEF LeaderStates, CollectFilter
  <2> HIDE DEF to
  <2> QED
    BY <1>1, <2>1, Serving
<1>4. R = 1 /\ sent = 0 /\ Sent = 0 /\ scp = <<>> /\ Base = 0 /\ result = {} /\ Sent' = Sent
  <2>1. R = 1 /\ sent = 0 /\ scp = <<>> /\ result = {}
    BY <1>3 DEF IInv, Leading
  <2> QED
    BY <1>1, <1>2, <2>1, Ground DEF Same
<1>5. net[m][leader] = <<[filter |-> bits[m]]>> /\ pc[m] \notin {"negotiate", "filter"}
      /\ Tail(net[m][leader]) = <<>>
  <2>1. net[m][leader] = <<[filter |-> bits[m]]>> /\ pc[m] \notin {"negotiate", "filter"}
    BY <1>3 DEF IInv, Up, CollectFilter, Has
  <2> QED
    BY <2>1, ShortStreams
<1>6. /\ Shaped(net') /\ \A x, y \in Parties : net'[x][y] = IF x = m /\ y = leader THEN <<>> ELSE net[x][y]
  <2>1. Shaped(net) /\ net' = Take(m, leader, net)
    BY <1>1 DEF Types, CollectFilter
  <2> QED
    BY <1>1, <1>5, <2>1 DEF Shaped, Take
<1>7. \A q \in Members : Alive(q) /\ (q \in served \/ q = m) => pc[q] = Entered
  BY <1>3, <1>5 DEF IInv, InStep
<1>8. \A q \in Members : q \in served \/ q = m => net'[q][leader] = <<>>
  BY <1>1, <1>3, <1>6 DEF IInv, Up
<1>9. \A q \in Members : passed[q] = 0
  BY <1>1, <1>4 DEF IInv, InOrder
<1>10. /\ \A q \in Members : pc'[q] = pc[q]
       /\ to = Entered /\ (to = "ring" \/ (to = "done" /\ Size = 0)) /\ (to = "ring" => Size # 0)
       /\ pc'[leader] = IF Joins(m) THEN to ELSE "filters"
  BY <1>1, <1>3 DEF Entered
<1> HIDE DEF to
<1>11. Types'
  BY <1>1, <1>2, <1>3, <1>6, <1>10 DEF Types, Same, LeaderStates
<1>12. Leading'
  <2>1. Leading
    BY DEF IInv
  <2> QED
    BY <1>1, <1>2, <1>3, <1>4, <1>10, <2>1 DEF Same, Leading
<1>13. InOrder'
  BY <1>2, <1>4 DEF Same, IInv, InOrder
<1>14. \A q \in Members : Standing(q)'
  BY <1>1, <1>2, <1>4, <1>10 DEF Same, IInv, Standing, Alive
<1>15. \A q \in Members : InStep(q)'
  <2> TAKE q \in Members
  <2>1. CASE Joins(m)
    <3>1. Alive(q) => pc[q] = Entered /\ round[q] = 1
      BY <1>3, <1>7, <2>1 DEF IInv, InStep
    <3> QED
      BY <1>1, <1>2, <1>4, <1>10, <2>1, <3>1 DEF Same, InStep, Alive
  <2>2. CASE ~ Joins(m)
    BY <1>1, <1>2, <1>3, <1>7, <1>10, <2>2 DEF Same, IInv, InStep, Alive
  <2> QED
    BY <2>1, <2>2
<1>16. \A x, y \in Members : x # y => Across(x, y)'
  BY <1>1, <1>2, <1>6 DEF Same, IInv, Across
<1>17. \A q \in Members : Down(q)'
  <2> TAKE q \in Members
  <2>1. net'[leader][q] = net[leader][q] /\ Down(q)
    BY <1>1, <1>6 DEF IInv
  <2>2. pc'[leader] = "ring" /\ Alive(q) => pc[q] # "decrypt"
    <3>1. pc'[leader] = "ring" => Joins(m)
      BY <1>10
    <3>2. Joins(m) /\ Alive(q) => pc[q] = Entered
      BY <1>3, <1>7
    <3> QED
      BY <3>1, <3>2 DEF Entered
  <2> QED
    BY <1>1, <1>2, <1>4, <1>10, <2>1, <2>2 DEF Same, Down, Alive, Deciding
<1>18. \A q \in Members : Up(q)'
  <2> TAKE q \in Members
  <2>1. CASE Joins(m)
    <3>1. net'[q][leader] = <<>>
      BY <1>3, <1>8, <2>1
    <3>2. Flows(<<>>, 0, passed[q], Answers, ones)
      BY <1>9, StillFlow
    <3>3. Base + Len(scp) = 0
      BY <1>4
    <3> QED
      BY <1>1, <1>2, <1>10, <2>1, <3>1, <3>2, <3>3 DEF Same, Up
  <2>2. CASE ~ Joins(m)
    BY <1>1, <1>2, <1>3, <1>5, <1>6, <1>8, <1>10, <2>2 DEF Same, IInv, Up
  <2> QED
    BY <2>1, <2>2
<1>19. Found'
  <2>1. Found /\ (Size = 0 => {} = {i \in 1..Size : Answers[Total(1) + i]})
    BY DEF IInv
  <2> QED
    BY <1>1, <1>2, <1>4, <1>10, <2>1 DEF Same, Found
<1> QED
  BY <1>2, <1>11, <1>12, <1>13, <1>14, <1>15, <1>16, <1>17, <1>18, <1>19 DEF IInv, Same

(* The member of a position.                                               *)
LEMMA MemberPositions ==
  ASSUME Types, Beh21Assumption
  PROVE  /\ \A k \in 0..(N - 2) : MemberAt(k) \in Members /\ Position(MemberAt(k)) = k
         /\ \A m \in Members : Position(m) \in 0..(N - 2) /\ MemberAt(Position(m)) = m
<1>1. Positions /\ leader \in Nat /\ leader <= N - 1 /\ N \in Nat /\ N >= 2
  BY ChainPositions DEF Types, Beh21Assumption, Parties
<1>2. \A m \in Members : m \in Nat /\ m <= N - 1 /\ m # leader
  BY DEF Members, Parties
<1>3. \A k \in 0..(N - 2) : \E m \in Members : Position(m) = k
  <2> TAKE k \in 0..(N - 2)
  <2> DEFINE m == IF k < leader THEN k ELSE k + 1
  <2>1. m \in Members
    BY <1>1 DEF Members, Parties
  <2>2. Position(m) = k
    BY <1>1, <2>1 DEF Positions
  <2> QED
    BY <2>1, <2>2
<1>4. \A k \in 0..(N - 2) : MemberAt(k) \in Members /\ Position(MemberAt(k)) = k
  BY <1>3 DEF MemberAt
<1>5. \A m \in Members : Position(m) \in 0..(N - 2)
  BY <1>1, <1>2 DEF Positions
<1>6. \A m, q \in Members : Position(m) = Position(q) => m = q
  BY <1>1, <1>2 DEF Positions
<1> QED
  BY <1>4, <1>5, <1>6

(* Every triple of the first round asks a member about an element.         *)
LEMMA Asked ==
  ASSUME Types, Beh21Assumption, NEW g \in 1..Total(1)
  PROVE  AskedMember(g) \in Members /\ AskedElement(g) \in Elements
<1>1. N - 1 \in Nat /\ N - 1 >= 1 /\ Size \in Nat /\ Total(1) = Size * (N - 1) /\ leader \in Parties
  BY Ground DEF Total
<1>2. (g - 1) % (N - 1) \in 0..(N - 2) /\ ((g - 1) \div (N - 1)) + 1 \in 1..Size
  <2> DEFINE n == N - 1
  <2>1. n \in Nat /\ n >= 1 /\ g \in 1..(Size * n)
    BY <1>1
  <2> HIDE DEF n
  <2>2. (g - 1) % n \in 0..(n - 1) /\ ((g - 1) \div n) + 1 \in 1..Size
    BY <1>1, <2>1, Numbering
  <2> QED
    BY <1>1, <2>2 DEF n
<1>3. input[leader] \in Seq(Elements)
  BY <1>1 DEF Types
<1>4. \A j \in 1..Size : input[leader][j] \in Elements
  BY <1>3, ElementOfSeq DEF Size
<1> QED
  BY <1>2, <1>4, MemberPositions DEF AskedMember, AskedElement

(* What the leader hides in a triple decides its answer.                   *)
LEMMA DifferenceDecides ==
  ASSUME Types, Beh21Assumption, NEW i \in 1..Items
  PROVE  /\ Difference(i) \in Int
         /\ (Difference(i) <= 0) <=> Answers[Base + i]
         /\ Base + i \in 1..Total(R) /\ Answers[Base + i] \in BOOLEAN
<1>1. /\ R \in 1..3 /\ Base \in Nat /\ Items \in Nat /\ Base + Items = Total(R)
      /\ (R = 1 => Base = 0 /\ Items = Total(1)) /\ (R # 1 => Base = Total(1) /\ Items = Size)
      /\ Total(1) \in Nat /\ Size \in Nat /\ i \in Nat
  BY Ground
<1>2. Base + i \in 1..Total(R)
  BY <1>1
<1>3. Answers[Base + i] \in BOOLEAN
  BY <1>2, AnswersDecide
<1>4. CASE R = 1
  <2>1. Base + i = i /\ i \in 1..Total(1) /\ i \in 1..Total(R)
    BY <1>1, <1>4
  <2>2. Answers[i] = (bits[AskedMember(i)][AskedElement(i)] = NumHash)
    BY <2>1, AnswersDecide
  <2>3. AskedMember(i) \in Members /\ AskedElement(i) \in Elements
    BY <2>1, Asked
  <2>4. bits[AskedMember(i)][AskedElement(i)] \in 0..NumHash /\ NumHash \in Nat
    BY <2>3 DEF Types, Beh21Assumption
  <2>5. Difference(i) = NumHash - bits[AskedMember(i)][AskedElement(i)]
    BY <1>4 DEF Difference, AskedMember, AskedElement, R
  <2> QED
    BY <1>2, <1>3, <2>1, <2>2, <2>4, <2>5
<1>5. CASE R # 1
  <2>1. Base + i > Total(1) /\ (Base + i) - Total(1) = i /\ i \in 1..Size
    BY <1>1, <1>5
  <2>2. Answers[Base + i] = (counts[i] >= threshold - 1)
    BY <1>2, <2>1, AnswersDecide
  <2>3. counts[i] \in Nat
    BY <1>5, <2>1 DEF Types
  <2>4. threshold \in Nat
    BY DEF Types, Beh21Assumption
  <2>5. Difference(i) = threshold - 1 - counts[i]
    BY <1>5 DEF Difference, R
  <2>6. Difference(i) \in Int /\ ((Difference(i) <= 0) <=> (counts[i] >= threshold - 1))
    BY <2>3, <2>4, <2>5
  <2> QED
    BY <1>2, <1>3, <2>2, <2>6
<1> QED
  BY <1>4, <1>5

(* The leader's triple carries the answer, or is still to be decided.      *)
LEMMA StartAnswers ==
  ASSUME NEW d \in Int, NEW yes \in BOOLEAN, (d <= 0) <=> yes, NEW draw \in Draws
  PROVE  /\ Start(d, draw[1], draw[2]) \in Triples
         /\ \/ Carries(Start(d, draw[1], draw[2]), yes)
            \/ Undecided(Start(d, draw[1], draw[2])) /\ ~ yes
<1>1. draw[1] \in Factors /\ draw[2] \in Offsets(draw[1])
  BY DEF Draws
<1>2. \/ Carries(Start(d, draw[1], draw[2]), d <= 0)
      \/ Undecided(Start(d, draw[1], draw[2])) /\ d = 1
  BY <1>1, StartDecides
<1> QED
  BY <1>2 DEF Carries, Undecided

(* The sending thread puts the next triple on the first stream.            *)
LEMMA SendTripleKeeps ==
  ASSUME IInv, Beh21Assumption, SendTriple
  PROVE  IInv'
<1>1. /\ Types /\ R \in 1..3 /\ leader \in Parties /\ sent \in Nat /\ Sent \in Nat /\ Sent = Base + sent
      /\ Base \in Nat /\ Items \in Nat /\ Base + Items = Total(R) /\ Total(R) \in Nat
      /\ \A q \in Members : q \in Parties /\ q # leader /\ passed[q] \in Nat
      /\ First \in Members
  BY Ground, Neighbours DEF IInv
<1>2. /\ pc[leader] = "ring" /\ sent < Items /\ sent' = sent + 1
      /\ UNCHANGED <<chosen, pc, round, elements, scp, counts, passed, served, result, ones>>
  BY DEF SendTriple
<1>3. Same /\ UNCHANGED <<pc, round, elements, scp, counts, passed, served, result, ones>>
  BY <1>2, Untouched DEF R, chosen
<1>4. Sent' = Sent + 1 /\ Sent < Total(R)
  BY <1>1, <1>2, <1>3 DEF Same, Sent
<1>5. PICK draw \in Draws : net' = Put(leader, First, Start(Difference(sent + 1), draw[1], draw[2]), net)
  BY DEF SendTriple
<1> DEFINE tr == Start(Difference(sent + 1), draw[1], draw[2])
<1>6. tr \in Triples /\ (Carries(tr, Answers[Sent + 1]) \/ (Undecided(tr) /\ ~ Answers[Sent + 1]))
  <2>1. sent + 1 \in 1..Items /\ Base + (sent + 1) = Sent + 1
    BY <1>1, <1>2
  <2>2. /\ Difference(sent + 1) \in Int /\ Answers[Sent + 1] \in BOOLEAN
        /\ (Difference(sent + 1) <= 0) <=> Answers[Sent + 1]
    BY <1>1, <2>1, DifferenceDecides
  <2> QED
    BY <2>2, StartAnswers
<1> HIDE DEF tr
<1>7. /\ Shaped(net') /\ \A x, y \in Parties :
           net'[x][y] = IF x = leader /\ y = First THEN Append(net[x][y], tr) ELSE net[x][y]
  <2>1. Shaped(net) /\ net' = Put(leader, First, tr, net) /\ First \in Parties /\ leader \in Parties
    BY <1>1, <1>5 DEF Types, tr
  <2> QED
    BY <2>1 DEF Shaped, Put
<1>8. Alive(First) => pc[First] = "ring"
  <2>1. Alive(First) /\ pc[First] # "ring" => pc[First] = "decrypt" /\ round[First] = R
    BY <1>1, <1>2 DEF IInv, InStep
  <2>2. pc[First] = "decrypt" => passed[First] = Total(round[First]) /\ passed[First] <= Sent
    BY <1>1 DEF IInv, Standing, InOrder
  <2> QED
    BY <1>1, <1>4, <2>1, <2>2
<1>9. Types'
  BY <1>1, <1>2, <1>3, <1>7 DEF Types, Same
<1>10. Leading'
  BY <1>1, <1>2, <1>3, <1>4 DEF Same, IInv, Leading
<1>11. InOrder'
  BY <1>1, <1>3, <1>4 DEF Same, IInv, InOrder
<1>12. \A q \in Members : Standing(q)'
  <2>1. \A q \in Members : pc[q] \notin {"size", "negotiate", "filter"}
    BY <1>2 DEF IInv, InStep, Alive
  <2> QED
    BY <1>3, <2>1 DEF Same, IInv, Standing, Alive
<1>13. \A q \in Members : InStep(q)'
  BY <1>3 DEF Same, IInv, InStep, Alive, Deciding, After
<1>14. \A x, y \in Members : x # y => Across(x, y)'
  <2> TAKE x, y \in Members
  <2> HAVE x # y
  <2>1. net'[x][y] = net[x][y]
    BY <1>1, <1>7
  <2>2. Across(x, y)
    BY DEF IInv
  <2> QED
    BY <1>3, <2>1, <2>2 DEF Same, Across
<1>15. \A q \in Members : Down(q)'
  <2> TAKE q \in Members
  <2>1. CASE q # First
    BY <1>1, <1>2, <1>3, <1>7, <2>1 DEF Same, IInv, Down, Alive, Deciding
  <2>2. CASE q = First
    <3>1. pc[First] = "ring" => Starts(net[leader][First], passed[First], Sent, Answers)
      BY <1>1 DEF IInv, Down
    <3>2. pc[First] = "ring" => Starts(Append(net[leader][First], tr), passed[First], Sent + 1, Answers)
      BY <1>1, <1>6, <3>1, StartPut
    <3> QED
      BY <1>1, <1>2, <1>3, <1>4, <1>7, <1>8, <2>2, <3>2 DEF Same, Down, Alive
  <2> QED
    BY <2>1, <2>2
<1>16. \A q \in Members : Up(q)'
  BY <1>1, <1>2, <1>3, <1>7 DEF Same, IInv, Up
<1>17. Found'
  BY <1>2, <1>3 DEF Same, IInv, Found
<1> QED
  BY <1>3, <1>9, <1>10, <1>11, <1>12, <1>13, <1>14, <1>15, <1>16, <1>17 DEF IInv, Same

(* The main thread receives the next triple; with the last one, it shares  *)
(* the batch.                                                              *)
LEMMA ReceiveTripleKeeps ==
  ASSUME IInv, Beh21Assumption, ReceiveTriple
  PROVE  IInv'
<1> DEFINE old == net[Last][leader]
<1>1. /\ Types /\ R \in 1..3 /\ leader \in Parties /\ sent \in Nat /\ Sent \in Nat /\ Sent = Base + sent
      /\ Base \in Nat /\ Items \in Nat /\ Base + Items = Total(R) /\ Total(R) \in Nat /\ Size \in Nat
      /\ \A q \in Members : q \in Parties /\ q # leader /\ q \in Nat /\ passed[q] \in Nat
      /\ Last \in Members /\ Len(scp) \in Nat /\ scp \in Seq(Triples) /\ (R = 1 => Items = Total(1)) /\ (R # 1 => Items = Size)
  BY Ground, Neighbours, LenProperties DEF IInv, Types
<1>2. /\ pc[leader] = "ring" /\ old # <<>>
      /\ UNCHANGED <<chosen, round, elements, sent, counts, passed, served, result, ones>>
      /\ scp' = Append(scp, Head(old)) /\ net' = Take(Last, leader, net)
      /\ pc' = IF Len(scp') = Items THEN [pc EXCEPT ![leader] = "share"] ELSE pc
  BY DEF ReceiveTriple, Has, Frame
<1>3. Same /\ UNCHANGED <<round, elements, sent, counts, passed, served, result, ones>> /\ Sent' = Sent
  <2>1. Same
    BY <1>2, Untouched DEF R, chosen
  <2> QED
    BY <1>2, <2>1 DEF Same
<1>4. NextHop(Last) = leader /\ Flows(old, Base + Len(scp), passed[Last], Answers, ones)
  BY <1>1, <1>2 DEF IInv, Up
<1>5. leader = N - 1 /\ (\A q \in Members : q <= Last) /\ (\A q \in Members : NextHop(q) = leader => q = Last)
  BY <1>1, <1>4, Neighbours
<1> DEFINE g == Base + Len(scp)
<1>6. /\ g < passed[Last] /\ Head(old) \in Triples
      /\ ~ ones => Carries(Head(old), Answers[g + 1])
      /\ Flows(Tail(old), g + 1, passed[Last], Answers, ones)
  <2>1. g \in Nat
    BY <1>1
  <2> HIDE DEF g, old
  <2>2. Flows(old, g, passed[Last], Answers, ones) /\ old # <<>> /\ passed[Last] \in Nat
    BY <1>1, <1>2, <1>4 DEF g
  <2>3. g < passed[Last] /\ Head(old) \in Triples
    BY <2>1, <2>2, FlowTaken
  <2>4. ~ ones => Carries(Head(old), Answers[g + 1])
    BY <2>1, <2>2, FlowTaken
  <2>5. Flows(Tail(old), g + 1, passed[Last], Answers, ones)
    BY <2>1, <2>2, FlowTaken
  <2> QED
    BY <2>3, <2>4, <2>5
<1>7. Flows(scp', Base, g + 1, Answers, ones) /\ scp' \in Seq(Triples) /\ Len(scp') = Len(scp) + 1
  <2>1. Flows(scp, Base, g, Answers, ones) /\ g \in Nat
    BY <1>1 DEF IInv, Found
  <2> HIDE DEF g, old
  <2>2. Flows(Append(scp, Head(old)), Base, g + 1, Answers, ones)
    BY <1>1, <1>6, <2>1, FlowPut
  <2> QED
    BY <1>1, <1>2, <1>6, <2>2, AppendProperties
<1>8. /\ Shaped(net') /\ \A x, y \in Parties :
           net'[x][y] = IF x = Last /\ y = leader THEN Tail(old) ELSE net[x][y]
  <2>1. Shaped(net) /\ Last \in Parties
    BY <1>1 DEF Types
  <2> QED
    BY <1>1, <1>2, <2>1 DEF Shaped, Take
<1> HIDE DEF old
<1>9. Base + Len(scp') = g + 1
  BY <1>1, <1>7
<1> DEFINE over == Len(scp') = Items
<1>10. \A q \in Parties : pc'[q] = IF q = leader /\ over THEN "share" ELSE pc[q]
  BY <1>1, <1>2 DEF Types
<1>11. over => /\ Sent = Total(R) /\ g + 1 = Total(R)
               /\ \A q \in Members : passed[q] = Total(R)
  <2> HAVE over
  <2>1. g + 1 = Total(R) /\ passed[Last] >= Total(R)
    BY <1>1, <1>6, <1>9
  <2>2. Sent <= Total(R)
    BY DEF IInv, Leading
  <2>3. \A q \in Members : passed[q] >= passed[Last] /\ passed[q] <= Sent
    BY <1>1, <1>5 DEF IInv, InOrder
  <2>4. passed[Last] = Total(R) /\ Sent = Total(R)
    BY <1>1, <2>1, <2>2, <2>3
  <2>5. \A q \in Members : passed[q] = Total(R)
    BY <1>1, <2>3, <2>4
  <2> QED
    BY <2>1, <2>4, <2>5
<1>12. over => \A q \in Members : Alive(q) => Deciding(q)
  <2> HAVE over
  <2> TAKE q \in Members
  <2> HAVE Alive(q)
  <2>1. pc[q] \in {"ring", "decrypt"} /\ round[q] = R
    BY <1>2 DEF IInv, InStep
  <2>2. pc[q] = "ring" => passed[q] < Total(R)
    BY <2>1 DEF IInv, Standing
  <2> QED
    BY <1>1, <1>11, <2>1, <2>2 DEF Deciding
<1>13. served = {}
  BY <1>2 DEF IInv, Leading
<1>14. Types'
  <2>1. pc' \in [Parties -> MemberStates \union LeaderStates]
    BY <1>1, <1>2 DEF Types, LeaderStates
  <2> QED
    BY <1>1, <1>3, <1>7, <1>8, <1>10, <2>1 DEF Types, Same, LeaderStates
<1>15. Leading'
  BY <1>1, <1>2, <1>3, <1>5, <1>10, <1>11 DEF Same, IInv, Leading
<1>16. InOrder'
  BY <1>3 DEF Same, IInv, InOrder
<1>17. \A q \in Members : Standing(q)'
  BY <1>1, <1>3, <1>10 DEF Same, IInv, Standing, Alive
<1>18. \A q \in Members : InStep(q)'
  <2> TAKE q \in Members
  <2>1. pc'[q] = pc[q]
    BY <1>1, <1>10
  <2>2. CASE over
    <3>1. Alive(q)' => Deciding(q)'
      BY <1>3, <1>12, <2>1, <2>2 DEF Alive, Deciding, Same
    <3> QED
      BY <1>1, <1>3, <1>10, <2>2, <3>1 DEF Same, InStep
  <2>3. CASE ~ over
    BY <1>1, <1>3, <1>10, <2>3 DEF Same, IInv, InStep, Alive, Deciding, After
  <2> QED
    BY <2>2, <2>3
<1>19. \A x, y \in Members : x # y => Across(x, y)'
  <2> TAKE x, y \in Members
  <2> HAVE x # y
  <2>1. net'[x][y] = net[x][y]
    BY <1>1, <1>8
  <2>2. Across(x, y)
    BY DEF IInv
  <2> QED
    BY <1>3, <2>1, <2>2 DEF Same, Across
<1>20. \A q \in Members : Down(q)'
  <2> TAKE q \in Members
  <2>1. net'[leader][q] = net[leader][q] /\ pc'[q] = pc[q]
    BY <1>1, <1>8, <1>10
  <2>2. CASE over
    <3>1. Alive(q) => pc[q] = "decrypt" /\ net[leader][q] = <<>>
      BY <1>2, <1>12, <2>2 DEF IInv, Down, Deciding
    <3> QED
      BY <1>1, <1>3, <1>10, <2>1, <2>2, <3>1 DEF Same, Down, Alive
  <2>3. CASE ~ over
    BY <1>1, <1>2, <1>3, <1>10, <2>1, <2>3 DEF Same, IInv, Down, Alive
  <2> QED
    BY <2>2, <2>3
<1>21. \A q \in Members : Up(q)'
  <2> TAKE q \in Members
  <2>1. IF q = Last THEN Flows(net'[q][leader], g + 1, passed[q], Answers, ones)
                    ELSE NextHop(q) # leader /\ net'[q][leader] = <<>>
    BY <1>1, <1>2, <1>5, <1>6, <1>8 DEF IInv, Up
  <2>2. CASE over
    <3>1. net'[q][leader] = <<>>
      <4>1. q = Last => Flows(net'[q][leader], g + 1, g + 1, Answers, ones)
        BY <1>11, <2>1, <2>2
      <4>2. g + 1 \in Nat
        BY <1>1
      <4> HIDE DEF g
      <4> QED
        BY <2>1, <4>1, <4>2, StillFlow
    <3> QED
      BY <1>1, <1>3, <1>10, <2>2, <3>1 DEF Same, Up
  <2>3. CASE ~ over
    <3>1. pc'[leader] = "ring"
      BY <1>1, <1>2, <1>10, <2>3
    <3> QED
      BY <1>3, <1>4, <1>9, <2>1, <3>1 DEF Same, Up
  <2> QED
    BY <2>2, <2>3
<1>22. Found'
  BY <1>1, <1>2, <1>3, <1>7, <1>9, <1>10 DEF Same, IInv, Found
<1> QED
  BY <1>3, <1>14, <1>15, <1>16, <1>17, <1>18, <1>19, <1>20, <1>21, <1>22 DEF IInv, Same

(* A batch goes to a member, once per round.                               *)
LEMMA ShareKeeps ==
  ASSUME IInv, Beh21Assumption, NEW m \in Members, Share(m)
  PROVE  IInv'
<1>1. /\ Types /\ R \in 1..3 /\ leader \in Parties /\ m \in Parties /\ m # leader
      /\ \A q \in Members : q \in Parties /\ q # leader
  BY Ground DEF IInv
<1>2. UNCHANGED <<chosen, round, elements, sent, scp, counts, passed, result, ones>>
  BY DEF Share
<1>3. Same /\ UNCHANGED <<round, elements, sent, scp, counts, passed, result, ones>> /\ Sent' = Sent
  <2>1. Same
    BY <1>2, Untouched DEF R, chosen
  <2> QED
    BY <1>2, <2>1 DEF Same
<1>4. /\ pc[leader] = "share" /\ m \notin served
      /\ Joins(m) => /\ served' = {} /\ \A q \in Members : q # m => q \in served
                     /\ \A q \in Parties : pc'[q] = IF q = leader THEN "collect" ELSE pc[q]
      /\ ~ Joins(m) => served' = served \union {m} /\ pc' = pc
      /\ served' \in SUBSET Members /\ served' # Members
      /\ pc' \in [Parties -> MemberStates \union LeaderStates]
  <2>1. "collect" \in LeaderStates /\ Serve(m, "share", "collect")
    BY DEF LeaderStates, Share
  <2> QED
    BY <1>1, <2>1, Serving
<1>5. Alive(m) => Deciding(m) /\ net[leader][m] = <<>>
  BY <1>4 DEF IInv, InStep, Down
<1>6. /\ Shaped(net') /\ \A x, y \in Parties :
           net'[x][y] = IF x = leader /\ y = m THEN Append(net[x][y], Batch(R)) ELSE net[x][y]
  <2>1. Shaped(net) /\ net' = Put(leader, m, Batch(R), net)
    BY <1>1 DEF Types, Share, Batch, R
  <2> QED
    BY <1>1, <2>1, OnePut
<1>7. Alive(m) => net'[leader][m] = <<Batch(round[m])>>
  <2>1. Alive(m) => round[m] = R
    BY <1>5 DEF Deciding
  <2> QED
    BY <1>1, <1>5, <1>6, <2>1, ShortStreams
<1>8. /\ \A q \in Members : pc'[q] = pc[q]
      /\ pc'[leader] = IF Joins(m) THEN "collect" ELSE "share"
  BY <1>1, <1>4
<1>9. Types'
  BY <1>1, <1>3, <1>4, <1>6, <1>8 DEF Types, Same, LeaderStates
<1>10. Leading'
  BY <1>1, <1>3, <1>4, <1>8 DEF Same, IInv, Leading
<1>11. InOrder'
  BY <1>3 DEF Same, IInv, InOrder
<1>12. \A q \in Members : Standing(q)'
  BY <1>3, <1>8 DEF Same, IInv, Standing, Alive
<1>13. \A q \in Members : InStep(q)'
  BY <1>3, <1>4, <1>5, <1>8 DEF Same, IInv, InStep, Alive, Deciding, After
<1>14. \A x, y \in Members : x # y => Across(x, y)'
  BY <1>1, <1>3, <1>6 DEF Same, IInv, Across
<1>15. \A q \in Members : Down(q)'
  <2> TAKE q \in Members
  <2>1. CASE q # m
    <3>1. net'[leader][q] = net[leader][q]
      BY <1>1, <1>6, <2>1
    <3> QED
      BY <1>3, <1>4, <1>8, <2>1, <3>1 DEF Same, IInv, Down, Alive, Deciding
  <2>2. CASE q = m
    <3>1. Alive(m) => pc[m] = "decrypt" /\ round[m] = R
      BY <1>5 DEF Deciding
    <3> QED
      BY <1>3, <1>4, <1>7, <1>8, <2>2, <3>1 DEF Same, Down, Alive, Deciding
  <2> QED
    BY <2>1, <2>2
<1>16. \A q \in Members : Up(q)'
  <2> TAKE q \in Members
  <2>1. net'[q][leader] = net[q][leader]
    BY <1>1, <1>6
  <2> QED
    BY <1>3, <1>4, <1>8, <2>1 DEF Same, IInv, Up, Deciding
<1>17. Found'
  BY <1>3, <1>4, <1>8 DEF Same, IInv, Found
<1> QED
  BY <1>3, <1>9, <1>10, <1>11, <1>12, <1>13, <1>14, <1>15, <1>16, <1>17 DEF IInv, Same

-----------------------------------------------------------------------------
(* What the leader counts: the members whose filter has the element.       *)
LEMMA SelectType ==
  ASSUME NEW tr \in Triples
  PROVE  Select(tr) \in {0, 1}
BY DEF Triples, Select

(* The sum of the selected bits of an element is the number of members     *)
(* that hit it.                                                            *)
LEMMA Counting ==
  ASSUME IInv, Beh21Assumption, R = 1, Len(scp) = Items, NEW i \in 1..Size
  PROVE  CountOf(i) \in Nat /\ (~ ones => CountOf(i) = Cardinality(Hits(i)))
<1> DEFINE n == N - 1
           f == [k \in 1..(N - 1) |-> Select(scp[(i - 1) * (N - 1) + k])]
           K == {k \in 1..n : f[k] = 1}
           at == [k \in K |-> MemberAt(k - 1)]
<1>1. /\ Types /\ n \in Nat /\ n >= 1 /\ Size \in Nat /\ Base = 0 /\ Items = Size * n /\ i \in Nat
      /\ Total(1) = Size * n /\ N \in Nat
  BY Ground DEF IInv, Total
<1>2. /\ scp \in Seq(Triples) /\ Len(scp) = Size * n
      /\ ~ ones => \A g \in 1..(Size * n) : Carries(scp[g], Answers[g])
  <2>1. Flows(scp, 0, 0 + Len(scp), Answers, ones)
    BY <1>1 DEF IInv, Found
  <2>2. \A g \in 1..(Size * n) : 0 + g = g
    BY <1>1
  <2> QED
    BY <1>1, <2>1, <2>2 DEF Flows
<1>3. \A k \in 1..n : /\ Number(i, k, n) \in 1..(Size * n)
                      /\ (Number(i, k, n) - 1) % n = k - 1
                      /\ ((Number(i, k, n) - 1) \div n) + 1 = i
  BY <1>1, Numbering
<1>4. DOMAIN f = 1..n /\ \A k \in 1..n : f[k] = Select(scp[Number(i, k, n)])
  BY DEF Number
<1>5. \A k \in 1..n : f[k] \in {0, 1}
  <2> TAKE k \in 1..n
  <2>1. scp[Number(i, k, n)] \in Triples
    BY <1>1, <1>2, <1>3, ElementOfSeq
  <2> QED
    BY <1>4, <2>1, SelectType
<1>6. CountOf(i) = SumFunctionOnSet(f, 1..n)
  <2>1. CountOf(i) = FoldFunction(+, 0, f)
    BY DEF CountOf
  <2> QED
    BY <1>4, <2>1 DEF FoldFunction, SumFunctionOnSet, FoldFunctionOnSet, MapThenFoldSet
<1>7. IsFiniteSet(1..n)
  BY <1>1, FS_Interval
<1> HIDE DEF f
<1>8. CountOf(i) = Cardinality(K) /\ CountOf(i) \in Nat
  <2>1. CountOf(i) = Cardinality(K)
    BY <1>5, <1>6, <1>7, SumCounts
  <2>2. Cardinality(K) \in Nat
    BY <1>7, FS_Subset, FS_CardinalityType
  <2> QED
    BY <2>1, <2>2
<1> HIDE DEF n
<1>9. ASSUME ~ ones, NEW k \in 1..n
      PROVE  f[k] = 1 <=> MemberAt(k - 1) \in Hits(i)
  <2> DEFINE g == Number(i, k, n)
  <2>1. g \in 1..(Size * n) /\ ((g - 1) % n) = k - 1 /\ ((g - 1) \div n) + 1 = i
    BY <1>3
  <2>2. Carries(scp[g], Answers[g]) /\ f[k] = Select(scp[g])
    BY <1>2, <1>4, <1>9, <2>1
  <2> HIDE DEF g
  <2>3. Answers[g] = (bits[AskedMember(g)][AskedElement(g)] = NumHash) /\ Answers[g] \in BOOLEAN
    <3>1. g \in 1..Total(R) /\ g <= Total(1)
      BY <1>1, <2>1
    <3> QED
      BY <1>1, <3>1, AnswersDecide
  <2>4. AskedMember(g) = MemberAt(k - 1) /\ AskedElement(g) = input[leader][i]
    BY <2>1 DEF AskedMember, AskedElement, n
  <2>5. f[k] = IF Answers[g] THEN 1 ELSE 0
    BY <2>2, <2>3, SelectReturns
  <2>6. MemberAt(k - 1) \in Members
    <3>1. k - 1 \in 0..(N - 2)
      BY <1>1 DEF n
    <3> QED
      BY <1>1, <3>1, MemberPositions
  <2>7. Answers[g] <=> bits[MemberAt(k - 1)][input[leader][i]] = NumHash
    BY <2>3, <2>4
  <2>8. MemberAt(k - 1) \in Hits(i) <=> bits[MemberAt(k - 1)][input[leader][i]] = NumHash
    BY <2>6 DEF Hits
  <2> QED
    BY <2>5, <2>7, <2>8
<1>10. ASSUME ~ ones PROVE at \in Bijection(K, Hits(i))
  <2>1. \A k \in K : at[k] \in Hits(i)
    BY <1>9, <1>10
  <2>2. \A k \in 1..n : k - 1 \in 0..(N - 2)
    BY <1>1 DEF n
  <2>3. \A j, k \in K : at[j] = at[k] => j = k
    <3> TAKE j, k \in K
    <3> HAVE at[j] = at[k]
    <3>1. Position(MemberAt(j - 1)) = j - 1 /\ Position(MemberAt(k - 1)) = k - 1
      BY <1>1, <2>2, MemberPositions
    <3> QED
      BY <3>1
  <2>4. \A q \in Hits(i) : \E k \in K : at[k] = q
    <3> TAKE q \in Hits(i)
    <3>1. q \in Members
      BY DEF Hits
    <3>2. Position(q) \in 0..(N - 2) /\ MemberAt(Position(q)) = q
      BY <1>1, <3>1, MemberPositions
    <3> DEFINE k == Position(q) + 1
    <3>3. k \in 1..n /\ k - 1 = Position(q)
      BY <1>1, <3>2 DEF n
    <3>4. k \in K
      BY <1>9, <1>10, <3>2, <3>3
    <3> QED
      BY <3>2, <3>3, <3>4
  <2>5. at \in [K -> Hits(i)]
    BY <2>1
  <2> HIDE DEF at, K
  <2>6. at \in Injection(K, Hits(i))
    BY <2>3, <2>5 DEF Injection, IsInjective, at
  <2>7. at \in Surjection(K, Hits(i))
    BY <2>4, <2>5 DEF Surjection
  <2> QED
    BY <2>6, <2>7 DEF Bijection
<1>11. ASSUME ~ ones PROVE Cardinality(K) = Cardinality(Hits(i))
  <2>1. IsFiniteSet(K)
    BY <1>7, FS_Subset
  <2>2. ExistsBijection(K, Hits(i))
    BY <1>10, <1>11 DEF ExistsBijection
  <2> HIDE DEF K
  <2> QED
    BY <2>1, <2>2, FS_Bijection
<1> QED
  BY <1>8, <1>11

-----------------------------------------------------------------------------
(* The end of a batch.  What the leader reads is the answer of a member    *)
(* that has gone on; the last answer starts the next round.                *)
Collected(m) ==
    /\ pc[leader] = "collect" /\ m \notin served
    /\ leader = N - 1 /\ Len(scp) = Items /\ Sent = Total(R)
    /\ \A q \in Members : passed[q] = Total(R)
    /\ Shaped(net')
    /\ \A x, y \in Parties : net'[x][y] = IF x = m /\ y = leader THEN <<>> ELSE net[x][y]
    /\ \A q \in Members : q \in served \/ q = m => net'[q][leader] = <<>>
    /\ \A q \in Members : Alive(q) /\ (q \in served \/ q = m) => After(q, R)
    /\ \A x, y \in Members : x # y => net[x][y] = <<>>
    /\ \A q \in Members : Alive(q) /\ ~ Deciding(q) => net[leader][q] = <<>>
    /\ Joins(m) => served' = {} /\ \A q \in Members : q # m => q \in served
    /\ ~ Joins(m) => served' = served \union {m}
    /\ served' \in SUBSET Members /\ served' # Members
    /\ pc' \in [Parties -> MemberStates \union LeaderStates]
    /\ \A q \in Members : pc'[q] = pc[q]
    /\ pc'[leader] = IF Joins(m) THEN AfterBatch ELSE "collect"

(* What a step that reads a partial decryption finds.                      *)
LEMMA Collecting ==
  ASSUME IInv, Beh21Assumption, NEW m \in Members, CollectPartial(m)
  PROVE  Collected(m)
<1>1. /\ Types /\ R \in 1..3 /\ leader \in Parties /\ m \in Parties /\ m # leader
      /\ \A q \in Members : q \in Parties /\ q # leader /\ passed[q] \in Nat
  BY Ground DEF IInv
<1>2. /\ pc[leader] = "collect" /\ m \notin served
      /\ Joins(m) => /\ served' = {} /\ \A q \in Members : q # m => q \in served
                     /\ \A q \in Parties : pc'[q] = IF q = leader THEN AfterBatch ELSE pc[q]
      /\ ~ Joins(m) => served' = served \union {m} /\ pc' = pc
      /\ served' \in SUBSET Members /\ served' # Members
      /\ pc' \in [Parties -> MemberStates \union LeaderStates]
  <2>1. AfterBatch \in LeaderStates
    BY <1>1 DEF AfterBatch, LeaderStates, R
  <2>2. Serve(m, "collect", AfterBatch)
    BY DEF CollectPartial
  <2> QED
    BY <1>1, <2>1, <2>2, Serving
<1>3. leader = N - 1 /\ Len(scp) = Items /\ Sent = Total(R) /\ \A q \in Members : passed[q] = Total(R)
  BY <1>2 DEF IInv, Leading
<1>4. net[m][leader] = <<Batch(R)>> /\ ~ Deciding(m) /\ Tail(net[m][leader]) = <<>>
  <2>1. net[m][leader] = <<Batch(R)>> /\ ~ Deciding(m)
    BY <1>2 DEF IInv, Up, CollectPartial, Has
  <2> QED
    BY <2>1, ShortStreams
<1>5. /\ Shaped(net') /\ \A x, y \in Parties : net'[x][y] = IF x = m /\ y = leader THEN <<>> ELSE net[x][y]
  <2>1. Shaped(net) /\ net' = Take(m, leader, net)
    BY <1>1 DEF Types, CollectPartial
  <2> QED
    BY <1>1, <1>4, <2>1 DEF Shaped, Take
<1>6. \A q \in Members : q \in served \/ q = m => net'[q][leader] = <<>>
  BY <1>1, <1>2, <1>5 DEF IInv, Up
<1>7. \A q \in Members : Alive(q) /\ (q \in served \/ q = m) => After(q, R)
  BY <1>2, <1>4 DEF IInv, InStep
<1>8. \A x, y \in Members : x # y => net[x][y] = <<>>
  <2> TAKE x, y \in Members
  <2> HAVE x # y
  <2>1. Across(x, y)
    BY DEF IInv
  <2>2. passed[x] = passed[y] /\ passed[x] \in Nat
    BY <1>1, <1>3
  <2> QED
    BY <2>1, <2>2, StillFlow DEF Across
<1>9. \A q \in Members : Alive(q) /\ ~ Deciding(q) => net[leader][q] = <<>>
  BY <1>2 DEF IInv, Down
<1>10. \A q \in Members : pc'[q] = pc[q]
  BY <1>1, <1>2
<1>11. pc'[leader] = IF Joins(m) THEN AfterBatch ELSE "collect"
  BY <1>1, <1>2
<1> QED
  BY <1>2, <1>3, <1>5, <1>6, <1>7, <1>8, <1>9, <1>10, <1>11 DEF Collected

(* After the batch, a member is past it.                                   *)
LEMMA PastTheBatch ==
  ASSUME NEW m \in Members, After(m, R), R \in 1..3
  PROVE  ~ Deciding(m)
BY DEF After, Deciding

(* An answer that is not the last one.                                     *)
LEMMA CollectOneKeeps ==
  ASSUME IInv, Beh21Assumption, NEW m \in Members, CollectPartial(m), ~ Joins(m)
  PROVE  IInv'
<1>1. /\ Types /\ R \in 1..3 /\ leader \in Parties /\ m \in Parties /\ m # leader
      /\ \A q \in Members : q \in Parties /\ q # leader /\ passed[q] \in Nat
      /\ UNCHANGED <<chosen, round, elements, sent, scp, counts, passed, result, ones>>
  BY Ground DEF IInv, CollectPartial
<1>2. Same /\ UNCHANGED <<round, elements, sent, scp, counts, passed, result, ones>> /\ Sent' = Sent
  <2>1. Same
    BY <1>1, Untouched DEF R, chosen
  <2> QED
    BY <1>1, <2>1 DEF Same
<1>3. Collected(m)
  BY Collecting
<1>4. pc[leader] = "collect" /\ pc'[leader] = "collect" /\ served' = served \union {m}
  BY <1>3 DEF Collected
<1>5. Types'
  BY <1>1, <1>2, <1>3, <1>4 DEF Collected, Types, Same, LeaderStates
<1>6. Leading'
  BY <1>1, <1>2, <1>4 DEF Same, IInv, Leading
<1>7. InOrder'
  BY <1>2 DEF Same, IInv, InOrder
<1>8. \A q \in Members : pc'[q] = pc[q] /\ net'[leader][q] = net[leader][q]
  BY <1>1, <1>3 DEF Collected
<1>9. \A q \in Members : Standing(q)'
  BY <1>2, <1>8 DEF Same, IInv, Standing, Alive
<1>10. \A q \in Members : InStep(q)'
  <2> TAKE q \in Members
  <2>1. Alive(q) /\ q = m => After(q, R)
    BY <1>3 DEF Collected
  <2> QED
    BY <1>1, <1>2, <1>4, <1>8, <2>1 DEF Same, IInv, InStep, Alive, Deciding, After
<1>11. \A x, y \in Members : x # y => Across(x, y)'
  <2>1. \A x, y \in Members : net'[x][y] = net[x][y]
    BY <1>1, <1>3 DEF Collected
  <2> QED
    BY <1>2, <2>1 DEF Same, IInv, Across
<1>12. \A q \in Members : Down(q)'
  BY <1>1, <1>2, <1>4, <1>8 DEF Same, IInv, Down, Alive, Deciding
<1>13. \A q \in Members : Up(q)'
  <2> TAKE q \in Members
  <2>1. net'[q][leader] = <<>> \/ (net'[q][leader] = net[q][leader] /\ q # m)
    BY <1>1, <1>3 DEF Collected
  <2> QED
    BY <1>1, <1>2, <1>4, <1>8, <2>1 DEF Same, IInv, Up, Deciding
<1>14. Found'
  BY <1>1, <1>2, <1>4 DEF Same, IInv, Found
<1> QED
  BY <1>2, <1>5, <1>6, <1>7, <1>9, <1>10, <1>11, <1>12, <1>13, <1>14 DEF IInv, Same

(* The last answer: everyone is past the batch, and every stream is empty. *)
LEMMA CollectingAll ==
  ASSUME IInv, Beh21Assumption, NEW m \in Members, CollectPartial(m), Joins(m)
  PROVE  /\ pc[leader] = "collect" /\ pc'[leader] = AfterBatch /\ served' = {}
         /\ \A q \in Members : pc'[q] = pc[q] /\ net'[q][leader] = <<>>
         /\ \A q \in Members : Alive(q) => After(q, R) /\ net'[leader][q] = <<>>
         /\ \A x, y \in Members : x # y => net'[x][y] = <<>>
<1>1. Collected(m) /\ R \in 1..3 /\ leader \in Parties /\ \A q \in Members : q \in Parties /\ q # leader
  BY Collecting, Ground DEF IInv
<1>2. \A q \in Members : q \in served \/ q = m
  BY <1>1 DEF Collected
<1>3. \A q \in Members : net'[leader][q] = net[leader][q]
  BY <1>1 DEF Collected
<1>4. \A x, y \in Members : net'[x][y] = net[x][y]
  BY <1>1 DEF Collected
<1>5. \A q \in Members : Alive(q) => After(q, R) /\ net'[leader][q] = <<>>
  <2> TAKE q \in Members
  <2> HAVE Alive(q)
  <2>1. After(q, R)
    BY <1>1, <1>2 DEF Collected
  <2>2. ~ Deciding(q)
    BY <1>1, <2>1, PastTheBatch
  <2>3. net[leader][q] = <<>>
    BY <1>1, <2>2 DEF Collected
  <2> QED
    BY <1>3, <2>1, <2>3
<1> QED
  BY <1>1, <1>2, <1>4, <1>5 DEF Collected

(* After the bits of the first round, the leader counts them.              *)
LEMMA FirstBatchKeeps ==
  ASSUME IInv, Beh21Assumption, NEW m \in Members, CollectPartial(m), Joins(m), R = 1
  PROVE  IInv'
<1>1. /\ Types /\ leader \in Parties
      /\ \A q \in Members : q \in Parties /\ q # leader /\ passed[q] \in Nat
      /\ Size \in Nat /\ Total(1) \in Nat /\ Total(2) = Total(1) + Size
      /\ Sent = Total(1) /\ leader = N - 1 /\ \A q \in Members : passed[q] = Total(1)
      /\ Len(scp) = Items
  BY Collecting, Ground DEF IInv, Collected
<1>2. /\ UNCHANGED <<chosen, elements, passed, ones, result>>
      /\ counts' = [i \in 1..Size |-> CountOf(i)] /\ scp' = <<>> /\ sent' = 0
      /\ round' = [round EXCEPT ![leader] = 2]
  BY <1>1 DEF CollectPartial, Fuse, R, Types
<1>3. /\ leader' = leader /\ input' = input /\ bits' = bits /\ threshold' = threshold
      /\ Members' = Members /\ First' = First /\ Last' = Last
      /\ Size' = Size /\ Entered' = Entered /\ \A r : Total(r)' = Total(r)
      /\ \A q \in Members : Prev(q)' = Prev(q) /\ NextHop(q)' = NextHop(q)
      /\ \A i : Hits(i)' = Hits(i)
  BY <1>2, Fixed
<1>4. \A q \in Parties : round'[q] = IF q = leader THEN 2 ELSE round[q]
  BY <1>1, <1>2 DEF Types
<1>5. R' = 2 /\ Base' = Total(1) /\ Sent' = Total(1)
  <2>1. R' = 2
    BY <1>1, <1>3, <1>4 DEF R
  <2>2. Base' = Total(1)
    BY <1>3, <2>1 DEF Base
  <2> QED
    BY <1>1, <1>2, <2>1, <2>2 DEF Sent
<1>6. /\ pc[leader] = "collect" /\ pc'[leader] = "ring" /\ served' = {}
      /\ \A q \in Members : pc'[q] = pc[q] /\ net'[q][leader] = <<>>
      /\ \A q \in Members : Alive(q) => pc[q] = "ring" /\ round[q] = 2 /\ net'[leader][q] = <<>>
      /\ \A x, y \in Members : x # y => net'[x][y] = <<>>
  <2>1. AfterBatch = "ring"
    BY DEF AfterBatch, R
  <2> QED
    BY <2>1, CollectingAll DEF After
<1>7. \A i \in 1..Size : CountOf(i) \in Nat /\ (~ ones => CountOf(i) = Cardinality(Hits(i)))
  BY <1>1, Counting
<1>8. Types'
  <2>1. counts' \in [1..Size -> Nat]
    BY <1>2, <1>7
  <2>2. /\ Shaped(net') /\ served' \in SUBSET Members /\ served' # Members
        /\ pc' \in [Parties -> MemberStates \union LeaderStates]
    BY Collecting DEF Collected
  <2>3. round' \in [Parties -> 1..3]
    BY <1>1, <1>2 DEF Types
  <2>4. scp' \in Seq(Triples) /\ sent' \in Nat
    BY <1>2
  <2> QED
    BY <1>1, <1>2, <1>3, <1>6, <2>1, <2>2, <2>3, <2>4 DEF Types, LeaderStates
<1>9. Leading'
  BY <1>1, <1>3, <1>5, <1>6 DEF Leading
<1>10. InOrder'
  BY <1>1, <1>2, <1>3, <1>5 DEF InOrder
<1>11. \A q \in Members : Standing(q)'
  <2> TAKE q \in Members
  <2>1. round'[q] = round[q] /\ pc'[q] = pc[q] /\ Standing(q)
    BY <1>1, <1>4, <1>6 DEF IInv
  <2>2. Alive(q) => pc[q] = "ring" /\ round[q] = 2
    BY <1>6
  <2> QED
    BY <1>2, <1>3, <1>5, <2>1, <2>2 DEF Standing, Alive
<1>12. \A q \in Members : InStep(q)'
  BY <1>1, <1>3, <1>4, <1>5, <1>6 DEF InStep, Alive
<1>13. \A x, y \in Members : x # y => Across(x, y)'
  <2> TAKE x, y \in Members
  <2> HAVE x # y
  <2>1. net'[x][y] = <<>> /\ passed'[x] = passed'[y] /\ passed'[x] \in Nat
    BY <1>1, <1>2, <1>6
  <2>2. Flows(<<>>, passed'[y], passed'[x], Answers', ones')
    BY <2>1, StillFlow
  <2> QED
    BY <1>3, <2>1, <2>2 DEF Across
<1>14. \A q \in Members : Down(q)'
  <2> TAKE q \in Members
  <2>1. CASE Alive(q)
    <3>1. net'[leader][q] = <<>> /\ pc'[q] = "ring" /\ pc'[leader] = "ring"
      BY <1>6, <2>1
    <3>2. passed'[q] = Sent' /\ Sent' \in Nat
      BY <1>1, <1>2, <1>5
    <3>3. Starts(<<>>, passed'[q], Sent', Answers')
      BY <3>2, StillStart
    <3> QED
      BY <1>3, <3>1, <3>3 DEF Down
  <2>2. CASE ~ Alive(q)
    BY <1>3, <1>6, <2>2 DEF Down, Alive
  <2> QED
    BY <2>1, <2>2
<1>15. \A q \in Members : Up(q)'
  <2> TAKE q \in Members
  <2>1. net'[q][leader] = <<>> /\ pc'[leader] = "ring"
    BY <1>6
  <2>2. passed'[q] = Total(1) /\ Base' + Len(scp') = Total(1)
    BY <1>1, <1>2, <1>5
  <2>3. Flows(<<>>, Base' + Len(scp'), passed'[q], Answers', ones')
    BY <1>1, <2>2, StillFlow
  <2> QED
    BY <1>3, <2>1, <2>3 DEF Up
<1>16. Found'
  <2>1. Base' + Len(scp') = Base' /\ Base' \in Nat /\ scp' = <<>>
    BY <1>1, <1>2, <1>5
  <2>2. Flows(scp', Base', Base' + Len(scp'), Answers', ones')
    BY <2>1, StillFlow
  <2>3. ~ ones => \A i \in 1..Size : counts'[i] = Cardinality(Hits(i))
    BY <1>2, <1>7
  <2> QED
    BY <1>2, <1>3, <1>6, <2>2, <2>3 DEF Found
<1> QED
  BY <1>3, <1>8, <1>9, <1>10, <1>11, <1>12, <1>13, <1>14, <1>15, <1>16 DEF IInv

(* After the first triples of the second round were decrypted, the leader  *)
(* shares the ones that it selects.                                        *)
LEMMA SecondBatchKeeps ==
  ASSUME IInv, Beh21Assumption, NEW m \in Members, CollectPartial(m), Joins(m), R = 2
  PROVE  IInv'
<1>1. /\ Types /\ leader \in Parties
      /\ \A q \in Members : q \in Parties /\ q # leader /\ passed[q] \in Nat
      /\ Size \in Nat /\ Total(1) \in Nat /\ Total(2) = Total(1) + Size /\ Total(3) = Total(2)
      /\ Sent = Total(2) /\ leader = N - 1 /\ \A q \in Members : passed[q] = Total(2)
      /\ Len(scp) = Items /\ Base = Total(1) /\ Items = Size
  BY Collecting, Ground DEF IInv, Collected
<1>2. /\ UNCHANGED <<chosen, elements, passed, ones, result, counts, scp, sent>>
      /\ round' = [round EXCEPT ![leader] = 3]
  BY <1>1 DEF CollectPartial, Fuse, R, Types
<1>3. /\ leader' = leader /\ input' = input /\ bits' = bits /\ threshold' = threshold
      /\ Members' = Members /\ First' = First /\ Last' = Last
      /\ Size' = Size /\ Entered' = Entered /\ \A r : Total(r)' = Total(r)
      /\ \A q \in Members : Prev(q)' = Prev(q) /\ NextHop(q)' = NextHop(q)
      /\ \A i : Hits(i)' = Hits(i)
      /\ Answers' = Answers
  BY <1>2, Fixed, AnswersStay
<1>4. \A q \in Parties : round'[q] = IF q = leader THEN 3 ELSE round[q]
  BY <1>1, <1>2 DEF Types
<1>5. R' = 3 /\ Base' = Base /\ Sent' = Sent /\ Items' = Items
  <2>1. R' = 3
    BY <1>1, <1>3, <1>4 DEF R
  <2>2. Base' = Base
    BY <1>1, <1>3, <2>1 DEF Base
  <2>3. Items' = Items
    BY <1>1, <1>3, <2>1 DEF Items, R
  <2> QED
    BY <1>2, <2>1, <2>2, <2>3 DEF Sent
<1>6. /\ pc[leader] = "collect" /\ pc'[leader] = "share" /\ served' = {}
      /\ \A q \in Members : pc'[q] = pc[q] /\ net'[q][leader] = <<>>
      /\ \A q \in Members : Alive(q) => pc[q] = "decrypt" /\ round[q] = 3 /\ net'[leader][q] = <<>>
      /\ \A x, y \in Members : x # y => net'[x][y] = <<>>
  <2>1. AfterBatch = "share"
    BY DEF AfterBatch, R
  <2> QED
    BY <2>1, CollectingAll DEF After
<1>7. Types'
  <2>1. counts' \in [1..Size -> Nat]
    BY <1>1, <1>2 DEF Types
  <2>2. /\ Shaped(net') /\ served' \in SUBSET Members /\ served' # Members
        /\ pc' \in [Parties -> MemberStates \union LeaderStates]
    BY Collecting DEF Collected
  <2>3. round' \in [Parties -> 1..3]
    BY <1>1, <1>2 DEF Types
  <2> QED
    BY <1>1, <1>2, <1>3, <1>6, <2>1, <2>2, <2>3 DEF Types, LeaderStates
<1>8. Leading'
  BY <1>1, <1>2, <1>3, <1>5, <1>6 DEF Leading
<1>9. InOrder'
  BY <1>1, <1>2, <1>3, <1>5 DEF InOrder
<1>10. \A q \in Members : Standing(q)'
  <2> TAKE q \in Members
  <2>1. round'[q] = round[q] /\ pc'[q] = pc[q] /\ Standing(q)
    BY <1>1, <1>4, <1>6 DEF IInv
  <2>2. Alive(q) => pc[q] = "decrypt" /\ round[q] = 3
    BY <1>6
  <2> QED
    BY <1>1, <1>2, <1>3, <1>5, <2>1, <2>2 DEF Standing, Alive
<1>11. \A q \in Members : InStep(q)'
  BY <1>1, <1>3, <1>4, <1>5, <1>6 DEF InStep, Alive, Deciding
<1>12. \A x, y \in Members : x # y => Across(x, y)'
  <2> TAKE x, y \in Members
  <2> HAVE x # y
  <2>1. net'[x][y] = <<>> /\ passed'[x] = passed'[y] /\ passed'[x] \in Nat
    BY <1>1, <1>2, <1>6
  <2>2. Flows(<<>>, passed'[y], passed'[x], Answers', ones')
    BY <2>1, StillFlow
  <2> QED
    BY <1>3, <2>1, <2>2 DEF Across
<1>13. \A q \in Members : Down(q)'
  <2> TAKE q \in Members
  <2>1. CASE Alive(q)
    <3>1. net'[leader][q] = <<>> /\ pc'[q] = "decrypt" /\ pc'[leader] = "share"
      BY <1>6, <2>1
    <3> QED
      BY <1>3, <3>1 DEF Down
  <2>2. CASE ~ Alive(q)
    BY <1>3, <1>6, <2>2 DEF Down, Alive
  <2> QED
    BY <2>1, <2>2
<1>14. \A q \in Members : Up(q)'
  BY <1>3, <1>6 DEF Up
<1>15. Found'
  <2>1. Flows(scp, Base, Base + Len(scp), Answers, ones)
    BY DEF IInv, Found
  <2>2. ~ ones => \A i \in 1..Size : counts[i] = Cardinality(Hits(i))
    BY DEF IInv, Found
  <2> QED
    BY <1>2, <1>3, <1>5, <1>6, <2>1, <2>2 DEF Found
<1> QED
  BY <1>3, <1>7, <1>8, <1>9, <1>10, <1>11, <1>12, <1>13, <1>14, <1>15 DEF IInv

(* After the answers of the second round, the leader has the result.       *)
LEMMA ThirdBatchKeeps ==
  ASSUME IInv, Beh21Assumption, NEW m \in Members, CollectPartial(m), Joins(m), R = 3
  PROVE  IInv'
<1>1. /\ Types /\ leader \in Parties
      /\ \A q \in Members : q \in Parties /\ q # leader /\ passed[q] \in Nat
      /\ Size \in Nat /\ Total(1) \in Nat /\ Total(3) = Total(1) + Size
      /\ Sent = Total(3) /\ \A q \in Members : passed[q] = Total(3)
      /\ Len(scp) = Items /\ Base = Total(1) /\ Items = Size
  <2>1. Types /\ Sent = Total(R) /\ Len(scp) = Items /\ \A q \in Members : passed[q] = Total(R)
    BY Collecting DEF IInv, Collected
  <2>2. Sent = Total(3) /\ \A q \in Members : passed[q] = Total(3)
    BY <2>1
  <2> QED
    BY <2>1, <2>2, Ground
<1>2. /\ UNCHANGED <<chosen, elements, passed, ones, counts, scp, sent>>
      /\ result' = {i \in 1..Size : Select(scp[i]) = 1}
      /\ round' = round
  <2>1. round' = [round EXCEPT ![leader] = 3]
    BY <1>1 DEF CollectPartial, R, Types
  <2>2. round' = round
    BY <1>1, <2>1 DEF R, Types
  <2> QED
    BY <2>2 DEF CollectPartial, Fuse, R
<1>3. Same /\ Sent' = Sent
  <2>1. Same
    BY <1>2, Untouched DEF R, chosen
  <2> QED
    BY <1>2, <2>1 DEF Same
<1>4. /\ pc[leader] = "collect" /\ pc'[leader] = "done" /\ served' = {}
      /\ \A q \in Members : pc'[q] = pc[q] /\ net'[q][leader] = <<>>
      /\ \A q \in Members : Alive(q) => pc[q] = "done" /\ net'[leader][q] = <<>>
      /\ \A x, y \in Members : x # y => net'[x][y] = <<>>
  <2>1. AfterBatch = "done"
    BY DEF AfterBatch, R
  <2> QED
    BY <2>1, CollectingAll DEF After
<1>5. Types'
  <2>1. /\ Shaped(net') /\ served' \in SUBSET Members /\ served' # Members
        /\ pc' \in [Parties -> MemberStates \union LeaderStates]
    BY Collecting DEF Collected
  <2> QED
    BY <1>1, <1>2, <1>3, <1>4, <2>1 DEF Types, Same, LeaderStates
<1>6. Leading'
  BY <1>1, <1>3, <1>4 DEF Same, IInv, Leading
<1>7. InOrder'
  BY <1>2, <1>3 DEF Same, IInv, InOrder
<1>8. \A q \in Members : Standing(q)'
  BY <1>2, <1>3, <1>4 DEF Same, IInv, Standing, Alive
<1>9. \A q \in Members : InStep(q)'
  BY <1>3, <1>4 DEF Same, InStep
<1>10. \A x, y \in Members : x # y => Across(x, y)'
  <2> TAKE x, y \in Members
  <2> HAVE x # y
  <2>1. net'[x][y] = <<>> /\ passed'[x] = passed'[y] /\ passed'[x] \in Nat
    BY <1>1, <1>2, <1>4
  <2>2. Flows(<<>>, passed'[y], passed'[x], Answers', ones')
    BY <2>1, StillFlow
  <2> QED
    BY <1>3, <2>1, <2>2 DEF Same, Across
<1>11. \A q \in Members : Down(q)'
  <2> TAKE q \in Members
  <2>1. CASE Alive(q)
    <3>1. net'[leader][q] = <<>> /\ pc'[q] = "done" /\ pc'[leader] = "done"
      BY <1>4, <2>1
    <3> QED
      BY <1>3, <3>1 DEF Same, Down
  <2>2. CASE ~ Alive(q)
    BY <1>3, <1>4, <2>2 DEF Same, Down, Alive
  <2> QED
    BY <2>1, <2>2
<1>12. \A q \in Members : Up(q)'
  BY <1>3, <1>4 DEF Same, Up
<1>13. ~ ones => \A i \in 1..Size : Select(scp[i]) = 1 <=> Answers[Total(1) + i]
  <2> SUFFICES ASSUME ~ ones, NEW i \in 1..Size PROVE Select(scp[i]) = 1 <=> Answers[Total(1) + i]
    OBVIOUS
  <2>1. Flows(scp, Base, Base + Len(scp), Answers, ones)
    BY DEF IInv, Found
  <2>2. Carries(scp[i], Answers[Total(1) + i])
    BY <1>1, <2>1 DEF Flows
  <2>3. Total(1) + i \in 1..Total(R)
    BY <1>1
  <2>4. Answers[Total(1) + i] \in BOOLEAN
    BY <1>1, <2>3, AnswersDecide
  <2> QED
    BY <2>2, <2>4, SelectReturns
<1>14. Found'
  <2>1. Flows(scp, Base, Base + Len(scp), Answers, ones)
    BY DEF IInv, Found
  <2>2. ~ ones => \A i \in 1..Size : counts[i] = Cardinality(Hits(i))
    BY DEF IInv, Found
  <2>3. ~ ones => result' = {i \in 1..Size : Answers[Total(1) + i]}
    BY <1>2, <1>13
  <2> QED
    BY <1>2, <1>3, <2>1, <2>2, <2>3 DEF Same, Found
<1> QED
  BY <1>3, <1>5, <1>6, <1>7, <1>8, <1>9, <1>10, <1>11, <1>12, <1>14 DEF IInv, Same

(* Any answer, the last one of each round included.                        *)
LEMMA CollectPartialKeeps ==
  ASSUME IInv, Beh21Assumption, NEW m \in Members, CollectPartial(m)
  PROVE  IInv'
<1>1. R \in 1..3
  BY Ground DEF IInv
<1>2. CASE ~ Joins(m)
  BY <1>2, CollectOneKeeps
<1>3. CASE Joins(m) /\ R = 1
  BY <1>3, FirstBatchKeeps
<1>4. CASE Joins(m) /\ R = 2
  BY <1>4, SecondBatchKeeps
<1>5. CASE Joins(m) /\ R = 3
  BY <1>5, ThirdBatchKeeps
<1> QED
  BY <1>1, <1>2, <1>3, <1>4, <1>5

-----------------------------------------------------------------------------
(* The invariant holds initially and every step keeps it.                  *)
LEMMA InitIInv ==
  ASSUME Init, Beh21Assumption
  PROVE  IInv
<1>1. /\ leader \in Parties /\ input \in [Parties -> Seq(Elements)] /\ threshold \in 2..N
      /\ bits \in [Members -> [Elements -> 0..NumHash]]
      /\ pc = [p \in Parties |-> IF p = leader THEN "sizes" ELSE "size"]
      /\ round = [p \in Parties |-> 1] /\ net = [p \in Parties |-> [q \in Parties |-> <<>>]]
      /\ elements = [p \in Parties |-> 0] /\ sent = 0 /\ scp = <<>>
      /\ passed = [p \in Parties |-> 0] /\ served = {} /\ result = {} /\ ones = FALSE
  BY DEF Init, Beh21Assumption
<1>2. \A q \in Members : q \in Parties /\ q # leader
  BY DEF Members
<1>3. Members # {}
  <2>1. N \in Nat /\ N >= 2 /\ leader \in 0..(N - 1)
    BY <1>1 DEF Beh21Assumption, Parties
  <2>2. 0 \in 0..(N - 1) /\ 1 \in 0..(N - 1)
    BY <2>1
  <2> QED
    BY <2>2 DEF Members, Parties
<1>4. R = 1 /\ Base = 0 /\ Sent = 0
  BY <1>1 DEF R, Base, Sent
<1>5. Types
  <2>1. pc[leader] = "sizes" /\ \A q \in Members : pc[q] = "size"
    BY <1>1, <1>2
  <2>2. Shaped(net)
    BY <1>1 DEF Shaped
  <2>3. pc \in [Parties -> MemberStates \union LeaderStates] /\ "sizes" \in LeaderStates /\ "size" \in MemberStates
    BY <1>1 DEF MemberStates, LeaderStates
  <2>4. round \in [Parties -> 1..3] /\ elements \in [Parties -> Nat] /\ passed \in [Parties -> Nat]
    BY <1>1
  <2>5. sent \in Nat /\ scp \in Seq(Triples) /\ served \in SUBSET Members /\ served # Members
    BY <1>1, <1>3
  <2>6. ones \in BOOLEAN
    BY <1>1
  <2> QED
    BY <1>1, <1>4, <2>1, <2>2, <2>3, <2>4, <2>5, <2>6 DEF Types
<1>6. pc[leader] = "sizes" /\ \A q \in Members : pc[q] = "size" /\ round[q] = 1 /\ passed[q] = 0
  BY <1>1, <1>2
<1>7. \A x, y \in Parties : net[x][y] = <<>>
  BY <1>1
<1>8. Leading /\ InOrder
  <2>1. Total(R) \in Nat
    BY <1>5, Ground
  <2>2. 0 <= Total(R)
    BY <2>1
  <2>3. Leading
    BY <1>1, <1>4, <1>6, <2>2 DEF Leading
  <2>4. InOrder
    BY <1>4, <1>6 DEF InOrder
  <2> QED
    BY <2>3, <2>4
<1>9. \A q \in Members : Standing(q) /\ InStep(q)
  BY <1>4, <1>6 DEF Standing, InStep
<1>10. Flows(<<>>, 0, 0, Answers, ones)
  BY StillFlow
<1>11. \A x, y \in Members : x # y => Across(x, y)
  BY <1>2, <1>6, <1>7, <1>10 DEF Across
<1>12. \A q \in Members : Down(q) /\ Up(q)
  BY <1>1, <1>2, <1>6, <1>7 DEF Down, Up
<1>13. Found
  BY <1>1, <1>4, <1>6, <1>10 DEF Found
<1> QED
  BY <1>5, <1>8, <1>9, <1>11, <1>12, <1>13 DEF IInv

(* A stuttering step.                                                      *)
LEMMA UnchangedKeeps ==
  ASSUME IInv, UNCHANGED vars
  PROVE  IInv'
<1>1. /\ UNCHANGED <<chosen, pc, net, progress>>
      /\ UNCHANGED <<round, elements, sent, scp, counts, passed, served, result, ones>>
  BY DEF vars, progress
<1>2. Same
  BY <1>1, Untouched DEF R, chosen
<1>3. Sent' = Sent
  BY <1>1, <1>2 DEF Same
<1>4. Types' /\ Leading' /\ InOrder'
  BY <1>1, <1>2, <1>3 DEF Same, IInv, Types, Shaped, Leading, InOrder
<1>5. \A q \in Members : Standing(q)' /\ InStep(q)'
  BY <1>1, <1>2, <1>3 DEF Same, IInv, Standing, InStep, Alive, Deciding, After
<1>6. \A x, y \in Members : x # y => Across(x, y)'
  BY <1>1, <1>2 DEF Same, IInv, Across
<1>7. \A q \in Members : Down(q)' /\ Up(q)'
  BY <1>1, <1>2, <1>3 DEF Same, IInv, Down, Up, Alive, Deciding
<1>8. Found'
  BY <1>1, <1>2 DEF Same, IInv, Found
<1> QED
  BY <1>2, <1>4, <1>5, <1>6, <1>7, <1>8 DEF IInv, Same

(* Any step of a member, its end included.                                 *)
LEMMA MemberStepKeeps ==
  ASSUME IInv, Beh21Assumption, NEW m \in Members, MemberStep(m)
  PROVE  IInv'
<1>1. m \in Parties
  BY DEF Members
<1>2. CASE SendSize(m) \/ Negotiate(m) \/ SendFilter(m) \/ Hop(m) \/ PartialDecrypt(m)
  BY <1>2, SendSizeKeeps, NegotiateKeeps, SendFilterKeeps, HopKeeps, PartialDecryptKeeps
<1>3. CASE NullChannel(m)
  BY <1>1, <1>3, Dying DEF NullChannel
<1>4. CASE Throw(m)
  BY <1>1, <1>4, Dying DEF Throw
<1> QED
  BY <1>2, <1>3, <1>4 DEF MemberStep

(* Any step of the leader's main thread, its end included.                 *)
LEMMA LeaderStepKeeps ==
  ASSUME IInv, Beh21Assumption, LeaderStep
  PROVE  IInv'
<1>1. leader \in Parties
  BY DEF IInv, Types
<1>2. CASE NegotiateSizes \/ ReceiveTriple
  BY <1>2, NegotiateSizesKeeps, ReceiveTripleKeeps
<1>3. CASE \E m \in Members : CollectFilter(m) \/ Share(m) \/ CollectPartial(m)
  BY <1>3, CollectFilterKeeps, ShareKeeps, CollectPartialKeeps
<1>4. CASE LeaderThrows
  BY <1>1, <1>4, Dying DEF LeaderThrows, Goto
<1>5. CASE LeaderTerminates
  BY <1>1, <1>5, Dying DEF LeaderTerminates
<1> QED
  BY <1>2, <1>3, <1>4, <1>5 DEF LeaderStep

(* Any step.                                                               *)
LEMMA NextKeeps ==
  ASSUME IInv, Beh21Assumption, Next
  PROVE  IInv'
<1>1. CASE \E p \in Mortal : Crash(p)
  BY <1>1, Dying DEF Crash, Beh21Assumption
<1> QED
  BY <1>1, LeaderStepKeeps, SendTripleKeeps, MemberStepKeeps DEF Next

(* Every reachable state satisfies the invariant: who has passed which     *)
(* triple, what every stream holds, and what the leader has counted.       *)
THEOREM Beh21Invariant ==
  ASSUME Beh21Assumption
  PROVE  Spec => []IInv
<1>1. Init => IInv
  BY InitIInv
<1>2. IInv /\ [Next]_vars => IInv'
  BY NextKeeps, UnchangedKeeps
<1> QED
  BY <1>1, <1>2, PTL DEF Spec

-----------------------------------------------------------------------------
(* Whoever reads a stream finds the kind of frame, and the round, that it  *)
(* expects, although the streams change their use from round to round      *)
(* (OtMpsiMember::run, OtMpsiLeader::run).                                 *)
LEMMA IInvFrames ==
  ASSUME IInv, Beh21Assumption
  PROVE  FramesAsExpected
<1>1. Types /\ leader \in Parties /\ \A q \in Members : q \in Parties /\ q # leader
  BY Ground DEF IInv
<1>2. ASSUME NEW m \in Members, pc[m] = "ring", Prev(m) # None, Has(Prev(m), m)
      PROVE  Frame(Prev(m), m) \in Triples
  <2>1. passed[m] \in Nat /\ Sent \in Nat /\ \A q \in Members : passed[q] \in Nat
    BY <1>1, Ground
  <2>2. CASE Prev(m) = leader
    <3>1. m = First
      BY <1>1, <2>2, Neighbours
    <3>2. Starts(net[leader][m], passed[m], Sent, Answers) /\ net[leader][m] # <<>>
      BY <1>2, <2>2, <3>1 DEF IInv, Down, Has
    <3> QED
      BY <2>1, <2>2, <3>2, StartTaken DEF Frame
  <2>3. CASE Prev(m) \in Members
    <3>1. Prev(m) # m
      BY <1>1, Neighbours
    <3> DEFINE q == Prev(m)
    <3>2. Across(q, m) /\ net[q][m] # <<>> /\ q \in Members
      BY <1>2, <2>3, <3>1 DEF IInv, Has
    <3> HIDE DEF q
    <3>3. Flows(net[q][m], passed[m], passed[q], Answers, ones)
      BY <3>2 DEF Across
    <3>4. Head(net[q][m]) \in Triples
      BY <2>1, <3>2, <3>3, FlowTaken
    <3> QED
      BY <3>4 DEF Frame, q
  <2>4. Prev(m) \in Parties
    BY <1>1, <1>2, Neighbours
  <2> QED
    BY <1>1, <2>2, <2>3, <2>4, Ground
<1>3. ASSUME NEW m \in Members, pc[m] = "decrypt", Has(leader, m)
      PROVE  Frame(leader, m) = [batch |-> round[m]]
  <2>1. net[leader][m] = <<Batch(round[m])>>
    BY <1>3 DEF IInv, Down, Has
  <2> QED
    BY <2>1, ShortStreams DEF Frame, Batch
<1>4. ASSUME pc[leader] = "ring", Has(Last, leader)
      PROVE  Frame(Last, leader) \in Triples
  <2>1. Last \in Members /\ Base + Len(scp) \in Nat /\ passed[Last] \in Nat
    <3>1. Last \in Members
      BY <1>1, Neighbours
    <3>2. Base \in Nat /\ passed[Last] \in Nat
      BY <1>1, <3>1, Ground
    <3>3. Len(scp) \in Nat
      BY <1>1, LenProperties DEF Types
    <3> QED
      BY <3>1, <3>2, <3>3
  <2>2. Flows(net[Last][leader], Base + Len(scp), passed[Last], Answers, ones) /\ net[Last][leader] # <<>>
    BY <1>4, <2>1 DEF IInv, Up, Has
  <2> QED
    BY <2>1, <2>2, FlowTaken DEF Frame
<1>5. ASSUME pc[leader] = "collect", NEW m \in Members \ served, Has(m, leader)
      PROVE  Frame(m, leader) = [batch |-> round[leader]]
  <2>1. net[m][leader] = <<Batch(R)>>
    BY <1>5 DEF IInv, Up, Has
  <2> QED
    BY <2>1, ShortStreams DEF Frame, Batch, R
<1> QED
  BY <1>2, <1>3, <1>4, <1>5 DEF FramesAsExpected

(* In every reachable state, the frame at the head of a stream is of the   *)
(* kind, and of the round, that its reader expects.                        *)
THEOREM Beh21FramesAsExpected ==
  ASSUME Beh21Assumption
  PROVE  Spec => []FramesAsExpected
<1>1. IInv => FramesAsExpected
  BY IInvFrames
<1> QED
  BY <1>1, Beh21Invariant, PTL

(* However the triples overlap in the ring, the leader's result is exact,  *)
(* up to the filters' false positives, unless a member drew the factor 1   *)
(* (OtMpsiLeader::run, OtMpsiMember::run).                                 *)
LEMMA IInvExact ==
  ASSUME IInv, Beh21Assumption
  PROVE  ExactUnlessAMemberDrawsOne
<1> SUFFICES ASSUME pc[leader] = "done", ~ ones
             PROVE  result = {i \in 1..Size : 1 + Cardinality(Hits(i)) >= threshold}
  BY DEF ExactUnlessAMemberDrawsOne
<1>1. /\ Types /\ Size \in Nat /\ Total(1) \in Nat /\ Total(3) = Total(1) + Size
      /\ R = 3 \/ Size = 0
      /\ result = {i \in 1..Size : Answers[Total(1) + i]}
  BY Ground DEF IInv, Leading, Found
<1>2. CASE Size = 0
  BY <1>1, <1>2
<1>3. CASE R = 3
  <2>1. ASSUME NEW i \in 1..Size
        PROVE  Answers[Total(1) + i] <=> 1 + Cardinality(Hits(i)) >= threshold
    <3> DEFINE g == Total(1) + i
    <3>1. g \in 1..Total(R) /\ g > Total(1) /\ g - Total(1) = i
      BY <1>1, <1>3
    <3> HIDE DEF g
    <3>2. Answers[g] = (counts[i] >= threshold - 1)
      BY <1>1, <3>1, AnswersDecide
    <3>3. counts[i] = Cardinality(Hits(i)) /\ counts[i] \in Nat /\ threshold \in Nat
      BY <1>1, <1>3 DEF IInv, Found, Types, Beh21Assumption
    <3>4. counts[i] >= threshold - 1 <=> 1 + counts[i] >= threshold
      BY <3>3
    <3> QED
      BY <3>2, <3>3, <3>4 DEF g
  <2> QED
    BY <1>1, <2>1
<1> QED
  BY <1>1, <1>2, <1>3

(* When the leader of BEH21 is done and no member has drawn the factor 1,  *)
(* its result is exactly the positions whose element enough filters have.  *)
THEOREM Beh21ExactUnlessAMemberDrawsOne ==
  ASSUME Beh21Assumption
  PROVE  Spec => []ExactUnlessAMemberDrawsOne
<1>1. IInv => ExactUnlessAMemberDrawsOne
  BY IInvExact
<1> QED
  BY <1>1, Beh21Invariant, PTL
=============================================================================
