-------------------------- MODULE Ks05ProtocolProofs --------------------------
(***************************************************************************)
(* Proofs about Ks05Protocol, for any number of parties, any inputs and    *)
(* thresholds, any leader and any number of crashes: what the leader       *)
(* finds, what is left when it has finished, and that the ciphertexts of   *)
(* zero that a member prepares suffice.  At the end, proofs about          *)
(* Ks05Ring: what the ring can hold bounds how far the leader is ahead of  *)
(* what it has read itself.                                                *)
(***************************************************************************)
EXTENDS Ks05Protocol, Ks05Ring, ChainProofs

-----------------------------------------------------------------------------
(* The inductive invariant.  What a party has sent and not been read       *)
(* follows from where the two parties are, unless one of them is gone.     *)

MemberStates == {"size", "negotiate", "aggregate", "blind", "decrypt", "done", "crashed", "stuck"}
LeaderStates == {"sizes", "ring", "collect", "broadcast", "blinded", "sendSum", "partials",
                 "fuse", "done", "crashed", "error"}

(* A member that has not multiplied its polynomial into the product yet,   *)
(* one that has, and the phases of the leader that follow the ring.        *)
Early(m) == pc[m] \in {"size", "negotiate", "aggregate"}
Passed(m) == pc[m] \in {"blind", "decrypt", "done"}
Alive(m) == Early(m) \/ Passed(m)
AfterRing == pc[leader] \in {"broadcast", "blinded", "sendSum", "partials", "fuse", "done"}

(* The product of the polynomials of the parties in Q.                     *)
S == agreed[leader]
CopiesOf(e) == [p \in Parties |-> input[p][e]]
Poly(Q) == [roots |-> [e \in Elements |-> SumFunctionOnSet(CopiesOf(e), Q)],
            degree |-> Cardinality(Q) * S]

(* What a member receives from its previous hop.                           *)
Upstream(m) == {leader} \union {q \in Members : q < m}
Arriving(m) == Poly(Upstream(m))
Whole == Poly(Parties)

Blinded(m) == Blind(m, product[leader])
Sized(n) == [size |-> n]

Polynomials == [roots : [Elements -> Nat], degree : Nat]

(* Every pair of parties has a stream.                                     *)
Shaped(n) == n = [p \in Parties |-> [q \in Parties |-> n[p][q]]]

Types == /\ leader \in Parties
         /\ input \in [Parties -> [Elements -> Nat]]
         /\ threshold \in [Parties -> 2..N]
         /\ pc \in [Parties -> MemberStates \union LeaderStates]
         /\ pc[leader] \in LeaderStates
         /\ \A m \in Members : pc[m] \in MemberStates
         /\ Shaped(net)
         /\ agreed \in [Parties -> Nat]
         /\ product \in [Parties -> Polynomials]
         /\ served \in SUBSET Members /\ served # Members
         /\ DOMAIN summed = {"zeros", "degree"}
         /\ summed.zeros \in SUBSET Elements

(* Which phases of a member go with a phase of the leader.                 *)
InStep(m) ==
    /\ pc[leader] = "sizes" => pc[m] \in {"size", "negotiate", "crashed", "stuck"}
    /\ pc[leader] = "ring" => pc[m] \in {"negotiate", "aggregate", "crashed", "stuck"}
    /\ pc[leader] = "collect" => pc[m] \in {"negotiate", "aggregate", "blind", "crashed", "stuck"}
    /\ pc[leader] \in {"broadcast", "blinded"} => pc[m] \in {"blind", "decrypt", "crashed", "stuck"}
    /\ pc[leader] = "broadcast" /\ m \notin served => pc[m] # "decrypt"
    /\ pc[leader] = "blinded" /\ m \in served => pc[m] # "blind"
    /\ pc[leader] \in {"sendSum", "partials"} => pc[m] \in {"decrypt", "done", "crashed", "stuck"}
    /\ pc[leader] = "sendSum" /\ m \notin served => pc[m] # "done"
    /\ pc[leader] = "partials" /\ m \in served => pc[m] = "done"
    /\ pc[leader] \in {"fuse", "done"} => pc[m] = "done"
    /\ pc[m] \in {"aggregate", "blind", "decrypt", "done"} => agreed[m] = S

(* The ring passes the members in their order.                             *)
InOrder ==
    /\ \A m, q \in Members :
         /\ q < m
         /\ Passed(m) \/ (Prev(m) \in Members /\ net[Prev(m)][m] # <<>>)
         => ~ Early(q)
    /\ AfterRing => /\ leader = N - 1
                    /\ product[leader] = Whole
                    /\ \A q \in Members : ~ Early(q)

(* From member to member goes the product of all that come before.         *)
Across(m, q) ==
    net[m][q] # <<>> => /\ NextHop(m) = q /\ ~ Passed(q)
                        /\ pc[leader] \notin {"sizes", "ring"}
                        /\ net[m][q] = <<Arriving(q)>>

(* From the leader to a member that is alive.                              *)
Down(m) ==
    LET stream == net[leader][m] IN
    /\ pc[m] = "size" => stream = <<>>
    /\ pc[m] = "negotiate" => \/ stream = <<>>
                              \/ stream = <<Sized(S)>>
                              \/ m = First /\ stream = <<Sized(S), Arriving(m)>>
    /\ pc[m] = "aggregate" => \/ stream = <<>>
                              \/ m = First /\ stream = <<Arriving(m)>>
    /\ pc[m] = "blind" => \/ stream = <<>>
                          \/ /\ stream = <<product[leader]>>
                             /\ leader = N - 1 /\ product[leader] = Whole
    /\ pc[m] = "decrypt" => stream = <<>> \/ stream = <<summed>>
    /\ pc[m] = "done" => stream = <<>>

(* ... more precisely, while the leader is alive.                          *)
DownInStep(m) ==
    LET stream == net[leader][m] IN
    /\ pc[leader] = "sizes" /\ Alive(m) => stream = <<>>
    /\ pc[leader] = "ring" /\ pc[m] = "negotiate" => stream = <<Sized(S)>>
    /\ pc[leader] = "ring" /\ pc[m] = "aggregate" => stream = <<>>
    /\ pc[leader] = "collect" /\ pc[m] = "blind" => stream = <<>>
    /\ pc[leader] = "broadcast" /\ (m \notin served \/ pc[m] = "decrypt") /\ Alive(m) => stream = <<>>
    /\ pc[leader] = "blinded" /\ pc[m] = "decrypt" => stream = <<>>
    /\ pc[leader] = "sendSum" /\ m \notin served /\ Alive(m) => stream = <<>>

(* From a member to the leader, while the leader is alive.                 *)
Up(m) ==
    LET stream == net[m][leader] IN
    /\ pc[leader] = "sizes" => /\ pc[m] = "size" => stream = <<>>
                               /\ stream = <<>> \/ stream = <<Sized(Size(m))>>
    /\ pc[leader] = "ring" => stream = <<>>
    /\ pc[leader] = "collect" => \/ stream = <<>>
                                 \/ /\ m = N - 2
                                    /\ \A q \in Members : q <= m => ~ Early(q)
                                    /\ stream # <<>>
                                    /\ leader = N - 1 => stream = <<Whole>>
    /\ pc[leader] = "broadcast" /\ m \notin served => stream = <<>>
    /\ pc[leader] = "blinded" /\ m \in served => stream = <<>>
    /\ \/ pc[leader] = "broadcast" /\ m \in served
       \/ pc[leader] = "blinded" /\ m \notin served
       => /\ pc[m] = "blind" => stream = <<>>
          /\ stream = <<>> \/ stream = <<Blinded(m)>>
    /\ pc[leader] = "sendSum" /\ m \notin served => stream = <<>>
    /\ pc[leader] = "partials" /\ m \in served => stream = <<>>
    /\ \/ pc[leader] = "sendSum" /\ m \in served
       \/ pc[leader] = "partials" /\ m \notin served
       => /\ pc[m] # "done" => stream = <<>>
          /\ stream = <<>> \/ stream = <<summed>>
    /\ pc[leader] \in {"fuse", "done"} => stream = <<>>

(* What the leader has summed up, and what it finds.                       *)
Found ==
    /\ pc[leader] \in {"sizes", "ring", "collect", "broadcast"} => summed.zeros = Elements
    /\ pc[leader] = "blinded" =>
         \A e \in Elements : e \in summed.zeros <=> \A m \in served : e \in Blinded(m).zeros
    /\ pc[leader] \in {"sendSum", "partials", "fuse", "done"} =>
         \A e \in Elements : e \in summed.zeros <=> \A m \in Members : e \in Blinded(m).zeros
    /\ pc[leader] = "done" =>
         result = {e \in Elements : input[leader][e] >= 1 /\ e \in summed.zeros}

IInv == /\ Types
        /\ \A m \in Members : InStep(m)
        /\ InOrder
        /\ \A m, q \in Members : Across(m, q)
        /\ \A p \in Parties : net[p][p] = <<>>
        /\ \A m \in Members : Down(m) /\ DownInStep(m) /\ Up(m)
        /\ Found

-----------------------------------------------------------------------------
(* The size of an input, and the copies of an element, are sums.           *)
LEMMA SizeIsSum ==
  ASSUME Types, Ks05Assumption, NEW p \in Parties
  PROVE  Size(p) = SumFunctionOnSet(input[p], Elements) /\ Size(p) \in Nat
<1>1. input[p] \in [Elements -> Nat] /\ DOMAIN input[p] = Elements
  BY DEF Types
<1>2. Size(p) = SumFunctionOnSet(input[p], Elements)
  BY <1>1 DEF Size, FoldFunction, SumFunctionOnSet, FoldFunctionOnSet, MapThenFoldSet
<1> QED
  BY <1>1, <1>2, SumFacts DEF Ks05Assumption

(* The chain and the inputs do not change.                                 *)
LEMMA Static ==
  ASSUME UNCHANGED chosen
  PROVE  /\ leader' = leader /\ input' = input /\ threshold' = threshold
         /\ Members' = Members /\ First' = First /\ Last' = Last
         /\ \A m \in Members : /\ Prev(m)' = Prev(m) /\ NextHop(m)' = NextHop(m)
                              /\ Upstream(m)' = Upstream(m) /\ Size(m)' = Size(m)
<1>1. leader' = leader /\ input' = input /\ threshold' = threshold
  BY DEF chosen
<1>2. Members' = Members
  BY <1>1 DEF Members
<1>3. First' = First /\ Last' = Last
  BY <1>1, <1>2 DEF First, Last, Position, Members
<1>4. \A m \in Members : Prev(m)' = Prev(m) /\ NextHop(m)' = NextHop(m)
  BY <1>1 DEF Prev, NextHop, ChannelTo, Position, Members
<1>5. \A m \in Members : Upstream(m)' = Upstream(m)
  BY <1>1, <1>2 DEF Upstream
<1>6. \A m \in Members : Size(m)' = Size(m)
  BY <1>1 DEF Size, FoldFunction, FoldFunctionOnSet, MapThenFoldSet
<1> QED
  BY <1>1, <1>2, <1>3, <1>4, <1>5, <1>6

(* ... nor what the members compute from a product that is not touched.    *)
Same == /\ leader' = leader /\ input' = input /\ threshold' = threshold
        /\ Members' = Members /\ First' = First /\ Last' = Last
        /\ S' = S /\ Whole' = Whole
        /\ \A m \in Members :
             /\ Prev(m)' = Prev(m) /\ NextHop(m)' = NextHop(m)
             /\ Arriving(m)' = Arriving(m) /\ Sized(Size(m))' = Sized(Size(m))
             /\ agreed'[m] = agreed[m] => Blinded(m)' = Blinded(m)

(* A step that keeps the leader's set size keeps all of these.             *)
LEMMA Untouched ==
  ASSUME UNCHANGED chosen, S' = S, product'[leader] = product[leader]
  PROVE  Same
<1>1. leader' = leader /\ input' = input /\ threshold' = threshold
  BY DEF chosen
<1>3. \A e : CopiesOf(e)' = CopiesOf(e)
  BY <1>1 DEF CopiesOf
<1>4. \A Q : Poly(Q)' = Poly(Q)
  BY <1>3 DEF Poly
<1>5. Whole' = Whole /\ \A m \in Members : Arriving(m)' = Arriving(m)
  BY <1>4, Static DEF Whole, Arriving
<1>6. \A m \in Members : Sized(Size(m))' = Sized(Size(m))
  BY Static DEF Sized
<1>7. \A m \in Members : agreed'[m] = agreed[m] => Blinded(m)' = Blinded(m)
  BY <1>1 DEF Blinded, Blind
<1> QED
  BY <1>5, <1>6, <1>7, Static DEF Same

(* One stream changes, and no other.                                       *)
LEMMA Sent ==
  ASSUME NEW n, Shaped(n), NEW p \in Parties, NEW q \in Parties, NEW f
  PROVE  /\ Shaped(Put(p, q, f, n))
         /\ \A x, y \in Parties :
              Put(p, q, f, n)[x][y] = IF x = p /\ y = q THEN Append(n[x][y], f) ELSE n[x][y]
BY DEF Shaped, Put

(* ... and what it is after a message has been read.                       *)
LEMMA OneTaken ==
  ASSUME NEW n, Shaped(n), NEW p \in Parties, NEW q \in Parties
  PROVE  Take(p, q, n) =
           [x \in Parties |-> [y \in Parties |-> IF x = p /\ y = q THEN Tail(n[x][y]) ELSE n[x][y]]]
<1>1. DOMAIN n = Parties /\ \A x \in Parties : n[x] = [y \in Parties |-> n[x][y]]
  BY DEF Shaped
<1>2. Take(p, q, n) = [x \in Parties |-> IF x = p THEN [n[p] EXCEPT ![q] = Tail(n[p][q])] ELSE n[x]]
  BY <1>1 DEF Take
<1>3. [n[p] EXCEPT ![q] = Tail(n[p][q])] = [y \in Parties |-> IF y = q THEN Tail(n[p][q]) ELSE n[p][y]]
  BY <1>1
<1>4. \A x \in Parties : (IF x = p THEN [n[p] EXCEPT ![q] = Tail(n[p][q])] ELSE n[x]) =
                        [y \in Parties |-> IF x = p /\ y = q THEN Tail(n[x][y]) ELSE n[x][y]]
  <2> TAKE x \in Parties
  <2>1. CASE x = p
    BY <1>3, <2>1
  <2>2. CASE x # p
    BY <1>1, <2>2
  <2> QED
    BY <2>1, <2>2
<1> QED
  BY <1>2, <1>4

(* The parties and their numbers.                                          *)
LEMMA Bounded ==
  ASSUME Types, Ks05Assumption
  PROVE  /\ N \in Nat /\ N >= 2 /\ leader \in Parties /\ leader \in Nat
         /\ \A m \in Members : m \in Parties /\ m # leader /\ m \in Nat /\ m <= N - 1
         /\ \A p \in Parties : p # leader => p \in Members
BY DEF Ks05Assumption, Types, Members, Parties

-----------------------------------------------------------------------------
(* A party that goes, or that waits for ever, takes nothing with it.       *)
LEMMA Dying ==
  ASSUME IInv, Ks05Assumption, NEW p \in Parties, NEW to, pc[p] # "done",
         to = "crashed" \/ (p \in Members /\ to = "stuck") \/ (p = leader /\ to = "error"),
         pc' = [pc EXCEPT ![p] = to],
         UNCHANGED <<chosen, net, agreed, product, served, summed, result>>
  PROVE  IInv'
<1>1. Types
  BY DEF IInv
<1>2. Same
  BY Untouched DEF S, chosen
<1>3. \A q \in Parties : pc'[q] = IF q = p THEN to ELSE pc[q]
  BY <1>1 DEF Types
<1>4. /\ N \in Nat /\ leader \in Parties
      /\ \A m \in Members : m \in Parties /\ m # leader
  BY <1>1, Bounded
<1>5. Types'
  BY <1>1, <1>2, <1>3, <1>4 DEF Types, Same, MemberStates, LeaderStates, Shaped, chosen
<1>6. \A m \in Members : InStep(m)'
  BY <1>2, <1>3, <1>4 DEF Same, IInv, InStep
<1>7. InOrder'
  BY <1>2, <1>3, <1>4 DEF Same, IInv, InOrder, AfterRing, Early, Passed
<1>8. \A m, q \in Members : Across(m, q)'
  BY <1>2, <1>3, <1>4 DEF Same, IInv, Across, Passed
<1>9. \A q \in Parties : net'[q][q] = <<>>
  BY DEF IInv
<1>10. \A m \in Members : Down(m)'
  BY <1>2, <1>3, <1>4 DEF Same, IInv, Down
<1>11. \A m \in Members : DownInStep(m)'
  BY <1>2, <1>3, <1>4 DEF Same, IInv, DownInStep, Alive, Early, Passed
<1>12. \A m \in Members : Up(m)'
  BY <1>2, <1>3, <1>4 DEF Same, IInv, Up, Early
<1>13. Found'
  <2>1. UNCHANGED <<summed, served, result, input>> /\ Members' = Members
    BY <1>2 DEF Same
  <2>2. \A m \in Members : Blinded(m)' = Blinded(m)
    BY <1>2 DEF Same
  <2>3. served \in SUBSET Members
    BY <1>1 DEF Types
  <2>4. pc'[leader'] = pc[leader] \/ pc'[leader'] \notin LeaderStates \ {"error", "crashed"}
    BY <1>2, <1>3, <1>4 DEF Same, LeaderStates
  <2>5. Found
    BY DEF IInv
  <2>6. leader' = leader
    BY <1>2 DEF Same
  <2> QED
    BY <2>1, <2>2, <2>3, <2>4, <2>5, <2>6 DEF Found, LeaderStates
<1> QED
  BY <1>2, <1>5, <1>6, <1>7, <1>8, <1>9, <1>10, <1>11, <1>12, <1>13 DEF IInv, Same

-----------------------------------------------------------------------------
(* The polynomial that goes round, and the neighbours it goes between.     *)
LEMMA PolynomialsGrow ==
  ASSUME Types, Ks05Assumption
  PROVE  /\ \A Q \in SUBSET Parties : Poly(Q) \in Polynomials
         /\ Encode(leader, S) = Poly({leader})
         /\ \A Q \in SUBSET Parties, p \in Parties :
              p \notin Q => Times(Poly(Q), Encode(p, S)) = Poly(Q \union {p})
<1> DEFINE sum(e, Q) == SumFunctionOnSet(CopiesOf(e), Q)
<1>1. IsFiniteSet(Parties) /\ S \in Nat /\ leader \in Parties
  BY FS_Interval DEF Parties, S, Types, Ks05Assumption
<1>2. \A p \in Parties : input[p] \in [Elements -> Nat]
  BY DEF Types
<1>3. \A e \in Elements : \A p \in Parties : CopiesOf(e)[p] = input[p][e] /\ CopiesOf(e)[p] \in Nat
  BY <1>2 DEF CopiesOf
<1>4. ASSUME NEW e \in Elements
      PROVE  /\ sum(e, {}) = 0
             /\ \A Q \in SUBSET Parties :
                  sum(e, Q) \in Nat /\ \A p \in Q : sum(e, Q) = CopiesOf(e)[p] + sum(e, Q \ {p})
  BY <1>1, <1>3, SumFacts
<1>5. \A Q \in SUBSET Parties : IsFiniteSet(Q) /\ Cardinality(Q) \in Nat
  BY <1>1, FS_Subset, FS_CardinalityType
<1> HIDE DEF sum
<1>6. \A Q \in SUBSET Parties : Poly(Q) = [roots |-> [e \in Elements |-> sum(e, Q)],
                                         degree |-> Cardinality(Q) * S]
  BY DEF Poly, sum
<1>7. \A Q \in SUBSET Parties : Poly(Q) \in Polynomials
  <2> TAKE Q \in SUBSET Parties
  <2>1. Cardinality(Q) * S \in Nat
    BY <1>1, <1>5
  <2>2. [e \in Elements |-> sum(e, Q)] \in [Elements -> Nat]
    BY <1>4
  <2> QED
    BY <1>6, <2>1, <2>2 DEF Polynomials
<1>8. \A Q \in SUBSET Parties, p \in Parties, e \in Elements :
        p \notin Q => sum(e, Q \union {p}) = sum(e, Q) + input[p][e]
  <2> TAKE Q \in SUBSET Parties, p \in Parties, e \in Elements
  <2> HAVE p \notin Q
  <2>1. (Q \union {p}) \ {p} = Q /\ Q \union {p} \in SUBSET Parties /\ p \in Q \union {p}
    OBVIOUS
  <2>2. sum(e, Q \union {p}) = CopiesOf(e)[p] + sum(e, Q)
    BY <1>4, <2>1
  <2>3. sum(e, Q) \in Nat
    BY <1>4
  <2> QED
    BY <1>3, <2>2, <2>3
<1>9. Encode(leader, S) = Poly({leader})
  <2>1. Cardinality({leader}) = 1
    BY FS_Singleton
  <2>2. \A e \in Elements : sum(e, {leader}) = input[leader][e]
    <3> TAKE e \in Elements
    <3>1. {leader} \in SUBSET Parties /\ leader \in {leader} /\ {leader} \ {leader} = {}
      BY <1>1
    <3>2. sum(e, {leader}) = CopiesOf(e)[leader] + sum(e, {leader} \ {leader})
      BY <1>4, <3>1
    <3>3. sum(e, {leader} \ {leader}) = 0
      BY <1>4, <3>1
    <3>4. CopiesOf(e)[leader] = input[leader][e] /\ CopiesOf(e)[leader] \in Nat
      BY <1>1, <1>3
    <3> QED
      BY <3>2, <3>3, <3>4
  <2>3. input[leader] = [e \in Elements |-> sum(e, {leader})]
    BY <1>1, <1>2, <2>2
  <2>4. {leader} \in SUBSET Parties /\ 1 * S = S
    BY <1>1
  <2> QED
    BY <1>6, <2>1, <2>3, <2>4 DEF Encode
<1>10. ASSUME NEW Q \in SUBSET Parties, NEW p \in Parties, p \notin Q
       PROVE  Times(Poly(Q), Encode(p, S)) = Poly(Q \union {p})
  <2>1. Cardinality(Q \union {p}) = Cardinality(Q) + 1
    BY <1>5, <1>10, FS_AddElement
  <2>2. Cardinality(Q) * S + S = (Cardinality(Q) + 1) * S
    BY <1>1, <1>5
  <2>3. \A e \in Elements : sum(e, Q \union {p}) = sum(e, Q) + input[p][e]
    BY <1>8, <1>10
  <2>4. [e \in Elements |-> sum(e, Q) + input[p][e]] = [e \in Elements |-> sum(e, Q \union {p})]
    BY <2>3
  <2>5. Q \union {p} \in SUBSET Parties
    OBVIOUS
  <2>6. Times(Poly(Q), Encode(p, S)) = [roots |-> [e \in Elements |-> sum(e, Q) + input[p][e]],
                                       degree |-> Cardinality(Q) * S + S]
    <3>1. /\ Poly(Q).degree = Cardinality(Q) * S
          /\ Poly(Q).roots = [e \in Elements |-> sum(e, Q)]
      BY <1>6
    <3>2. \A e \in Elements : Poly(Q).roots[e] = sum(e, Q)
      BY <3>1
    <3>3. Encode(p, S).roots = input[p] /\ Encode(p, S).degree = S
      BY DEF Encode
    <3> QED
      BY <3>1, <3>2, <3>3 DEF Times
  <2> QED
    BY <1>6, <2>1, <2>2, <2>4, <2>5, <2>6
<1> QED
  BY <1>7, <1>9, <1>10

(* Who a member reads from and writes to.                                  *)
LEMMA Neighbours ==
  ASSUME Types, Ks05Assumption
  PROVE  /\ First \in Members /\ Upstream(First) = {leader} /\ Prev(First) \in {leader, None}
         /\ leader = N - 1 => Last = N - 2 /\ N - 2 \in Members /\ Upstream(N - 2) \union {N - 2} = Parties
         /\ leader # N - 1 => Last = N - 1
         /\ Last \in Members
         /\ \A m \in Members :
              /\ m \notin Upstream(m) /\ Upstream(m) \in SUBSET Parties
              /\ Prev(m) \in Parties \union {None}
              /\ Prev(m) = leader => m = 0 /\ First = m
              /\ Prev(m) \in Members => \A q \in Members : q < m => q <= Prev(m)
              /\ NextHop(m) \in Parties \union {None}
              /\ NextHop(m) = leader => m = N - 2
              /\ NextHop(m) \in Members => /\ m < NextHop(m)
                                           /\ Prev(NextHop(m)) = m
                                           /\ Upstream(NextHop(m)) = Upstream(m) \union {m}
<1>1. Positions /\ Hops /\ leader \in Nat /\ leader <= N - 1 /\ N \in Nat /\ N >= 2
  BY ChainPositions, ChainHops DEF Types, Ks05Assumption, Parties
<1>2. \A m \in Members : m \in Nat /\ m <= N - 1 /\ m # leader
  BY DEF Members, Parties
<1>3. \A m \in Nat : m <= N - 1 => m \in Parties /\ (m # leader => m \in Members)
  BY DEF Members, Parties
<1>4. First \in Members /\ Upstream(First) = {leader} /\ Prev(First) \in {leader, None} /\ Last \in Members
  <2>1. First \in Members /\ Last \in Members
    BY <1>1 DEF Positions
  <2>2. \A q \in Members : ~ q < First
    BY <1>1, <1>2 DEF Positions
  <2>3. Prev(First) \in {leader, None}
    BY <1>1, <2>1 DEF Positions, Hops
  <2> QED
    BY <2>1, <2>2, <2>3 DEF Upstream
<1>5. leader = N - 1 => Last = N - 2 /\ N - 2 \in Members /\ Upstream(N - 2) \union {N - 2} = Parties
  BY <1>1, <1>2, <1>3 DEF Positions, Upstream, Members, Parties
<1>6. leader # N - 1 => Last = N - 1
  BY <1>1 DEF Positions
<1>7. ASSUME NEW m \in Members
      PROVE  /\ m \notin Upstream(m) /\ Upstream(m) \in SUBSET Parties
             /\ Prev(m) \in Parties \union {None}
             /\ Prev(m) = leader => m = 0 /\ First = m
             /\ Prev(m) \in Members => \A q \in Members : q < m => q <= Prev(m)
             /\ NextHop(m) \in Parties \union {None}
             /\ NextHop(m) = leader => m = N - 2
             /\ NextHop(m) \in Members => /\ m < NextHop(m)
                                          /\ Prev(NextHop(m)) = m
                                          /\ Upstream(NextHop(m)) = Upstream(m) \union {m}
  <2>1. m \in Nat /\ m <= N - 1 /\ m # leader
    BY <1>2
  <2>2. m \notin Upstream(m) /\ Upstream(m) \in SUBSET Parties
    <3>1. ~ m < m
      BY <2>1
    <3>2. m \notin Upstream(m)
      BY <2>1, <3>1 DEF Upstream
    <3>3. \A q \in Members : q \in Parties
      BY DEF Members
    <3>4. leader \in Parties
      BY DEF Types
    <3>5. Upstream(m) \in SUBSET Parties
      BY <3>3, <3>4 DEF Upstream
    <3> QED
      BY <3>2, <3>5
  <2>3. Prev(m) \in Parties \union {None} /\ NextHop(m) \in Parties \union {None}
    BY <1>1, <1>3, <2>1 DEF Hops
  <2>4. Prev(m) = leader => m = 0 /\ First = m
    BY <1>1, <2>1 DEF Hops, Positions, None
  <2>5. Prev(m) \in Members => \A q \in Members : q < m => q <= Prev(m)
    BY <1>1, <1>2, <2>1 DEF Hops, None
  <2>6. NextHop(m) = leader => m = N - 2
    BY <1>1, <2>1 DEF Hops, None
  <2>7. ASSUME NextHop(m) \in Members
        PROVE  m < NextHop(m) /\ Prev(NextHop(m)) = m /\ Upstream(NextHop(m)) = Upstream(m) \union {m}
    <3>1. NextHop(m) = IF m + 1 = leader THEN m + 2 ELSE m + 1
      BY <1>1, <1>2, <2>1, <2>7 DEF Hops, None
    <3>2. Prev(NextHop(m)) = m /\ m < NextHop(m)
      BY <1>1, <2>1, <2>7, <3>1 DEF Hops
    <3>3. \A q \in Members : q < NextHop(m) <=> q < m \/ q = m
      BY <1>2, <2>1, <3>1
    <3> QED
      BY <3>2, <3>3 DEF Upstream
  <2> QED
    BY <2>2, <2>3, <2>4, <2>5, <2>6, <2>7
<1> QED
  BY <1>4, <1>5, <1>6, <1>7

-----------------------------------------------------------------------------
(* The steps of a member.                                                  *)
LEMMA SendSizeKeeps ==
  ASSUME IInv, Ks05Assumption, NEW m \in Members, SendSize(m)
  PROVE  IInv'
<1>1. Types /\ Same
  BY Untouched DEF IInv, SendSize, S, chosen
<1>2. /\ N \in Nat /\ leader \in Parties
      /\ \A q \in Members : q \in Parties /\ q # leader
  BY <1>1, Bounded
<1>3. /\ pc[m] = "size" /\ \A q \in Parties : pc'[q] = IF q = m THEN "negotiate" ELSE pc[q]
      /\ UNCHANGED <<chosen, agreed, product, served, summed, result>>
  BY <1>1 DEF SendSize, Goto, Types
<1>4. /\ Shaped(net') /\ \A x, y \in Parties :
           net'[x][y] = IF x = m /\ y = leader THEN Append(net[x][y], Sized(Size(m))) ELSE net[x][y]
  BY <1>1, <1>2, Sent DEF SendSize, Types, Sized
<1>14. pc[leader] \in {"sizes", "crashed", "error"}
  BY <1>1, <1>3 DEF IInv, InStep, Types, LeaderStates
<1>5. Types'
  BY <1>1, <1>2, <1>3, <1>4 DEF SendSize, Goto, Types, Same, MemberStates, LeaderStates, Shaped, chosen
<1>6. \A q \in Members : InStep(q)'
  BY <1>1, <1>2, <1>3 DEF Same, IInv, InStep
<1>7. InOrder'
  BY <1>1, <1>2, <1>3, <1>4 DEF Same, IInv, InOrder, AfterRing, Early, Passed
<1>8. \A p, q \in Members : Across(p, q)'
  BY <1>1, <1>2, <1>3, <1>4 DEF Same, IInv, Across, Passed
<1>9. \A q \in Parties : net'[q][q] = <<>>
  BY <1>2, <1>4 DEF IInv
<1>10. \A q \in Members : Down(q)'
  BY <1>1, <1>2, <1>3, <1>4 DEF Same, IInv, Down
<1>11. \A q \in Members : DownInStep(q)'
  BY <1>1, <1>2, <1>3, <1>4, <1>14 DEF Same, IInv, DownInStep, Alive, Early, Passed
<1>12. \A q \in Members : Up(q)'
  <2>2. pc[leader] = "sizes" => net'[m][leader] = <<Sized(Size(m))>>
    <3>1. pc[leader] = "sizes" => net[m][leader] = <<>>
      BY <1>3 DEF IInv, Up
    <3>2. net'[m][leader] = Append(net[m][leader], Sized(Size(m)))
      BY <1>2, <1>4
    <3> QED
      BY <3>1, <3>2, ShortStreams
  <2> QED
    BY <1>1, <1>2, <1>3, <1>4, <1>14, <2>2 DEF Same, IInv, Up, Early
<1>13. Found'
  BY <1>1, <1>2, <1>3 DEF Same, IInv, Found, Types
<1> QED
  BY <1>1, <1>5, <1>6, <1>7, <1>8, <1>9, <1>10, <1>11, <1>12, <1>13 DEF IInv, Same

(* A member reads the negotiated set size (TMpsiMember::negotiateSetSize). *)
LEMMA NegotiateKeeps ==
  ASSUME IInv, Ks05Assumption, NEW m \in Members, Negotiate(m)
  PROVE  IInv'
<1>1. Types /\ leader \in Parties /\ \A q \in Members : q \in Parties /\ q # leader
  BY Bounded DEF IInv
<1>2. /\ pc[m] = "negotiate" /\ \A q \in Parties : pc'[q] = IF q = m THEN "aggregate" ELSE pc[q]
      /\ UNCHANGED <<chosen, product, served, summed, result>>
  BY <1>1 DEF Negotiate, Goto, Types
<1>3. /\ Shaped(net') /\ \A x, y \in Parties :
           net'[x][y] = IF x = leader /\ y = m THEN Tail(net[x][y]) ELSE net[x][y]
  <2>1. Shaped(net) /\ net' = Take(leader, m, net) /\ leader \in Parties /\ m \in Parties
    BY <1>1 DEF Negotiate, Types
  <2> QED
    BY <2>1 DEF Shaped, Take
<1>4. \/ net[leader][m] = <<Sized(S)>> /\ net'[leader][m] = <<>>
      \/ /\ m = First /\ net[leader][m] = <<Sized(S), Arriving(m)>>
         /\ net'[leader][m] = <<Arriving(m)>>
  <2>1. Down(m) /\ net[leader][m] # <<>>
    BY <1>2 DEF IInv, Negotiate, Has
  <2>2. \/ net[leader][m] = <<Sized(S)>>
        \/ m = First /\ net[leader][m] = <<Sized(S), Arriving(m)>>
    BY <1>2, <2>1 DEF Down
  <2>3. net'[leader][m] = Tail(net[leader][m])
    BY <1>1, <1>3
  <2>4. Tail(<<Sized(S)>>) = <<>> /\ Tail(<<Sized(S), Arriving(m)>>) = <<Arriving(m)>>
    BY ShortStreams
  <2> QED
    BY <2>2, <2>3, <2>4, Zenon
<1>5. Frame(leader, m) = Sized(S)
  BY <1>4, ShortStreams DEF Frame
<1>6. \A q \in Parties : agreed'[q] = IF q = m THEN S ELSE agreed[q]
  BY <1>1, <1>5 DEF Negotiate, Sized, Types
<1>7. pc[leader] \in {"ring", "collect", "crashed", "error", "sizes"} /\ Same
  <2>1. S' = S /\ product'[leader] = product[leader]
    BY <1>1, <1>2, <1>6 DEF S, chosen
  <2> QED
    BY <1>1, <1>2, <2>1, Untouched DEF IInv, InStep, Types, LeaderStates
<1>8. Types'
  <2>1. agreed' \in [Parties -> Nat]
    BY <1>1, <1>6 DEF Negotiate, Types, S
  <2> QED
    BY <1>1, <1>2, <1>3, <1>7, <2>1 DEF Negotiate, Goto, Types, Same, MemberStates, LeaderStates, Shaped, chosen
<1>9. \A q \in Members : InStep(q)'
  <2> TAKE q \in Members
  <2>1. InStep(q) /\ leader' = leader /\ S' = S /\ pc'[leader] = pc[leader] /\ served' = served
    BY <1>1, <1>2, <1>7 DEF Same, IInv
  <2>2. CASE q = m
    <3>1. pc[leader] # "sizes"
      BY <1>1, <1>2, <1>4, ShortStreams DEF IInv, DownInStep, Alive, Early
    <3>2. agreed'[m] = S /\ pc'[m] = "aggregate"
      BY <1>1, <1>2, <1>6
    <3> QED
      BY <1>7, <2>1, <2>2, <3>1, <3>2 DEF InStep
  <2>3. CASE q # m
    <3>1. pc'[q] = pc[q] /\ agreed'[q] = agreed[q]
      BY <1>1, <1>2, <1>6, <2>3
    <3> QED
      BY <2>1, <3>1 DEF InStep
  <2> QED
    BY <2>2, <2>3
<1>10. InOrder'
  BY <1>1, <1>2, <1>3, <1>7 DEF Same, IInv, InOrder, AfterRing, Early, Passed
<1>11. \A p, q \in Members : Across(p, q)'
  BY <1>1, <1>2, <1>3, <1>7 DEF Same, IInv, Across, Passed
<1>12. \A q \in Parties : net'[q][q] = <<>>
  BY <1>1, <1>3 DEF IInv
<1>13. \A q \in Members : Down(q)'
  BY <1>1, <1>2, <1>3, <1>4, <1>7 DEF Same, IInv, Down
<1>14. \A q \in Members : DownInStep(q)'
  BY <1>1, <1>2, <1>3, <1>4, <1>7, ShortStreams DEF Same, IInv, DownInStep, Alive, Early, Passed
<1>15. \A q \in Members : Up(q)'
  BY <1>1, <1>2, <1>3, <1>7 DEF Same, IInv, Up, Early
<1>16. Found'
  BY <1>1, <1>2, <1>7 DEF Same, IInv, Found
<1> QED
  BY <1>7, <1>8, <1>9, <1>10, <1>11, <1>12, <1>13, <1>14, <1>15, <1>16 DEF IInv, Same

(* What a member that may multiply in its polynomial is offered.           *)
LEMMA Offered ==
  ASSUME IInv, Ks05Assumption, NEW m \in Members,
         pc[m] = "aggregate", Prev(m) # None, Has(Prev(m), m)
  PROVE  /\ Prev(m) \in Parties
         /\ pc[leader] \in {"collect", "crashed", "error"}
         /\ net[Prev(m)][m] = <<Arriving(m)>> /\ Frame(Prev(m), m) = Arriving(m)
         /\ \A q \in Members : q < m => ~ Early(q)
<1>1. /\ Types /\ leader \in Parties /\ \A q \in Members : q \in Parties /\ q # leader /\ q \in Nat
      /\ \A p \in Parties : p # leader => p \in Members
  BY Bounded DEF IInv
<1>2. Prev(m) \in Parties /\ net[Prev(m)][m] # <<>>
  BY <1>1, Neighbours DEF Has
<1>3. pc[leader] \in {"ring", "collect", "crashed", "error"}
  BY <1>1 DEF IInv, InStep, Types, LeaderStates
<1>4. CASE Prev(m) = leader
  <2>1. m = 0 /\ net[leader][m] = <<Arriving(m)>>
    BY <1>1, <1>2, <1>4, Neighbours DEF IInv, Down
  <2>2. pc[leader] # "ring"
    BY <1>2, <1>4 DEF IInv, DownInStep
  <2>3. \A q \in Members : ~ q < m
    BY <1>1, <2>1
  <2> QED
    BY <1>2, <1>3, <1>4, <2>1, <2>2, <2>3, ShortStreams DEF Frame
<1>5. CASE Prev(m) \in Members
  <2>1. net[Prev(m)][m] = <<Arriving(m)>> /\ pc[leader] # "ring" /\ \A q \in Members : q < m => ~ Early(q)
    BY <1>2, <1>5 DEF IInv, Across, InOrder
  <2> QED
    BY <1>2, <1>3, <2>1, ShortStreams DEF Frame
<1> QED
  BY <1>1, <1>2, <1>4, <1>5

(* A member multiplies its polynomial into the product and passes it on.   *)
LEMMA AggregateKeeps ==
  ASSUME IInv, Ks05Assumption, NEW m \in Members, Aggregate(m)
  PROVE  IInv'
<1> DEFINE hop == NextHop(m)
           own == Times(Arriving(m), Encode(m, S))
<1>1. /\ Types /\ leader \in Parties /\ \A q \in Members : q \in Parties /\ q # leader /\ q \in Nat
      /\ N \in Nat /\ \A p \in Parties : p # leader => p \in Members
  BY Bounded DEF IInv
<1>2. /\ pc[m] = "aggregate" /\ \A q \in Parties : pc'[q] = IF q = m THEN "blind" ELSE pc[q]
      /\ UNCHANGED <<chosen, agreed, product, served, summed, result>>
  BY <1>1 DEF Aggregate, Goto, Types
<1>3. Same
  BY <1>2, Untouched DEF S, chosen
<1>4. Prev(m) \in Parties /\ hop \in Parties /\ hop # m /\ net[Prev(m)][m] # <<>>
  BY <1>1, Neighbours DEF Aggregate, Has
<1>5. /\ pc[leader] \in {"collect", "crashed", "error"}
      /\ net[Prev(m)][m] = <<Arriving(m)>> /\ Frame(Prev(m), m) = Arriving(m)
      /\ \A q \in Members : q < m => ~ Early(q)
  BY <1>2, Offered DEF Aggregate
<1>6. Early(m) /\ agreed[m] = S
  BY <1>2 DEF IInv, InStep, Early
<1>8. own = Poly(Upstream(m) \union {m})
  BY <1>1, Neighbours, PolynomialsGrow DEF Arriving
<1>9. hop \in Members => /\ own = Arriving(hop) /\ net[m][hop] = <<>> /\ ~ Passed(hop)
                         /\ Prev(hop) = m /\ m < hop
  <2> SUFFICES ASSUME hop \in Members
               PROVE  /\ own = Arriving(hop) /\ net[m][hop] = <<>> /\ ~ Passed(hop)
                      /\ Prev(hop) = m /\ m < hop
    OBVIOUS
  <2>1. Prev(hop) = m /\ m < hop /\ Upstream(hop) = Upstream(m) \union {m}
    BY <1>1, Neighbours
  <2>2. net[m][hop] = <<>> /\ ~ Passed(hop)
    BY <1>6, <2>1 DEF IInv, InOrder
  <2> QED
    BY <1>8, <2>1, <2>2 DEF Arriving
<1>10. hop = leader => /\ m = N - 2 /\ (leader = N - 1 => own = Whole)
                       /\ pc[leader] = "collect" => net[m][leader] = <<>>
  <2> SUFFICES ASSUME hop = leader
               PROVE  /\ m = N - 2 /\ (leader = N - 1 => own = Whole)
                      /\ pc[leader] = "collect" => net[m][leader] = <<>>
    OBVIOUS
  <2>1. m = N - 2
    BY <1>1, Neighbours
  <2>2. leader = N - 1 => own = Whole
    BY <1>1, <1>8, <2>1, Neighbours DEF Whole
  <2>3. pc[leader] = "collect" => net[m][leader] = <<>>
    BY <1>1, <1>6, <2>1 DEF IInv, Up
  <2> QED
    BY <2>1, <2>2, <2>3
<1>11. /\ Shaped(net')
       /\ \A x, y \in Parties :
            net'[x][y] = IF x = m /\ y = hop THEN Append(net[x][y], own)
                         ELSE IF x = Prev(m) /\ y = m THEN <<>> ELSE net[x][y]
  <2>1. Shaped(net) /\ net' = Put(m, hop, own, Take(Prev(m), m, net))
    BY <1>5, <1>6 DEF Aggregate, IInv, Types
  <2>2. /\ Shaped(Take(Prev(m), m, net))
        /\ \A x, y \in Parties :
             Take(Prev(m), m, net)[x][y] = IF x = Prev(m) /\ y = m THEN Tail(net[x][y]) ELSE net[x][y]
    <3>1. m \in Parties /\ Prev(m) \in Parties /\ Shaped(net)
      BY <1>1, <1>4, <2>1
    <3>2. Take(Prev(m), m, net) =
            [x \in Parties |-> [y \in Parties |-> IF x = Prev(m) /\ y = m THEN Tail(net[x][y]) ELSE net[x][y]]]
      BY ONLY <3>1, OneTaken
    <3> QED
      BY <3>2 DEF Shaped
  <2>3. Tail(net[Prev(m)][m]) = <<>>
    BY <1>5, ShortStreams
  <2> HIDE DEF hop, own
  <2>4. /\ Shaped(net')
        /\ \A x, y \in Parties :
             net'[x][y] = IF x = m /\ y = hop THEN Append(Take(Prev(m), m, net)[x][y], own)
                          ELSE Take(Prev(m), m, net)[x][y]
    BY <1>1, <1>4, <2>1, <2>2, Sent
  <2>5. \A x, y \in Parties : x = m /\ y = hop => Take(Prev(m), m, net)[x][y] = net[x][y]
    BY <1>1, <1>4, <2>2
  <2>6. \A x, y \in Parties : x = Prev(m) /\ y = m => Take(Prev(m), m, net)[x][y] = <<>>
    BY <1>1, <1>4, <2>2, <2>3
  <2> QED
    BY <2>2, <2>4, <2>5, <2>6
<1> HIDE DEF own
<1>12. net'[m][hop] = Append(net[m][hop], own)
  BY <1>1, <1>4, <1>11
<1>13. /\ hop \in Members => net'[m][hop] = <<Arriving(hop)>>
       /\ hop = leader /\ pc[leader] = "collect" =>
             net'[m][leader] # <<>> /\ (leader = N - 1 => net'[m][leader] = <<Whole>>)
  <2>1. Append(<<>>, own) = <<own>> /\ <<own>> # <<>>
    BY ShortStreams
  <2> HIDE DEF hop
  <2> QED
    BY <1>9, <1>10, <1>12, <2>1
<1>14. Types'
  BY <1>1, <1>2, <1>3, <1>11 DEF Aggregate, Goto, Types, Same, MemberStates, LeaderStates, Shaped, chosen
<1>15. \A q \in Members : InStep(q)'
  BY <1>1, <1>2, <1>3, <1>5 DEF Same, IInv, InStep
<1>16. InOrder'
  <2>1. Members' = Members /\ leader' = leader /\ \A q \in Members : Prev(q)' = Prev(q)
    BY <1>3 DEF Same
  <2>2. \A a, b \in Members :
          b < a /\ (Passed(a)' \/ (Prev(a) \in Members /\ net'[Prev(a)][a] # <<>>)) => ~ Early(b)'
    <3> TAKE a, b \in Members
    <3> HAVE b < a /\ (Passed(a)' \/ (Prev(a) \in Members /\ net'[Prev(a)][a] # <<>>))
    <3>1. Early(b)' => Early(b) /\ b # m
      BY <1>1, <1>2 DEF Early
    <3>2. CASE a = m
      BY <1>5, <3>1, <3>2
    <3>3. CASE a # m /\ (Passed(a) \/ (Prev(a) \in Members /\ net[Prev(a)][a] # <<>>))
      BY <3>1, <3>3 DEF IInv, InOrder
    <3>4. CASE a = hop /\ Prev(a) = m
      <4>1. b <= m
        BY <1>1, <3>4, Neighbours
      <4>2. b < m \/ b = m
        BY <1>1, <4>1
      <4> QED
        BY <1>5, <3>1, <4>2
    <3>5. a # m => (Passed(a)' <=> Passed(a))
      BY <1>1, <1>2 DEF Passed
    <3>6. a # m /\ ~ (a = hop /\ Prev(a) = m) /\ Prev(a) \in Members => net'[Prev(a)][a] = net[Prev(a)][a]
      BY <1>1, <1>11
    <3> QED
      BY <3>2, <3>3, <3>4, <3>5, <3>6
  <2>3. ~ AfterRing'
    BY <1>1, <1>2, <1>5, <2>1 DEF AfterRing
  <2> QED
    BY <2>1, <2>2, <2>3 DEF InOrder
<1>17. \A p, q \in Members : Across(p, q)'
  <2> TAKE p, q \in Members
  <2>1. /\ NextHop(p)' = NextHop(p) /\ Arriving(q)' = Arriving(q) /\ leader' = leader
        /\ pc'[leader] = pc[leader]
    BY <1>1, <1>2, <1>3 DEF Same
  <2>2. CASE p = m /\ q = hop
    BY <1>1, <1>2, <1>5, <1>9, <1>13, <2>1, <2>2 DEF Across, Passed
  <2>3. CASE ~ (p = m /\ q = hop)
    <3>1. net'[p][q] = IF p = Prev(m) /\ q = m THEN <<>> ELSE net[p][q]
      BY <1>1, <1>11, <2>3
    <3>2. net'[p][q] # <<>> /\ q = m => Prev(m) = p
      <4>1. net[p][q] # <<>> /\ q = m => NextHop(p) = m
        BY DEF IInv, Across
      <4> QED
        BY <1>1, <3>1, <4>1, Neighbours
    <3>3. q # m => (Passed(q)' <=> Passed(q))
      BY <1>1, <1>2 DEF Passed
    <3> QED
      BY <2>1, <3>1, <3>2, <3>3 DEF IInv, Across
  <2> QED
    BY <2>2, <2>3
<1>18. \A q \in Parties : net'[q][q] = <<>>
  BY <1>1, <1>4, <1>11 DEF IInv
<1>23. /\ net'[leader][m] = <<>>
       /\ \A q \in Members : q # m => net'[leader][q] = net[leader][q]
  <2>1. Prev(m) # leader => net[leader][m] = <<>>
    <3>1. Prev(m) # leader => m # First
      BY <1>1, <1>4, Neighbours DEF None, Parties
    <3> QED
      BY <1>2, <3>1 DEF IInv, Down
  <2> QED
    BY <1>1, <1>11, <2>1
<1>19. \A q \in Members : Down(q)'
  BY <1>1, <1>2, <1>3, <1>23 DEF Same, IInv, Down
<1>20. \A q \in Members : DownInStep(q)'
  BY <1>1, <1>2, <1>3, <1>5, <1>23 DEF Same, IInv, DownInStep, Alive, Early, Passed
<1>21. \A q \in Members : Up(q)'
  BY <1>1, <1>2, <1>3, <1>4, <1>5, <1>10, <1>11, <1>13 DEF Same, IInv, Up, Early
<1>22. Found'
  BY <1>1, <1>2, <1>3, <1>5 DEF Same, IInv, Found
<1> QED
  BY <1>3, <1>14, <1>15, <1>16, <1>17, <1>18, <1>19, <1>20, <1>21, <1>22 DEF IInv, Same

(* A member answers the only frame the leader has sent it.                 *)
LEMMA Answered ==
  ASSUME Types, Ks05Assumption, NEW m \in Members, NEW a, NEW f, net[leader][m] = <<a>>,
         net' = Put(m, leader, f, Take(leader, m, net))
  PROVE  /\ Shaped(net')
         /\ net'[leader][m] = <<>>
         /\ net[m][leader] = <<>> => net'[m][leader] = <<f>>
         /\ \A q \in Members : q # m => net'[leader][q] = net[leader][q] /\ net'[q][leader] = net[q][leader]
         /\ \A p, q \in Members : net'[p][q] = net[p][q]
         /\ \A p \in Parties : net'[p][p] = net[p][p]
<1>1. /\ leader \in Parties /\ \A q \in Members : q \in Parties /\ q # leader
      /\ Shaped(net)
  BY Bounded DEF Types
<1>2. /\ Shaped(Take(leader, m, net))
      /\ \A x, y \in Parties :
           Take(leader, m, net)[x][y] = IF x = leader /\ y = m THEN Tail(net[x][y]) ELSE net[x][y]
  <2>1. m \in Parties /\ leader \in Parties /\ Shaped(net)
    BY <1>1
  <2> QED
    <3>1. Take(leader, m, net) =
            [x \in Parties |-> [y \in Parties |-> IF x = leader /\ y = m THEN Tail(net[x][y]) ELSE net[x][y]]]
      BY ONLY <2>1, OneTaken
    <3> QED
      BY <3>1 DEF Shaped
<1>3. Tail(net[leader][m]) = <<>>
  BY ShortStreams
<1>4. /\ Shaped(net')
      /\ \A x, y \in Parties :
           net'[x][y] = IF x = m /\ y = leader THEN Append(Take(leader, m, net)[x][y], f)
                        ELSE Take(leader, m, net)[x][y]
  BY <1>1, <1>2, Sent
<1>5. net'[m][leader] = Append(net[m][leader], f)
  BY <1>1, <1>2, <1>4
<1>6. net'[leader][m] = <<>>
  BY <1>1, <1>2, <1>3, <1>4
<1>7. \A x, y \in Parties : ~ (x = m /\ y = leader) /\ ~ (x = leader /\ y = m) => net'[x][y] = net[x][y]
  BY <1>2, <1>4
<1> QED
  BY <1>1, <1>4, <1>5, <1>6, <1>7, ShortStreams

(* A member blinds the product and answers the leader.                     *)
LEMMA ReceiveAndBlindKeeps ==
  ASSUME IInv, Ks05Assumption, NEW m \in Members, ReceiveAndBlind(m)
  PROVE  IInv'
<1>1. /\ Types /\ leader \in Parties /\ \A q \in Members : q \in Parties /\ q # leader
      /\ \A p \in Parties : p # leader => p \in Members
  BY Bounded DEF IInv
<1>2. /\ pc[m] = "blind" /\ \A q \in Parties : pc'[q] = IF q = m THEN "decrypt" ELSE pc[q]
      /\ UNCHANGED <<chosen, agreed, served, summed, result>>
  BY <1>1 DEF ReceiveAndBlind, Goto, Types
<1>3. net[leader][m] = <<product[leader]>>
  <2>1. net[leader][m] # <<>> /\ Down(m)
    BY DEF ReceiveAndBlind, Has, IInv
  <2> QED
    BY <1>2, <2>1 DEF Down
<1>4. Frame(leader, m) = product[leader]
  BY <1>3, ShortStreams DEF Frame
<1>5. \/ pc[leader] \in {"crashed", "error"}
      \/ /\ \/ pc[leader] = "broadcast" /\ m \in served
            \/ pc[leader] = "blinded" /\ m \notin served
         /\ net[m][leader] = <<>>
  <2>1. net[leader][m] # <<>>
    BY <1>3, ShortStreams
  <2>2. pc[leader] \in {"collect", "broadcast", "blinded", "crashed", "error"}
    BY <1>1, <1>2 DEF IInv, InStep, Types, LeaderStates
  <2>3. pc[leader] # "collect" /\ (pc[leader] = "broadcast" => m \in served)
    BY <1>2, <2>1 DEF IInv, DownInStep, Alive, Passed
  <2>4. pc[leader] = "blinded" => m \notin served
    BY <1>2 DEF IInv, InStep
  <2> QED
    BY <1>2, <2>2, <2>3, <2>4 DEF IInv, Up
<1>6. product' = [product EXCEPT ![m] = product[leader]] /\ product'[leader] = product[leader]
  BY <1>1, <1>4 DEF ReceiveAndBlind, Types
<1>7. Same
  BY <1>2, <1>6, Untouched DEF S, chosen
<1>8. net' = Put(m, leader, Blinded(m), Take(leader, m, net))
  BY <1>4 DEF ReceiveAndBlind, Blinded
<1>9. /\ Shaped(net') /\ net'[leader][m] = <<>>
      /\ net[m][leader] = <<>> => net'[m][leader] = <<Blinded(m)>>
      /\ \A q \in Members : q # m => net'[leader][q] = net[leader][q] /\ net'[q][leader] = net[q][leader]
      /\ \A p, q \in Members : net'[p][q] = net[p][q]
      /\ \A p \in Parties : net'[p][p] = net[p][p]
  BY <1>1, <1>3, <1>8, Answered
<1>10. Types'
  BY <1>1, <1>2, <1>6, <1>7, <1>9 DEF ReceiveAndBlind, Goto, Types, Same, MemberStates, LeaderStates, Shaped, chosen
<1>11. \A q \in Members : InStep(q)'
  BY <1>1, <1>2, <1>5, <1>7 DEF Same, IInv, InStep
<1>12. InOrder'
  BY <1>1, <1>2, <1>6, <1>7, <1>9 DEF Same, IInv, InOrder, AfterRing, Early, Passed
<1>13. \A p, q \in Members : Across(p, q)'
  BY <1>1, <1>2, <1>7, <1>9 DEF Same, IInv, Across, Passed
<1>14. \A q \in Parties : net'[q][q] = <<>>
  BY <1>9 DEF IInv
<1>15. \A q \in Members : Down(q)'
  BY <1>1, <1>2, <1>6, <1>7, <1>9 DEF Same, IInv, Down
<1>16. \A q \in Members : DownInStep(q)'
  BY <1>1, <1>2, <1>5, <1>7, <1>9 DEF Same, IInv, DownInStep, Alive, Early, Passed
<1>17. \A q \in Members : Up(q)'
  BY <1>1, <1>2, <1>5, <1>7, <1>9 DEF Same, IInv, Up, Early
<1>18. Found'
  BY <1>1, <1>2, <1>7 DEF Same, IInv, Found, Types
<1> QED
  BY <1>7, <1>10, <1>11, <1>12, <1>13, <1>14, <1>15, <1>16, <1>17, <1>18 DEF IInv, Same

(* A member decrypts the sum partially; it is done.                        *)
LEMMA PartialDecryptKeeps ==
  ASSUME IInv, Ks05Assumption, NEW m \in Members, PartialDecrypt(m)
  PROVE  IInv'
<1>1. /\ Types /\ leader \in Parties /\ \A q \in Members : q \in Parties /\ q # leader
      /\ \A p \in Parties : p # leader => p \in Members
  BY Bounded DEF IInv
<1>2. /\ pc[m] = "decrypt" /\ \A q \in Parties : pc'[q] = IF q = m THEN "done" ELSE pc[q]
      /\ UNCHANGED <<chosen, agreed, product, served, summed, result>>
  BY <1>1 DEF PartialDecrypt, Goto, Types
<1>3. net[leader][m] = <<summed>>
  <2>1. net[leader][m] # <<>> /\ Down(m)
    BY DEF PartialDecrypt, Has, IInv
  <2> QED
    BY <1>2, <2>1 DEF Down
<1>4. Frame(leader, m) = summed
  BY <1>3, ShortStreams DEF Frame
<1>5. \/ pc[leader] \in {"crashed", "error"}
      \/ /\ \/ pc[leader] = "sendSum" /\ m \in served
            \/ pc[leader] = "partials" /\ m \notin served
         /\ net[m][leader] = <<>>
  <2>1. net[leader][m] # <<>>
    BY <1>3, ShortStreams
  <2>2. pc[leader] \in {"broadcast", "blinded", "sendSum", "partials", "crashed", "error"}
    BY <1>1, <1>2 DEF IInv, InStep, Types, LeaderStates
  <2>3. pc[leader] \notin {"broadcast", "blinded"} /\ (pc[leader] = "sendSum" => m \in served)
    BY <1>2, <2>1 DEF IInv, DownInStep, Alive, Passed
  <2>4. pc[leader] = "partials" => m \notin served
    BY <1>2 DEF IInv, InStep
  <2> QED
    BY <1>2, <2>2, <2>3, <2>4 DEF IInv, Up
<1>7. Same
  BY <1>2, Untouched DEF S, chosen
<1>8. net' = Put(m, leader, summed, Take(leader, m, net))
  BY <1>4 DEF PartialDecrypt
<1>9. /\ Shaped(net') /\ net'[leader][m] = <<>>
      /\ net[m][leader] = <<>> => net'[m][leader] = <<summed>>
      /\ \A q \in Members : q # m => net'[leader][q] = net[leader][q] /\ net'[q][leader] = net[q][leader]
      /\ \A p, q \in Members : net'[p][q] = net[p][q]
      /\ \A p \in Parties : net'[p][p] = net[p][p]
  BY <1>1, <1>3, <1>8, Answered
<1>10. Types'
  BY <1>1, <1>2, <1>7, <1>9 DEF PartialDecrypt, Goto, Types, Same, MemberStates, LeaderStates, Shaped, chosen
<1>11. \A q \in Members : InStep(q)'
  BY <1>1, <1>2, <1>5, <1>7 DEF Same, IInv, InStep
<1>12. InOrder'
  BY <1>1, <1>2, <1>7, <1>9 DEF Same, IInv, InOrder, AfterRing, Early, Passed
<1>13. \A p, q \in Members : Across(p, q)'
  BY <1>1, <1>2, <1>7, <1>9 DEF Same, IInv, Across, Passed
<1>14. \A q \in Parties : net'[q][q] = <<>>
  BY <1>9 DEF IInv
<1>15. \A q \in Members : Down(q)'
  BY <1>1, <1>2, <1>7, <1>9 DEF Same, IInv, Down
<1>16. \A q \in Members : DownInStep(q)'
  BY <1>1, <1>2, <1>5, <1>7, <1>9 DEF Same, IInv, DownInStep, Alive, Early, Passed
<1>17. \A q \in Members : Up(q)'
  BY <1>1, <1>2, <1>5, <1>7, <1>9 DEF Same, IInv, Up, Early
<1>18. Found'
  BY <1>1, <1>2, <1>7 DEF Same, IInv, Found, Types
<1> QED
  BY <1>7, <1>10, <1>11, <1>12, <1>13, <1>14, <1>15, <1>16, <1>17, <1>18 DEF IInv, Same

-----------------------------------------------------------------------------
(* The steps of the leader.                                                *)
LEMMA LargestSize ==
  ASSUME Types, Ks05Assumption, NEW f,
         \A m \in Members : f[m] = Size(m)
  PROVE  Max({Size(leader)} \union {f[m] : m \in Members}) \in Nat
<1> DEFINE g == [p \in Parties |-> Size(p)]
           T == {g[p] : p \in Parties}
<1>1. T \in SUBSET Nat /\ T # {} /\ leader \in Parties
  BY SizeIsSum DEF Types
<1>2. IsFiniteSet(Parties)
  BY FS_Interval DEF Parties, Ks05Assumption
<1>3. IsFiniteSet(T)
  BY <1>2, ValuesAreFinite
<1>4. {Size(leader)} \union {f[m] : m \in Members} = T
  BY <1>1 DEF Members
<1>5. Max(T) \in T
  <2> HIDE DEF T
  <2> QED
    BY <1>1, <1>3, Extremes
<1> QED
  BY <1>1, <1>4, <1>5

(* The leader has all sizes and announces the largest one.                 *)
LEMMA NegotiateSizesKeeps ==
  ASSUME IInv, Ks05Assumption, NegotiateSizes
  PROVE  IInv'
<1> DEFINE largest == Max({Size(leader)} \union {Frame(m, leader).size : m \in Members})
<1>1. /\ Types /\ leader \in Parties /\ \A q \in Members : q \in Parties /\ q # leader
      /\ \A p \in Parties : p # leader => p \in Members
  BY Bounded DEF IInv
<1>2. /\ pc[leader] = "sizes" /\ \A q \in Parties : pc'[q] = IF q = leader THEN "ring" ELSE pc[q]
      /\ UNCHANGED <<chosen, product, served, summed, result>>
  BY <1>1 DEF NegotiateSizes, Goto, Types
<1>3. /\ leader' = leader /\ input' = input /\ threshold' = threshold
      /\ Members' = Members /\ First' = First
      /\ \A m \in Members : Prev(m)' = Prev(m) /\ NextHop(m)' = NextHop(m)
  BY <1>2, Static
<1>4. \A m \in Members : net[m][leader] = <<Sized(Size(m))>> /\ pc[m] \in {"negotiate", "crashed", "stuck"}
  BY <1>2 DEF IInv, InStep, Up, NegotiateSizes, Has
<1>5. \A m \in Members : Frame(m, leader).size = Size(m) /\ Tail(net[m][leader]) = <<>>
  <2>1. \A m \in Members : Frame(m, leader) = Sized(Size(m)) /\ Tail(net[m][leader]) = <<>>
    BY <1>4, ShortStreams DEF Frame
  <2> QED
    BY <2>1 DEF Sized
<1>6. largest \in Nat
  <2> DEFINE f == [m \in Members |-> Frame(m, leader).size]
  <2>1. {Frame(m, leader).size : m \in Members} = {f[m] : m \in Members}
    OBVIOUS
  <2>2. \A m \in Members : f[m] = Size(m)
    BY <1>5
  <2> HIDE DEF f
  <2> QED
    BY <1>1, <2>1, <2>2, LargestSize
<1>7. /\ agreed' = [agreed EXCEPT ![leader] = largest]
      /\ net' = [p \in Parties |-> [q \in Parties |->
                   IF p = leader /\ q # leader THEN Append(net[p][q], Sized(largest))
                   ELSE IF p # leader /\ q = leader THEN Tail(net[p][q])
                   ELSE net[p][q]]]
  BY DEF NegotiateSizes, Sized
<1> HIDE DEF largest
<1>8. S' = largest
  BY <1>1, <1>2, <1>7 DEF S, Types, chosen
<1>9. /\ Shaped(net')
      /\ \A m \in Members : net'[leader][m] = Append(net[leader][m], Sized(largest)) /\ net'[m][leader] = <<>>
      /\ \A p, q \in Members : net'[p][q] = net[p][q]
      /\ \A p \in Parties : net'[p][p] = net[p][p]
  BY <1>1, <1>5, <1>7 DEF Shaped
<1>10. \A m \in Members : pc[m] = "negotiate" => net'[leader][m] = <<Sized(S)'>>
  <2>1. \A m \in Members : pc[m] = "negotiate" => net[leader][m] = <<>>
    BY <1>2 DEF IInv, DownInStep, Alive, Early
  <2> QED
    BY <1>8, <1>9, <2>1, ShortStreams DEF Sized
<1>11. Types'
  <2>1. agreed' \in [Parties -> Nat]
    BY <1>1, <1>6, <1>7 DEF Types
  <2> QED
    BY <1>1, <1>2, <1>3, <1>9, <2>1 DEF NegotiateSizes, Goto, Types, MemberStates, LeaderStates, Shaped, chosen
<1>12. \A m \in Members : InStep(m)'
  BY <1>1, <1>2, <1>3, <1>4 DEF InStep
<1>13. InOrder'
  <2>1. \A m \in Members : ~ Passed(m)' /\ pc'[leader] = "ring"
    BY <1>1, <1>2, <1>4 DEF Passed
  <2>2. \A m, q \in Members : net'[m][q] = <<>>
    BY <1>2, <1>9 DEF IInv, Across, Passed
  <2> QED
    <3>1. \A m \in Members : ~ (Prev(m) \in Members /\ net'[Prev(m)][m] # <<>>)
      BY <2>2
    <3>2. ~ AfterRing'
      BY <1>3, <2>1, <1>1, <1>2 DEF AfterRing
    <3> QED
      BY <1>3, <2>1, <3>1, <3>2 DEF InOrder
<1>14. \A m, q \in Members : Across(m, q)'
  BY <1>1, <1>2, <1>3, <1>9 DEF IInv, Across, Passed
<1>15. \A p \in Parties : net'[p][p] = <<>>
  BY <1>9 DEF IInv
<1>16. \A m \in Members : Down(m)'
  BY <1>1, <1>2, <1>3, <1>4, <1>10 DEF Down
<1>17. \A m \in Members : DownInStep(m)'
  BY <1>1, <1>2, <1>3, <1>4, <1>10 DEF DownInStep
<1>18. \A m \in Members : Up(m)'
  BY <1>1, <1>2, <1>3, <1>9 DEF Up
<1>19. Found'
  BY <1>1, <1>2, <1>3 DEF IInv, Found
<1> QED
  BY <1>3, <1>11, <1>12, <1>13, <1>14, <1>15, <1>16, <1>17, <1>18, <1>19 DEF IInv

(* The leader sends its polynomial round the ring.                         *)
LEMMA StartRingKeeps ==
  ASSUME IInv, Ks05Assumption, StartRing
  PROVE  IInv'
<1>1. /\ Types /\ leader \in Parties /\ \A q \in Members : q \in Parties /\ q # leader
      /\ \A p \in Parties : p # leader => p \in Members
  BY Bounded DEF IInv
<1>2. /\ pc[leader] = "ring" /\ \A q \in Parties : pc'[q] = IF q = leader THEN "collect" ELSE pc[q]
      /\ UNCHANGED <<chosen, agreed, product, served, summed, result>>
  BY <1>1 DEF StartRing, Goto, Types
<1>3. Same
  BY <1>2, Untouched DEF S, chosen
<1>4. First \in Members /\ Encode(leader, S) = Arriving(First)
  BY <1>1, Neighbours, PolynomialsGrow DEF Arriving
<1>5. /\ Shaped(net')
      /\ \A x, y \in Parties :
           net'[x][y] = IF x = leader /\ y = First THEN Append(net[x][y], Arriving(First)) ELSE net[x][y]
  <2>1. Shaped(net) /\ net' = Put(leader, First, Arriving(First), net)
    BY <1>1, <1>4 DEF StartRing, Types, S
  <2> QED
    BY <1>1, <1>4, <2>1 DEF Shaped, Put
<1>6. \A q \in Members : /\ net'[leader][q] = IF q = First THEN Append(net[leader][q], Arriving(q)) ELSE net[leader][q]
                         /\ net'[q][leader] = net[q][leader]
                         /\ \A p \in Members : net'[p][q] = net[p][q]
  BY <1>1, <1>5
<1>7. \A q \in Members : /\ pc[q] \in {"negotiate", "aggregate", "crashed", "stuck"}
                         /\ pc[q] = "negotiate" => net[leader][q] = <<Sized(S)>>
                         /\ pc[q] = "aggregate" => net[leader][q] = <<>>
  BY <1>2 DEF IInv, InStep, DownInStep
<1>8. Types'
  BY <1>1, <1>2, <1>3, <1>5 DEF StartRing, Goto, Types, Same, MemberStates, LeaderStates, Shaped, chosen
<1>9. \A q \in Members : InStep(q)'
  BY <1>1, <1>2, <1>3, <1>7 DEF Same, IInv, InStep
<1>10. InOrder'
  BY <1>1, <1>2, <1>3, <1>6 DEF Same, IInv, InOrder, AfterRing, Early, Passed
<1>11. \A p, q \in Members : Across(p, q)'
  BY <1>1, <1>2, <1>3, <1>6 DEF Same, IInv, Across, Passed
<1>12. \A q \in Parties : net'[q][q] = <<>>
  BY <1>1, <1>4, <1>5 DEF IInv
<1>13. \A q \in Members : Down(q)'
  <2> TAKE q \in Members
  <2>1. /\ leader' = leader /\ First' = First /\ Sized(S)' = Sized(S) /\ Arriving(q)' = Arriving(q)
        /\ pc'[q] = pc[q]
    BY <1>1, <1>2, <1>3 DEF Same, Sized
  <2>2. /\ pc[q] = "negotiate" => net'[leader][q] = IF q = First THEN <<Sized(S), Arriving(q)>> ELSE <<Sized(S)>>
        /\ pc[q] = "aggregate" => net'[leader][q] = IF q = First THEN <<Arriving(q)>> ELSE <<>>
    <3>1. /\ Append(<<Sized(S)>>, Arriving(q)) = <<Sized(S), Arriving(q)>>
          /\ Append(<<>>, Arriving(q)) = <<Arriving(q)>>
      BY ShortStreams
    <3> QED
      BY <1>6, <1>7, <3>1
  <2> QED
    BY <1>7, <2>1, <2>2 DEF Down
<1>14. \A q \in Members : DownInStep(q)'
  BY <1>1, <1>2, <1>3, <1>7 DEF Same, DownInStep
<1>15. \A q \in Members : Up(q)'
  BY <1>1, <1>2, <1>3, <1>6 DEF Same, IInv, Up
<1>16. Found'
  BY <1>1, <1>2, <1>3 DEF Same, IInv, Found
<1> QED
  BY <1>3, <1>8, <1>9, <1>10, <1>11, <1>12, <1>13, <1>14, <1>15, <1>16 DEF IInv, Same

(* The leader reads the only frame that a member has sent it.              *)
LEMMA Taken ==
  ASSUME Types, Ks05Assumption, NEW m \in Members, NEW a, net[m][leader] = <<a>>,
         net' = Take(m, leader, net)
  PROVE  /\ Shaped(net')
         /\ net'[m][leader] = <<>>
         /\ \A q \in Members : net'[leader][q] = net[leader][q] /\ (q # m => net'[q][leader] = net[q][leader])
         /\ \A p, q \in Members : net'[p][q] = net[p][q]
         /\ \A p \in Parties : net'[p][p] = net[p][p]
<1>1. leader \in Parties /\ (\A q \in Members : q \in Parties /\ q # leader) /\ Shaped(net)
  BY Bounded DEF Types
<1>2. /\ Shaped(net')
      /\ \A x, y \in Parties :
           net'[x][y] = IF x = m /\ y = leader THEN Tail(net[x][y]) ELSE net[x][y]
  <2>1. m \in Parties /\ leader \in Parties /\ Shaped(net)
    BY <1>1
  <2>2. /\ Shaped(Take(m, leader, net))
        /\ \A x, y \in Parties :
             Take(m, leader, net)[x][y] = IF x = m /\ y = leader THEN Tail(net[x][y]) ELSE net[x][y]
    <3>1. Take(m, leader, net) =
            [x \in Parties |-> [y \in Parties |-> IF x = m /\ y = leader THEN Tail(net[x][y]) ELSE net[x][y]]]
      BY ONLY <2>1, OneTaken
    <3> QED
      BY <3>1 DEF Shaped
  <2> QED
    BY <2>2
<1>3. Tail(net[m][leader]) = <<>>
  BY ShortStreams
<1> QED
  BY <1>1, <1>2, <1>3

(* The product comes back to the leader.                                   *)
LEMMA CollectProductKeeps ==
  ASSUME IInv, Ks05Assumption, CollectProduct
  PROVE  IInv'
<1>1. /\ Types /\ leader \in Parties /\ \A q \in Members : q \in Parties /\ q # leader /\ q \in Nat /\ q <= N - 1
      /\ (\A p \in Parties : p # leader => p \in Members) /\ N \in Nat
  BY Bounded DEF IInv
<1>2. /\ pc[leader] = "collect" /\ \A q \in Parties : pc'[q] = IF q = leader THEN "broadcast" ELSE pc[q]
      /\ UNCHANGED <<chosen, agreed, served, summed, result>>
  BY <1>1 DEF CollectProduct, Goto, Types
<1>3. /\ leader = N - 1 /\ Last \in Members /\ net[Last][leader] = <<Whole>>
      /\ \A q \in Members : ~ Early(q) /\ (q # Last => net[q][leader] = <<>>)
  <2>1. net[Last][leader] # <<>> /\ Last \in Members
    BY <1>1, Neighbours DEF CollectProduct, Has
  <2>2. Last = N - 2 /\ leader = N - 1
    BY <1>1, <1>2, <2>1, Neighbours DEF IInv, Up
  <2>3. net[Last][leader] = <<Whole>> /\ \A q \in Members : q <= Last => ~ Early(q)
    BY <1>2, <2>1, <2>2 DEF IInv, Up
  <2>4. \A q \in Members : q <= Last
    BY <1>1, <2>2
  <2>5. \A q \in Members : q # Last => net[q][leader] = <<>>
    BY <1>2, <2>2 DEF IInv, Up
  <2> QED
    BY <2>1, <2>2, <2>3, <2>4, <2>5
<1>4. product' = [product EXCEPT ![leader] = Whole] /\ product'[leader] = Whole
  BY <1>1, <1>3, ShortStreams DEF CollectProduct, Frame, Types
<1>5. /\ leader' = leader /\ input' = input /\ threshold' = threshold
      /\ Members' = Members /\ First' = First /\ S' = S /\ Whole' = Whole
      /\ \A m \in Members : /\ Prev(m)' = Prev(m) /\ NextHop(m)' = NextHop(m)
                           /\ Arriving(m)' = Arriving(m)
  <2>1. leader' = leader /\ S' = S
    BY <1>2 DEF S, chosen
  <2>2. \A e : CopiesOf(e)' = CopiesOf(e)
    BY <1>2 DEF CopiesOf, chosen
  <2>3. \A Q : Poly(Q)' = Poly(Q)
    BY <2>1, <2>2 DEF Poly
  <2> QED
    BY <1>2, <2>1, <2>3, Static DEF Whole, Arriving
<1>6. /\ Shaped(net') /\ \A p, q \in Members : net'[p][q] = net[p][q]
      /\ \A q \in Members : net'[leader][q] = net[leader][q] /\ net'[q][leader] = <<>>
      /\ \A p \in Parties : net'[p][p] = net[p][p]
  <2>1. net' = Take(Last, leader, net)
    BY DEF CollectProduct
  <2> HIDE DEF Last
  <2> QED
    BY <1>1, <1>3, <2>1, Taken
<1>7. Whole \in Polynomials
  BY <1>1, PolynomialsGrow DEF Whole
<1>8. \A q \in Members : pc[q] \in {"blind", "crashed", "stuck"} /\ (pc[q] = "blind" => net[leader][q] = <<>>)
  BY <1>2, <1>3 DEF IInv, InStep, DownInStep, Early
<1>9. Types'
  <2>1. product' \in [Parties -> Polynomials]
    BY <1>1, <1>4, <1>7 DEF Types
  <2> QED
    BY <1>1, <1>2, <1>5, <1>6, <2>1 DEF CollectProduct, Goto, Types, MemberStates, LeaderStates, Shaped, chosen
<1>10. \A q \in Members : InStep(q)'
  BY <1>1, <1>2, <1>5, <1>8 DEF IInv, InStep
<1>11. InOrder'
  BY <1>1, <1>2, <1>3, <1>4, <1>5 DEF InOrder, Early
<1>12. \A p, q \in Members : Across(p, q)'
  BY <1>1, <1>2, <1>5, <1>6 DEF IInv, Across, Passed
<1>13. \A q \in Parties : net'[q][q] = <<>>
  BY <1>6 DEF IInv
<1>14. \A q \in Members : Down(q)'
  BY <1>1, <1>2, <1>5, <1>6, <1>8 DEF Down
<1>15. \A q \in Members : DownInStep(q)'
  BY <1>1, <1>2, <1>5, <1>6, <1>8 DEF DownInStep, Alive, Early, Passed
<1>16. \A q \in Members : Up(q)'
  BY <1>1, <1>2, <1>5, <1>6 DEF Up
<1>17. Found'
  BY <1>1, <1>2, <1>5 DEF IInv, Found
<1> QED
  BY <1>5, <1>9, <1>10, <1>11, <1>12, <1>13, <1>14, <1>15, <1>16, <1>17 DEF IInv

(* The threads of a phase are joined: the phase ends with the last member. *)
LEMMA Serving ==
  ASSUME Types, Ks05Assumption, NEW m \in Members, NEW from, NEW to \in LeaderStates, Serve(m, from, to), UNCHANGED leader
  PROVE  /\ pc[leader] = from /\ m \notin served
         /\ \A q \in Members : pc'[q] = pc[q]
         /\ \/ served \union {m} = Members /\ served' = {} /\ pc'[leader] = to
            \/ served \union {m} # Members /\ served' = served \union {m} /\ pc'[leader] = from
         /\ served' \in SUBSET Members /\ served' # Members
         /\ pc' \in [Parties -> MemberStates \union LeaderStates] /\ pc'[leader] \in LeaderStates
<1>1. leader \in Parties /\ \A q \in Members : q \in Parties /\ q # leader
  BY Bounded
<1>2. CASE served \union {m} = Members
  BY <1>1, <1>2 DEF Serve, Types
<1>3. CASE served \union {m} # Members
  BY <1>1, <1>3 DEF Serve, Types
<1> QED
  BY <1>2, <1>3

(* The product goes to a member.                                           *)
LEMMA BroadcastKeeps ==
  ASSUME IInv, Ks05Assumption, NEW m \in Members, Broadcast(m)
  PROVE  IInv'
<1>1. /\ Types /\ leader \in Parties /\ \A q \in Members : q \in Parties /\ q # leader
  BY Bounded DEF IInv
<1>2. /\ UNCHANGED <<chosen, agreed, product, summed, result>>
      /\ leader' = leader
  BY DEF Broadcast, chosen
<1>3. /\ pc[leader] = "broadcast" /\ m \notin served
      /\ \A q \in Members : pc'[q] = pc[q]
      /\ \/ served \union {m} = Members /\ served' = {} /\ pc'[leader] = "blinded"
         \/ served \union {m} # Members /\ served' = served \union {m} /\ pc'[leader] = "broadcast"
      /\ served' \in SUBSET Members /\ served' # Members
      /\ pc' \in [Parties -> MemberStates \union LeaderStates] /\ pc'[leader] \in LeaderStates
  BY <1>1, <1>2, Serving DEF Broadcast, LeaderStates
<1>4. Same
  BY <1>2, Untouched DEF S
<1>5. leader = N - 1 /\ product[leader] = Whole
  BY <1>3 DEF IInv, InOrder, AfterRing
<1>6. /\ Shaped(net')
      /\ net'[leader][m] = Append(net[leader][m], product[leader])
      /\ \A q \in Members : (q # m => net'[leader][q] = net[leader][q]) /\ net'[q][leader] = net[q][leader]
      /\ \A p, q \in Members : net'[p][q] = net[p][q]
      /\ \A p \in Parties : net'[p][p] = net[p][p]
  BY <1>1 DEF Broadcast, Types, Shaped, Put
<1>7. \A q \in Members : /\ pc[q] \in {"blind", "decrypt", "crashed", "stuck"}
                         /\ q \notin served /\ pc[q] \in {"blind", "decrypt"} => net[leader][q] = <<>> /\ pc[q] = "blind"
                         /\ pc[q] = "decrypt" => net[leader][q] = <<>>
                         /\ q \notin served => net[q][leader] = <<>>
  BY <1>3 DEF IInv, InStep, DownInStep, Up, Alive, Passed
<1>8. pc[m] = "blind" => net'[leader][m] = <<product[leader]>>
  BY <1>3, <1>6, <1>7, ShortStreams
<1>9. Types'
  BY <1>1, <1>2, <1>3, <1>4, <1>6 DEF Types, Same, Shaped, chosen
<1>10. \A q \in Members : InStep(q)'
  BY <1>2, <1>3, <1>4, <1>7 DEF Same, IInv, InStep
<1>11. InOrder'
  BY <1>2, <1>3, <1>4, <1>6 DEF Same, IInv, InOrder, AfterRing, Early, Passed
<1>12. \A p, q \in Members : Across(p, q)'
  BY <1>2, <1>3, <1>4, <1>6 DEF Same, IInv, Across, Passed
<1>13. \A q \in Parties : net'[q][q] = <<>>
  BY <1>6 DEF IInv
<1>14. \A q \in Members : Down(q)'
  BY <1>2, <1>3, <1>4, <1>5, <1>6, <1>7, <1>8 DEF Same, IInv, Down
<1>15. \A q \in Members : DownInStep(q)'
  BY <1>2, <1>3, <1>4, <1>6, <1>7 DEF Same, DownInStep, Alive, Early, Passed
<1>16. \A q \in Members : Up(q)'
  BY <1>2, <1>3, <1>4, <1>6, <1>7 DEF Same, IInv, Up
<1>17. Found'
  BY <1>2, <1>3, <1>4 DEF Same, IInv, Found, Types
<1> QED
  BY <1>4, <1>9, <1>10, <1>11, <1>12, <1>13, <1>14, <1>15, <1>16, <1>17 DEF IInv, Same

(* A blinded polynomial arrives; with the last one, the sum is complete.   *)
LEMMA CollectBlindedKeeps ==
  ASSUME IInv, Ks05Assumption, NEW m \in Members, CollectBlinded(m)
  PROVE  IInv'
<1>1. /\ Types /\ leader \in Parties /\ \A q \in Members : q \in Parties /\ q # leader
  BY Bounded DEF IInv
<1>2. /\ UNCHANGED <<chosen, agreed, product, result>>
      /\ leader' = leader
  BY DEF CollectBlinded, chosen
<1>3. /\ pc[leader] = "blinded" /\ m \notin served
      /\ \A q \in Members : pc'[q] = pc[q]
      /\ \/ served \union {m} = Members /\ served' = {} /\ pc'[leader] = "sendSum"
         \/ served \union {m} # Members /\ served' = served \union {m} /\ pc'[leader] = "blinded"
      /\ served' \in SUBSET Members /\ served' # Members
      /\ pc' \in [Parties -> MemberStates \union LeaderStates] /\ pc'[leader] \in LeaderStates
  BY <1>1, <1>2, Serving DEF CollectBlinded, LeaderStates
<1>4. Same
  BY <1>2, Untouched DEF S
<1>5. net[m][leader] = <<Blinded(m)>> /\ pc[m] # "blind"
  BY <1>3 DEF IInv, Up, CollectBlinded, Has
<1>6. /\ Shaped(net') /\ net'[m][leader] = <<>>
      /\ \A q \in Members : net'[leader][q] = net[leader][q] /\ (q # m => net'[q][leader] = net[q][leader])
      /\ \A p, q \in Members : net'[p][q] = net[p][q]
      /\ \A p \in Parties : net'[p][p] = net[p][p]
  BY <1>1, <1>5, Taken DEF CollectBlinded
<1>7. /\ DOMAIN summed' = {"zeros", "degree"}
      /\ summed'.zeros = summed.zeros \intersect Blinded(m).zeros
  <2>1. Frame(m, leader) = Blinded(m)
    BY <1>5, ShortStreams DEF Frame
  <2> QED
    BY <2>1 DEF CollectBlinded, AddBlinded
<1>8. \A q \in Members : /\ pc[q] \in {"blind", "decrypt", "crashed", "stuck"}
                         /\ q \in served => pc[q] # "blind" /\ net[q][leader] = <<>>
                         /\ pc[q] = "decrypt" => net[leader][q] = <<>>
  BY <1>3 DEF IInv, InStep, DownInStep, Up
<1>9. Types'
  BY <1>1, <1>2, <1>3, <1>4, <1>6, <1>7 DEF Types, Same, Shaped, chosen
<1>10. \A q \in Members : InStep(q)'
  BY <1>2, <1>3, <1>4, <1>5, <1>8 DEF Same, IInv, InStep
<1>11. InOrder'
  BY <1>2, <1>3, <1>4, <1>6 DEF Same, IInv, InOrder, AfterRing, Early, Passed
<1>12. \A p, q \in Members : Across(p, q)'
  BY <1>2, <1>3, <1>4, <1>6 DEF Same, IInv, Across, Passed
<1>13. \A q \in Parties : net'[q][q] = <<>>
  BY <1>6 DEF IInv
<1>14. \A q \in Members : Down(q)'
  BY <1>2, <1>3, <1>4, <1>6, <1>8 DEF Same, IInv, Down
<1>15. \A q \in Members : DownInStep(q)'
  BY <1>2, <1>3, <1>4, <1>5, <1>6, <1>8 DEF Same, DownInStep, Alive, Early, Passed
<1>16. \A q \in Members : Up(q)'
  BY <1>2, <1>3, <1>4, <1>6, <1>8 DEF Same, IInv, Up
<1>17. Found'
  <2>1. \A e \in Elements : e \in summed.zeros <=> \A q \in served : e \in Blinded(q).zeros
    BY <1>3 DEF IInv, Found
  <2>2. \A e \in Elements : e \in summed'.zeros <=> \A q \in served \union {m} : e \in Blinded(q).zeros
    BY <1>7, <2>1
  <2>3. Members' = Members /\ \A q \in Members : Blinded(q)' = Blinded(q)
    BY <1>2, <1>4 DEF Same
  <2>4. served \union {m} \in SUBSET Members
    BY <1>1 DEF Types
  <2> QED
    BY <1>2, <1>3, <2>2, <2>3, <2>4 DEF Found
<1> QED
  BY <1>4, <1>9, <1>10, <1>11, <1>12, <1>13, <1>14, <1>15, <1>16, <1>17 DEF IInv, Same

(* The sum goes to a member.                                               *)
LEMMA SendSumKeeps ==
  ASSUME IInv, Ks05Assumption, NEW m \in Members, SendSum(m)
  PROVE  IInv'
<1>1. /\ Types /\ leader \in Parties /\ \A q \in Members : q \in Parties /\ q # leader
  BY Bounded DEF IInv
<1>2. /\ UNCHANGED <<chosen, agreed, product, summed, result>>
      /\ leader' = leader
  BY DEF SendSum, chosen
<1>3. /\ pc[leader] = "sendSum" /\ m \notin served
      /\ \A q \in Members : pc'[q] = pc[q]
      /\ \/ served \union {m} = Members /\ served' = {} /\ pc'[leader] = "partials"
         \/ served \union {m} # Members /\ served' = served \union {m} /\ pc'[leader] = "sendSum"
      /\ served' \in SUBSET Members /\ served' # Members
      /\ pc' \in [Parties -> MemberStates \union LeaderStates] /\ pc'[leader] \in LeaderStates
  BY <1>1, <1>2, Serving DEF SendSum, LeaderStates
<1>4. Same
  BY <1>2, Untouched DEF S
<1>6. /\ Shaped(net')
      /\ net'[leader][m] = Append(net[leader][m], summed)
      /\ \A q \in Members : (q # m => net'[leader][q] = net[leader][q]) /\ net'[q][leader] = net[q][leader]
      /\ \A p, q \in Members : net'[p][q] = net[p][q]
      /\ \A p \in Parties : net'[p][p] = net[p][p]
  BY <1>1 DEF SendSum, Types, Shaped, Put
<1>7. \A q \in Members : /\ pc[q] \in {"decrypt", "done", "crashed", "stuck"}
                         /\ q \notin served => pc[q] # "done" /\ net[q][leader] = <<>>
                         /\ q \notin served /\ pc[q] = "decrypt" => net[leader][q] = <<>>
  BY <1>3 DEF IInv, InStep, DownInStep, Up, Alive, Passed
<1>8. pc[m] = "decrypt" => net'[leader][m] = <<summed>>
  BY <1>3, <1>6, <1>7, ShortStreams
<1>9. Types'
  BY <1>1, <1>2, <1>3, <1>4, <1>6 DEF Types, Same, Shaped, chosen
<1>10. \A q \in Members : InStep(q)'
  BY <1>2, <1>3, <1>4, <1>7 DEF Same, IInv, InStep
<1>11. InOrder'
  BY <1>2, <1>3, <1>4, <1>6 DEF Same, IInv, InOrder, AfterRing, Early, Passed
<1>12. \A p, q \in Members : Across(p, q)'
  BY <1>2, <1>3, <1>4, <1>6 DEF Same, IInv, Across, Passed
<1>13. \A q \in Parties : net'[q][q] = <<>>
  BY <1>6 DEF IInv
<1>14. \A q \in Members : Down(q)'
  BY <1>2, <1>3, <1>4, <1>6, <1>7, <1>8 DEF Same, IInv, Down
<1>15. \A q \in Members : DownInStep(q)'
  BY <1>2, <1>3, <1>4, <1>6, <1>7 DEF Same, DownInStep, Alive, Early, Passed
<1>16. \A q \in Members : Up(q)'
  BY <1>2, <1>3, <1>4, <1>6, <1>7 DEF Same, IInv, Up
<1>17. Found'
  BY <1>2, <1>3, <1>4 DEF Same, IInv, Found, Types
<1> QED
  BY <1>4, <1>9, <1>10, <1>11, <1>12, <1>13, <1>14, <1>15, <1>16, <1>17 DEF IInv, Same

(* A partial decryption arrives.                                           *)
LEMMA CollectPartialKeeps ==
  ASSUME IInv, Ks05Assumption, NEW m \in Members, CollectPartial(m)
  PROVE  IInv'
<1>1. /\ Types /\ leader \in Parties /\ \A q \in Members : q \in Parties /\ q # leader
  BY Bounded DEF IInv
<1>2. /\ UNCHANGED <<chosen, agreed, product, summed, result>>
      /\ leader' = leader
  BY DEF CollectPartial, chosen
<1>3. /\ pc[leader] = "partials" /\ m \notin served
      /\ \A q \in Members : pc'[q] = pc[q]
      /\ \/ served \union {m} = Members /\ served' = {} /\ pc'[leader] = "fuse"
         \/ served \union {m} # Members /\ served' = served \union {m} /\ pc'[leader] = "partials"
      /\ served' \in SUBSET Members /\ served' # Members
      /\ pc' \in [Parties -> MemberStates \union LeaderStates] /\ pc'[leader] \in LeaderStates
  BY <1>1, <1>2, Serving DEF CollectPartial, LeaderStates
<1>4. Same
  BY <1>2, Untouched DEF S
<1>5. net[m][leader] = <<summed>> /\ pc[m] = "done"
  BY <1>3 DEF IInv, Up, CollectPartial, Has
<1>6. /\ Shaped(net') /\ net'[m][leader] = <<>>
      /\ \A q \in Members : net'[leader][q] = net[leader][q] /\ (q # m => net'[q][leader] = net[q][leader])
      /\ \A p, q \in Members : net'[p][q] = net[p][q]
      /\ \A p \in Parties : net'[p][p] = net[p][p]
  BY <1>1, <1>5, Taken DEF CollectPartial
<1>8. \A q \in Members : /\ pc[q] \in {"decrypt", "done", "crashed", "stuck"}
                         /\ q \in served => pc[q] = "done" /\ net[q][leader] = <<>>
  BY <1>3 DEF IInv, InStep, Up
<1>9. Types'
  BY <1>1, <1>2, <1>3, <1>4, <1>6 DEF Types, Same, Shaped, chosen
<1>10. \A q \in Members : InStep(q)'
  BY <1>2, <1>3, <1>4, <1>5, <1>8 DEF Same, IInv, InStep
<1>11. InOrder'
  BY <1>2, <1>3, <1>4, <1>6 DEF Same, IInv, InOrder, AfterRing, Early, Passed
<1>12. \A p, q \in Members : Across(p, q)'
  BY <1>2, <1>3, <1>4, <1>6 DEF Same, IInv, Across, Passed
<1>13. \A q \in Parties : net'[q][q] = <<>>
  BY <1>6 DEF IInv
<1>14. \A q \in Members : Down(q)'
  BY <1>2, <1>3, <1>4, <1>6 DEF Same, IInv, Down
<1>15. \A q \in Members : DownInStep(q)'
  BY <1>2, <1>3, <1>4 DEF Same, DownInStep
<1>16. \A q \in Members : Up(q)'
  <2> SUFFICES ASSUME NEW q \in Members
               PROVE  Up(q)'
    BY <1>4 DEF Same
  <2>1. /\ leader' = leader /\ summed' = summed /\ pc'[q] = pc[q] /\ Up(q)
        /\ pc'[leader] \in {"partials", "fuse"}
    BY <1>2, <1>3 DEF IInv
  <2>2. CASE q \in served \/ q = m
    <3>1. net'[q][leader] = <<>> /\ pc'[q] = "done"
      BY <1>5, <1>6, <1>8, <2>1, <2>2
    <3>2. pc'[leader] = "partials" => q \in served'
      BY <1>3, <2>2
    <3> QED
      BY <2>1, <3>1, <3>2 DEF Up
  <2>3. CASE q \notin served /\ q # m
    <3>1. net'[q][leader] = net[q][leader] /\ pc'[leader] = "partials" /\ q \notin served'
      BY <1>3, <1>6, <2>3
    <3> QED
      BY <1>3, <2>1, <2>3, <3>1 DEF Up
  <2> QED
    BY <2>2, <2>3
<1>17. Found'
  BY <1>2, <1>3, <1>4 DEF Same, IInv, Found, Types
<1> QED
  BY <1>4, <1>9, <1>10, <1>11, <1>12, <1>13, <1>14, <1>15, <1>16, <1>17 DEF IInv, Same

(* The leader fuses the decryptions and evaluates its elements.            *)
LEMMA FuseKeeps ==
  ASSUME IInv, Ks05Assumption, Fuse
  PROVE  IInv'
<1>1. /\ Types /\ leader \in Parties /\ \A q \in Members : q \in Parties /\ q # leader
  BY Bounded DEF IInv
<1>2. /\ pc[leader] = "fuse" /\ \A q \in Parties : pc'[q] = IF q = leader THEN "done" ELSE pc[q]
      /\ UNCHANGED <<chosen, net, agreed, product, served, summed>>
  BY <1>1 DEF Fuse, Goto, Types
<1>3. Same
  BY <1>2, Untouched DEF S, chosen
<1>4. \A q \in Members : pc[q] = "done" /\ pc'[q] = "done"
  BY <1>1, <1>2 DEF IInv, InStep
<1>5. Types'
  BY <1>1, <1>2, <1>3 DEF Fuse, Goto, Types, Same, MemberStates, LeaderStates, Shaped, chosen
<1>6. \A q \in Members : InStep(q)'
  BY <1>1, <1>2, <1>3, <1>4 DEF Same, IInv, InStep
<1>7. InOrder'
  BY <1>1, <1>2, <1>3, <1>4 DEF Same, IInv, InOrder, AfterRing, Early, Passed
<1>8. \A p, q \in Members : Across(p, q)'
  BY <1>1, <1>2, <1>3 DEF Same, IInv, Across, Passed
<1>9. \A q \in Parties : net'[q][q] = <<>>
  BY <1>2 DEF IInv
<1>10. \A q \in Members : Down(q)'
  BY <1>1, <1>2, <1>3, <1>4 DEF Same, IInv, Down
<1>11. \A q \in Members : DownInStep(q)'
  BY <1>1, <1>2, <1>3 DEF Same, DownInStep
<1>12. \A q \in Members : Up(q)'
  BY <1>1, <1>2, <1>3 DEF Same, IInv, Up
<1>13. Found'
  <2>1. result' = {e \in Elements : input[leader][e] >= 1 /\ e \in summed.zeros}
    BY DEF Fuse
  <2>2. \A e \in Elements : e \in summed.zeros <=> \A q \in Members : e \in Blinded(q).zeros
    BY <1>2 DEF IInv, Found
  <2>3. Members' = Members /\ leader' = leader /\ input' = input /\ \A q \in Members : Blinded(q)' = Blinded(q)
    BY <1>2, <1>3 DEF Same
  <2>4. summed' = summed
    BY <1>2
  <2> QED
    BY <1>1, <1>2, <2>1, <2>2, <2>3, <2>4 DEF Found
<1> QED
  BY <1>3, <1>5, <1>6, <1>7, <1>8, <1>9, <1>10, <1>11, <1>12, <1>13 DEF IInv, Same

-----------------------------------------------------------------------------
(* The initial states, and all the steps.                                  *)
LEMMA InitIInv ==
  ASSUME Init, Ks05Assumption
  PROVE  IInv
<1>1. leader \in Parties /\ \A q \in Members : q \in Parties /\ q # leader
  BY DEF Init, Ks05Assumption, Members
<1>2. /\ pc[leader] = "sizes" /\ \A m \in Members : pc[m] = "size"
      /\ \A p, q \in Parties : net[p][q] = <<>>
      /\ served = {} /\ summed.zeros = Elements
  BY <1>1 DEF Init
<1>3. Types
  <2>1. First \in Members
    BY <1>1, ChainPositions DEF Positions, Ks05Assumption
  <2>2. Shaped(net) /\ agreed \in [Parties -> Nat] /\ pc \in [Parties -> MemberStates \union LeaderStates]
    BY DEF Init, Shaped, MemberStates, LeaderStates
  <2>3. input \in [Parties -> [Elements -> Nat]] /\ threshold \in [Parties -> 2..N]
    BY DEF Init, Ks05Assumption
  <2>4. product \in [Parties -> Polynomials]
    BY DEF Init, Polynomials, ZeroRoots
  <2>5. DOMAIN summed = {"zeros", "degree"}
    BY DEF Init
  <2> QED
    BY <1>1, <1>2, <2>1, <2>2, <2>3, <2>4, <2>5 DEF Types, MemberStates, LeaderStates
<1>4. \A m \in Members : InStep(m)
  BY <1>2 DEF InStep
<1>5. InOrder
  BY <1>1, <1>2 DEF InOrder, AfterRing, Passed
<1>6. \A m, q \in Members : Across(m, q)
  BY <1>1, <1>2 DEF Across
<1>7. \A m \in Members : Down(m) /\ DownInStep(m) /\ Up(m)
  BY <1>1, <1>2 DEF Down, DownInStep, Up
<1>8. Found
  BY <1>2 DEF Found
<1> QED
  BY <1>2, <1>3, <1>4, <1>5, <1>6, <1>7, <1>8 DEF IInv

(* Any step, or none, keeps the invariant.                                 *)
LEMMA StepKeepsIInv ==
  ASSUME IInv, Ks05Assumption, [Next]_vars
  PROVE  IInv'
<1>1. leader \in Parties /\ \A q \in Members : q \in Parties
  BY DEF IInv, Types, Members
<1>2. CASE UNCHANGED vars
  <2>1. Types
    BY DEF IInv
  <2>2. Same
    BY <1>2, Untouched DEF vars, S, chosen
  <2>3. Types'
    BY <1>2, <2>1 DEF vars, chosen, Types, Members, Shaped
  <2>4. InOrder' /\ Found'
    BY <1>2, <2>2 DEF vars, Same, IInv, InOrder, AfterRing, Early, Passed, Found, Types
  <2>5. \A m \in Members : InStep(m)' /\ Down(m)'
    BY <1>2, <2>2 DEF vars, Same, IInv, InStep, Down
  <2>6. \A m \in Members : DownInStep(m)' /\ Up(m)'
    BY <1>2, <2>2 DEF vars, Same, IInv, DownInStep, Up, Alive, Early, Passed
  <2>7. \A m, q \in Members : Across(m, q)'
    BY <1>2, <2>2 DEF vars, Same, IInv, Across, Passed
  <2>8. \A p \in Parties : net'[p][p] = <<>>
    BY <1>2 DEF vars, IInv
  <2> QED
    BY <2>2, <2>3, <2>4, <2>5, <2>6, <2>7, <2>8 DEF IInv, Same
<1>3. CASE LeaderStep
  <2>1. CASE NegotiateSizes \/ StartRing \/ CollectProduct \/ Fuse
    BY <2>1, NegotiateSizesKeeps, StartRingKeeps, CollectProductKeeps, FuseKeeps
  <2>2. ASSUME NEW m \in Members, Broadcast(m) \/ CollectBlinded(m) \/ SendSum(m) \/ CollectPartial(m)
        PROVE  IInv'
    BY <2>2, BroadcastKeeps, CollectBlindedKeeps, SendSumKeeps, CollectPartialKeeps
  <2>3. CASE LeaderThrows
    BY <1>1, <2>3, Dying DEF LeaderThrows
  <2>4. CASE LeaderTerminates
    BY <1>1, <2>4, Dying DEF LeaderTerminates
  <2> QED
    BY <1>3, <2>1, <2>2, <2>3, <2>4 DEF LeaderStep
<1>4. ASSUME NEW m \in Members, MemberStep(m)
      PROVE  IInv'
  <2>1. CASE NullChannel(m)
    BY <1>1, <2>1, Dying DEF NullChannel, Goto
  <2>2. CASE Throw(m)
    BY <1>1, <2>2, Dying DEF Throw
  <2> QED
    BY <1>4, <2>1, <2>2, SendSizeKeeps, NegotiateKeeps, AggregateKeeps, ReceiveAndBlindKeeps,
       PartialDecryptKeeps DEF MemberStep
<1>5. ASSUME NEW p \in Parties, Crash(p)
      PROVE  IInv'
  BY <1>5, Dying DEF Crash
<1> QED
  BY <1>2, <1>3, <1>4, <1>5 DEF Next

(* Every reachable state of KS05 satisfies the invariant: every stream     *)
(* and every accumulated polynomial is what the places of the parties      *)
(* say.                                                                    *)
THEOREM Ks05Invariant == Spec => []IInv
<1>1. Init => IInv
  BY Ks05Assumption, InitIInv
<1>2. IInv /\ [Next]_vars => IInv'
  BY Ks05Assumption, StepKeepsIInv
<1> QED
  BY <1>1, <1>2, PTL DEF Spec

-----------------------------------------------------------------------------
(* What the invariant says of a leader that has finished.                  *)

(* t_mpsi.cpp picks the hops by party id: the leader finishes only when it *)
(* is the last of the sorted parties.                                      *)
THEOREM Ks05OnlyLastLeader == Spec => []OnlyLastLeaderFinishes
<1>1. IInv => OnlyLastLeaderFinishes
  BY DEF IInv, InOrder, AfterRing, OnlyLastLeaderFinishes
<1> QED
  BY <1>1, Ks05Invariant, PTL

(* When TMpsiLeader::run returns, every member has returned from its run() *)
(* and all that was written has been read.                                 *)
THEOREM Ks05NothingLeft == Spec => []NothingLeftOver
<1>1. ASSUME IInv, pc[leader] = "done"
      PROVE  (\A m \in Members : pc[m] = "done") /\ \A p, q \in Parties : net[p][q] = <<>>
  <2>1. \A m \in Members : pc[m] = "done"
    BY <1>1 DEF IInv, InStep
  <2>2. \A m \in Members : net[leader][m] = <<>> /\ net[m][leader] = <<>>
    BY <1>1, <2>1 DEF IInv, Down, Up
  <2>3. \A m, q \in Members : net[m][q] = <<>>
    BY <1>1, <2>1 DEF IInv, Across, Passed
  <2>4. \A p \in Parties : net[p][p] = <<>>
    BY <1>1 DEF IInv
  <2> QED
    BY <2>1, <2>2, <2>3, <2>4 DEF Members
<1>2. IInv => NothingLeftOver
  BY <1>1 DEF NothingLeftOver
<1> QED
  BY <1>2, Ks05Invariant, PTL

(* Every copy in a request adds to the multiplicity of a root, so that the *)
(* leader finds what was submitted often enough for all thresholds, and    *)
(* nothing that was not often enough for any.                              *)
THEOREM Ks05ResultBetweenThresholds == Spec => []ResultBetweenThresholds
<1>1. ASSUME IInv, Ks05Assumption, pc[leader] = "done", NEW e \in Elements
      PROVE  /\ e \in result => /\ leader \in Holders(e)
                                /\ Copies(e) >= Min(AgreeingThresholds)
             /\ leader \in Holders(e) /\ Copies(e) >= Max(AgreeingThresholds) => e \in result
  <2>1. /\ Types /\ leader \in Parties /\ \A m \in Members : m \in Parties
        /\ N \in Nat /\ (\A p \in Parties : p # leader => p \in Members)
    BY <1>1, Bounded DEF IInv
  <2>2. IsFiniteSet(Parties) /\ Cardinality(Parties) = N
    BY <2>1, FS_Interval DEF Parties
  <2>3. /\ AgreeingThresholds \in SUBSET Nat /\ IsFiniteSet(AgreeingThresholds) /\ AgreeingThresholds # {}
        /\ \A m \in Members : threshold[m] \in Nat /\ threshold[m] <= N /\ threshold[m] \in AgreeingThresholds
    <3>1. \A m \in Members : threshold[m] \in Nat /\ threshold[m] <= N
      BY <2>1 DEF Types
    <3>2. IsFiniteSet(Members)
      BY <2>2, FS_Subset DEF Members
    <3>3. IsFiniteSet(AgreeingThresholds)
      BY <3>2, ValuesAreFinite DEF AgreeingThresholds
    <3>4. First \in Members
      BY <1>1, <2>1, Neighbours
    <3> QED
      BY <3>1, <3>3, <3>4 DEF AgreeingThresholds
  <2>4. \A m \in Members : Min(AgreeingThresholds) <= threshold[m] /\ threshold[m] <= Max(AgreeingThresholds)
    BY <2>3, Extremes
  <2>5. Min(AgreeingThresholds) \in Nat /\ Max(AgreeingThresholds) \in Nat
    BY <2>3, Extremes
  <2>6. /\ \A p \in Parties : CopiesOf(e)[p] = input[p][e] /\ CopiesOf(e)[p] \in Nat
        /\ Copies(e) = SumFunctionOnSet(CopiesOf(e), Parties)
    <3>1. \A p \in Parties : CopiesOf(e)[p] = input[p][e] /\ input[p][e] \in Nat
      BY <2>1 DEF Types, CopiesOf
    <3>2. DOMAIN [p \in Parties |-> input[p][e]] = Parties
      OBVIOUS
    <3>3. Copies(e) = SumFunctionOnSet(CopiesOf(e), Parties)
      BY <3>2 DEF Copies, CopiesOf, FoldFunction, SumFunctionOnSet, FoldFunctionOnSet, MapThenFoldSet
    <3> QED
      BY <3>1, <3>3
  <2>7. /\ Copies(e) \in Nat
        /\ \A p \in Parties : input[p][e] \in Nat /\ input[p][e] <= Copies(e)
        /\ (\A p \in Parties : input[p][e] >= 1) => N <= Copies(e)
    BY <2>2, <2>6, SumFacts, SumBounds
  <2>8. product[leader].roots[e] = Copies(e)
    <3>1. product[leader] = Poly(Parties)
      BY <1>1 DEF IInv, InOrder, AfterRing, Whole
    <3> QED
      BY <2>6, <3>1 DEF Poly
  <2>9. \A m \in Members : e \in Blinded(m).zeros <=>
                            Copies(e) >= 1 /\ (Copies(e) >= threshold[m] \/ input[m][e] >= 1)
    BY <2>8 DEF Blinded, Blind
  <2>10. e \in result <=> /\ input[leader][e] >= 1
                          /\ \A m \in Members : e \in Blinded(m).zeros
    BY <1>1 DEF IInv, Found
  <2>11. leader \in Holders(e) <=> input[leader][e] >= 1
    BY <2>1 DEF Holders
  <2>12. ASSUME e \in result PROVE Copies(e) >= Min(AgreeingThresholds)
    <3>1. CASE \E m \in Members : Copies(e) >= threshold[m]
      BY <2>3, <2>4, <2>5, <2>7, <3>1
    <3>2. CASE \A m \in Members : ~ Copies(e) >= threshold[m]
      <4>1. \A p \in Parties : input[p][e] >= 1
        BY <2>1, <2>9, <2>10, <2>12, <3>2
      <4>2. First \in Members
        BY <1>1, <2>1, Neighbours
      <4> QED
        BY <2>1, <2>3, <2>7, <3>2, <4>1, <4>2
    <3> QED
      BY <3>1, <3>2
  <2>13. ASSUME leader \in Holders(e), Copies(e) >= Max(AgreeingThresholds)
         PROVE  e \in result
    <3>1. Copies(e) >= 1
      BY <2>1, <2>7, <2>11, <2>13
    <3>2. \A m \in Members : Copies(e) >= threshold[m]
      BY <2>3, <2>4, <2>5, <2>7, <2>13
    <3> QED
      BY <2>9, <2>10, <2>11, <2>13, <3>1, <3>2
  <2> QED
    BY <2>10, <2>11, <2>12, <2>13
<1>2. IInv => ResultBetweenThresholds
  BY <1>1, Ks05Assumption DEF ResultBetweenThresholds
<1> QED
  BY <1>2, Ks05Invariant, PTL

(* The sizes that a member computes for encryptedZeros cover what it       *)
(* rerandomises, for any number of parties, sizes and thresholds.          *)
THEOREM Ks05ZerosSuffice == Spec => []ZerosSuffice
<1>1. ASSUME IInv, Ks05Assumption, NEW m \in Members
      PROVE  /\ pc[m] = "aggregate" /\ Prev(m) # None /\ Has(Prev(m), m) =>
                    Count(Times(Frame(Prev(m), m), Encode(m, agreed[m]))) <= CoeffsAfterAggregation(m)
             /\ pc[m] = "blind" /\ Has(leader, m) =>
                    CoeffsAfterAggregation(m) + Count(Blind(m, Frame(leader, m))) <= TotalZeros(m)
  <2>1. /\ Types /\ leader \in Parties /\ N \in Nat /\ N >= 2
        /\ \A q \in Members : q \in Parties /\ q # leader /\ q \in Nat /\ q <= N - 1
    BY <1>1, Bounded DEF IInv
  <2>2. S \in Nat /\ IsFiniteSet(Parties) /\ Cardinality(Parties) = N /\ threshold[m] \in Nat
        /\ threshold[m] >= 2 /\ threshold[m] <= N
    <3>1. IsFiniteSet(Parties) /\ Cardinality(Parties) = N
      BY <2>1, FS_Interval DEF Parties
    <3>2. S \in Nat /\ threshold[m] \in 2..N
      BY <2>1 DEF S, Types
    <3> QED
      BY <2>1, <3>1, <3>2
  <2>3. ASSUME pc[m] = "aggregate", Prev(m) # None, Has(Prev(m), m)
        PROVE  Count(Times(Frame(Prev(m), m), Encode(m, agreed[m]))) <= CoeffsAfterAggregation(m)
    <3> DEFINE own == Upstream(m) \union {m}
    <3>1. Frame(Prev(m), m) = Arriving(m) /\ agreed[m] = S
      BY <1>1, <2>3, Offered DEF IInv, InStep
    <3>2. Times(Arriving(m), Encode(m, S)) = Poly(own)
      BY <1>1, <2>1, Neighbours, PolynomialsGrow DEF Arriving
    <3>3. Cardinality(own) \in Nat /\ Cardinality(own) <= m + 2
      <4>1. IsFiniteSet(0..m) /\ Cardinality(0..m) = m + 1
        BY <2>1, FS_Interval
      <4>2. own \in SUBSET ((0..m) \union {leader})
        BY <2>1 DEF Upstream
      <4> DEFINE all == (0..m) \union {leader}
      <4>3. IsFiniteSet(all) /\ (Cardinality(all) = m + 1 \/ Cardinality(all) = (m + 1) + 1)
        BY <2>1, <4>1, FS_AddElement
      <4> HIDE DEF all, own
      <4>4. IsFiniteSet(own) /\ Cardinality(own) <= Cardinality(all)
        BY <4>2, <4>3, FS_Subset DEF all
      <4>5. Cardinality(own) \in Nat /\ Cardinality(all) \in Nat
        BY <4>3, <4>4, FS_CardinalityType
      <4> QED
        BY <2>1, <4>3, <4>4, <4>5
    <3> HIDE DEF own
    <3>4. Cardinality(own) * S <= (m + 2) * S
      BY <2>1, <2>2, <3>3
    <3>5. (m + 2) * S + 1 = S + (m + 1) * S + 1
      BY <2>1, <2>2
    <3>6. Count(Poly(own)) = Cardinality(own) * S + 1
      BY DEF Count, Poly
    <3>7. Cardinality(own) * S \in Nat /\ (m + 2) * S \in Nat
      BY <2>1, <2>2, <3>3
    <3> QED
      BY <3>1, <3>2, <3>4, <3>5, <3>6, <3>7 DEF CoeffsAfterAggregation
  <2>4. ASSUME pc[m] = "blind", Has(leader, m)
        PROVE  CoeffsAfterAggregation(m) + Count(Blind(m, Frame(leader, m))) <= TotalZeros(m)
    <3> DEFINE W == N * S
               D == W - (threshold[m] - 1)
               cover == IF D >= S THEN D - S ELSE 0
    <3>1. net[leader][m] = <<Whole>> /\ agreed[m] = S
      BY <1>1, <2>4 DEF IInv, Down, Has, InStep
    <3>2. Frame(leader, m) = Whole /\ Whole.degree = W
      BY <2>2, <3>1, ShortStreams DEF Frame, Whole, Poly
    <3>3. W \in Nat /\ W >= 2 * S
      BY <2>1, <2>2
    <3>4. S + (N - 1) * S = W
      BY <2>1, <2>2
    <3> HIDE DEF W
    <3>5. Larger(2 * W, 2 * D + cover + S) <= Larger(W * 2, D * 3)
      BY <2>2, <3>3 DEF Larger
    <3>6. Count(Blind(m, Frame(leader, m))) = Larger(2 * W, 2 * D + cover + S) + 1
      BY <3>1, <3>2 DEF Blind, Count
    <3>7. CoeffsAfterBlinding(m) = Larger(W * 2, D * 3) + 1
      BY <3>1, <3>4 DEF CoeffsAfterBlinding
    <3>8. /\ Larger(2 * W, 2 * D + cover + S) \in Int /\ Larger(W * 2, D * 3) \in Int
      BY <2>2, <3>3 DEF Larger
    <3>9. CoeffsAfterAggregation(m) \in Int
      BY <2>1, <2>2, <3>1 DEF CoeffsAfterAggregation
    <3> QED
      BY <3>5, <3>6, <3>7, <3>8, <3>9 DEF TotalZeros
  <2> QED
    BY <2>3, <2>4
<1>2. IInv => ZerosSuffice
  BY <1>1, Ks05Assumption DEF ZerosSuffice
<1> QED
  BY <1>2, Ks05Invariant, PTL

-----------------------------------------------------------------------------
(* The ring, coefficient by coefficient, for any number of stations, any   *)
(* sizes and any window.                                                   *)

(* The ring: the station after i is i + 1, after the last one comes 0.     *)
LEMMA RingNeighbours ==
  ASSUME RingAssumption
  PROVE
    /\ \A i \in Stations : Following(i) \in Stations /\ Before(i) \in Stations
    /\ \A i \in Stations : i + 1 \in Stations => Following(i) = i + 1
    /\ Following(NumParties - 1) = 0
    /\ \A i, j \in Stations : Following(i) = j <=> Before(j) = i
<1>1. \A i \in Stations : Following(i) = IF i = NumParties - 1 THEN 0 ELSE i + 1
  BY RingAssumption DEF Following, Stations
<1>2. \A i \in Stations : Before(i) = IF i = 0 THEN NumParties - 1 ELSE i - 1
  BY RingAssumption DEF Before, Stations
<1> QED
  BY <1>1, <1>2, RingAssumption DEF Stations

(* A station never owes more than its polynomial, nor less than what it    *)
(* has read.                                                               *)
LEMMA DueBounds ==
  ASSUME RingAssumption, NEW i \in MemberStations, NEW r \in Nat, size \in Nat \ {0}, r <= Messages(i - 1)
  PROVE  Due(i, r) \in Nat /\ r <= Due(i, r) /\ Due(i, r) <= Messages(i)
<1> DEFINE before == i * size
<1>1. before \in Nat /\ (i + 1) * size = before + size /\ (i - 1 + 1) * size = before
  BY DEF MemberStations
<1>2. Coefficients(i) = before + size + 1 /\ Coefficients(i - 1) = before + 1
  BY <1>1 DEF Coefficients
<1>3. Messages(i) = before + size + 2 /\ Messages(i - 1) = before + 2
  BY <1>1, <1>2 DEF Messages
<1> HIDE DEF before
<1> QED
  BY <1>1, <1>2, <1>3 DEF Due

(* The leader sends the count and the coefficients of its polynomial.      *)
LEMMA MessagesAreNumbers ==
  ASSUME RingAssumption, NEW i \in Stations, size \in Nat
  PROVE  Messages(i) \in Nat /\ Messages(0) = size + 2
BY DEF Messages, Coefficients, Stations

-----------------------------------------------------------------------------
(* A member has sent on all it has read but the last message.              *)
PassedOn == \A i \in MemberStations : read[i] <= wrote[i] + 1

(* No stream holds more than its window, and no station sends more than    *)
(* its polynomial or reads what was not sent.                              *)
THEOREM RingTypeCorrect ==
  ASSUME RingAssumption
  PROVE  RingSpec => [](RingTypeOK /\ PassedOn)
<1>1. RingInit => RingTypeOK /\ PassedOn
  <2> SUFFICES ASSUME RingInit PROVE RingTypeOK /\ PassedOn
    OBVIOUS
  <2>1. size \in Nat /\ \A i \in Stations : Messages(i) \in Nat
    BY MessagesAreNumbers, RingAssumption DEF RingInit
  <2> QED
    BY <2>1, RingNeighbours, RingAssumption DEF RingInit, RingTypeOK, PassedOn, MemberStations, Stations
<1>2. RingTypeOK /\ PassedOn /\ [RingNext]_ringVars => RingTypeOK' /\ PassedOn'
  <2> SUFFICES ASSUME RingTypeOK, PassedOn, [RingNext]_ringVars PROVE RingTypeOK' /\ PassedOn'
    OBVIOUS
  <2>1. size \in Nat \ {0} /\ \A i \in Stations : Messages(i) \in Nat
    BY MessagesAreNumbers, RingAssumption DEF RingTypeOK
  <2>2. \A i \in MemberStations : i \in Stations /\ i # 0 /\ Before(i) = i - 1 /\ Following(i - 1) = i
                          /\ i - 1 \in Stations
    BY RingAssumption DEF MemberStations, Stations, Before, Following
  <2>3. \A i \in MemberStations : /\ Due(i, read[i]) \in Nat
                                  /\ read[i] <= Due(i, read[i])
                                  /\ Due(i, read[i]) <= Messages(i)
    <3> SUFFICES ASSUME NEW i \in MemberStations
                 PROVE  /\ Due(i, read[i]) \in Nat
                        /\ read[i] <= Due(i, read[i])
                        /\ Due(i, read[i]) <= Messages(i)
      OBVIOUS
    <3>1. read[i] \in Nat /\ read[i] <= Messages(i - 1)
      BY <2>1, <2>2 DEF RingTypeOK
    <3> QED
      BY <2>1, <3>1, DueBounds
  <2>4. ASSUME NEW i \in Stations, Write(i) PROVE RingTypeOK' /\ PassedOn'
    <3>1. size' = size /\ read' = read /\ Messages(i)' = Messages(i)
      BY <2>4 DEF Write, Messages, Coefficients
    <3>2. wrote[i] + 1 <= Messages(i)
      <4>1. wrote[i] \in Nat /\ wrote[i] < ToWrite(i) /\ Messages(i) \in Nat
        BY <2>1, <2>4 DEF Write, RingTypeOK
      <4>2. ToWrite(i) \in Nat /\ ToWrite(i) <= Messages(i)
        <5>1. i = 0 \/ i \in MemberStations
          BY DEF MemberStations, Stations
        <5> QED
          BY <2>1, <2>3, <5>1, <4>1 DEF ToWrite
      <4> QED
        BY <4>1, <4>2
    <3>3. \A j \in Stations : Messages(j)' = Messages(j)
      BY <3>1 DEF Messages, Coefficients
    <3>4. wrote' = [wrote EXCEPT ![i] = wrote[i] + 1] /\ wrote[i] + 1 <= read[Following(i)] + Window
      BY <2>4, RingNeighbours, RingAssumption DEF Write, Room, RingTypeOK
    <3>5. RingTypeOK'
      BY <3>1, <3>2, <3>3, <3>4, RingNeighbours, RingAssumption DEF RingTypeOK
    <3> QED
      BY <2>2, <3>1, <3>4, <3>5 DEF PassedOn, RingTypeOK
  <2>5. ASSUME NEW i \in Stations, Read(i) PROVE RingTypeOK' /\ PassedOn'
    <3>1. size' = size /\ wrote' = wrote /\ read' = [read EXCEPT ![i] = read[i] + 1]
      BY <2>5 DEF Read
    <3>2. \A j \in Stations : Messages(j)' = Messages(j)
      BY <3>1 DEF Messages, Coefficients
    <3>3. \A j \in Stations : Following(j) = i => j = Before(i)
      BY RingNeighbours
    <3>4. read[i] < wrote[Before(i)]
      BY <2>5 DEF Read
    <3>5. RingTypeOK'
      BY <3>1, <3>2, <3>3, <3>4, RingNeighbours, RingAssumption DEF RingTypeOK
    <3>6. i \in MemberStations => read[i] <= wrote[i]
      BY <2>2, <2>3, <2>5 DEF Read, ToWrite
    <3> QED
      BY <2>2, <3>1, <3>5, <3>6 DEF PassedOn, RingTypeOK
  <2>6. CASE UNCHANGED ringVars
    BY <2>6 DEF ringVars, RingTypeOK, PassedOn, Messages, Coefficients
  <2> QED
    BY <2>4, <2>5, <2>6 DEF RingNext
<1> QED
  BY <1>1, <1>2, PTL DEF RingSpec

-----------------------------------------------------------------------------
(* Each stream is at most a window behind, each member at most a message:  *)
(* so the leader is ahead of its own reading by what the ring holds.       *)
LEMMA RingHolds ==
  ASSUME RingAssumption, RingTypeOK, PassedOn
  PROVE  wrote[0] <= read[0] + Capacity
<1> DEFINE Ahead(i) == wrote[0] <= wrote[i] + i * (Window + 1)
           T == {i \in Stations : ~ Ahead(i)}
<1>1. T = {}
  <2> SUFFICES ASSUME T # {} PROVE FALSE
    OBVIOUS
  <2>1. PICK i \in T : \A j \in T : ~ j < i
    <3>1. T \in SUBSET Nat
      BY DEF Stations
    <3> HIDE DEF T
    <3> QED
      BY <3>1, LeastOf
  <2>2. i \in Nat /\ i \in Stations /\ i # 0
    BY <2>1, RingAssumption DEF RingTypeOK, Stations
  <2>3. i - 1 \in Stations /\ Following(i - 1) = i /\ i \in MemberStations
    BY <2>2, RingNeighbours, RingAssumption DEF Stations, MemberStations
  <2>4. Ahead(i - 1)
    BY <2>1, <2>2, <2>3
  <2>5. wrote[i - 1] <= wrote[i] + (Window + 1)
    BY <2>2, <2>3, RingAssumption DEF RingTypeOK, PassedOn
  <2>6. i * (Window + 1) = (i - 1) * (Window + 1) + (Window + 1)
    BY <2>2, RingAssumption
  <2>7. (i - 1) * (Window + 1) \in Nat
    BY <2>2, RingAssumption
  <2>8. Ahead(i)
    <3> DEFINE w == (i - 1) * (Window + 1)
    <3>1. w \in Nat /\ i * (Window + 1) = w + (Window + 1) /\ wrote[0] <= wrote[i - 1] + w
      BY <2>4, <2>6, <2>7
    <3> HIDE DEF w
    <3>2. wrote[0] \in Nat /\ wrote[i] \in Nat /\ wrote[i - 1] \in Nat /\ Window \in Nat
      BY <2>2, <2>3, RingAssumption DEF RingTypeOK, Stations
    <3> QED
      BY <2>5, <3>1, <3>2
  <2> QED
    BY <2>8
<1>2. NumParties - 1 \in Stations /\ 0 \in Stations /\ Following(NumParties - 1) = 0
  BY RingNeighbours, RingAssumption DEF Stations
<1>3. Ahead(NumParties - 1)
  BY <1>1, <1>2
<1>4. wrote[NumParties - 1] <= read[0] + Window
  BY <1>2 DEF RingTypeOK
<1>5. (NumParties - 1) * (Window + 1) + Window = Capacity /\ (NumParties - 1) * (Window + 1) \in Nat
  BY RingAssumption DEF Capacity
<1> DEFINE w == (NumParties - 1) * (Window + 1)
<1>6. w \in Nat /\ w + Window = Capacity /\ wrote[0] <= wrote[NumParties - 1] + w
  BY <1>3, <1>5
<1> HIDE DEF w, Ahead, T
<1>7. wrote[0] \in Nat /\ wrote[NumParties - 1] \in Nat /\ read[0] \in Nat /\ Window \in Nat
  BY <1>2, RingAssumption DEF RingTypeOK
<1> QED
  BY <1>4, <1>6, <1>7

(* A leader whose polynomial is too long for the ring never reads: every   *)
(* station then waits to write.                                            *)
THEOREM TooLongStopsTheRing ==
  ASSUME RingAssumption
  PROVE  RingSpec => []ReadsOnlyWhatFits
<1>1. RingInit => ReadsOnlyWhatFits
  BY RingAssumption DEF RingInit, ReadsOnlyWhatFits, Stations
<1>2. RingTypeOK /\ PassedOn /\ ReadsOnlyWhatFits /\ [RingNext]_ringVars => ReadsOnlyWhatFits'
  <2> SUFFICES ASSUME RingTypeOK, PassedOn, ReadsOnlyWhatFits, [RingNext]_ringVars PROVE ReadsOnlyWhatFits'
    OBVIOUS
  <2>1. size \in Nat /\ 0 \in Stations /\ Messages(0) = size + 2
    BY MessagesAreNumbers, RingAssumption DEF RingTypeOK, Stations
  <2>2. size' = size /\ (FitsTheRing' <=> FitsTheRing)
    BY DEF RingNext, Write, Read, ringVars, FitsTheRing, Capacity
  <2>3. ASSUME NEW i \in Stations, Write(i) PROVE ReadsOnlyWhatFits'
    BY <2>2, <2>3 DEF Write, ReadsOnlyWhatFits
  <2>4. ASSUME NEW i \in Stations, Read(i), i # 0 PROVE ReadsOnlyWhatFits'
    BY <2>1, <2>2, <2>4 DEF Read, ReadsOnlyWhatFits, RingTypeOK
  <2>5. ASSUME Read(0) PROVE ReadsOnlyWhatFits'
    <3>1. wrote[0] = size + 2
      BY <2>1, <2>5 DEF Read, ToWrite
    <3>2. CASE read[0] = 0
      BY <2>1, <2>2, <3>1, <3>2, RingHolds, RingAssumption DEF FitsTheRing, Capacity, ReadsOnlyWhatFits
    <3>3. CASE read[0] # 0
      BY <2>1, <2>2, <3>3 DEF ReadsOnlyWhatFits, RingTypeOK
    <3> QED
      BY <3>2, <3>3
  <2> QED
    BY <2>2, <2>3, <2>4, <2>5 DEF RingNext, ringVars, ReadsOnlyWhatFits
<1> QED
  BY <1>1, <1>2, RingTypeCorrect, PTL DEF RingSpec
=============================================================================
