--------------------------- MODULE MCKs05Protocol ---------------------------
EXTENDS Ks05Protocol, TLC

CONSTANTS a, b

(* Every party submits a non-empty set...                                  *)
Sets == [0..(N - 1) -> [{a, b} -> 0..1] \ {[e \in {a, b} |-> 0]}]

(* ... or all submit k copies of every element, which is too much for the  *)
(* blinded product, for the product, or for the leader's own polynomial.   *)
Large == {[p \in 0..(N - 1) |-> [e \in {a, b} |-> k]] : k \in {2, 3, 9}}

(* ... or one element, submitted once or twice, or by a party not at all   *)
(* while it submits the other.                                             *)
Lists == [0..(N - 1) -> {a :> 1 @@ b :> 0, a :> 2 @@ b :> 0, a :> 0 @@ b :> 1}]

Submissions == Sets \union Large \union Lists

(* Everybody submits the same set.                                         *)
Same == {[p \in 0..(N - 1) |-> a :> 1 @@ b :> 1]}

AnyThreshold == 2..N
AnyParty == 0..(N - 1)
LastParty == {N - 1}
ElementSet == {a, b}
=============================================================================
