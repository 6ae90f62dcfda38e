-------------------------- MODULE MCXzh26Protocol --------------------------
EXTENDS Xzh26Protocol, TLC

MCOrder == <<1, 2>>

(* The leader, party 0, has six elements; a member has as many, one more   *)
(* or one less; or it has five, as the members.  One run with seven each.  *)
Six == 1..6
Submitted == {0 :> Six @@ 1 :> Six @@ 2 :> 2..7,
              0 :> Six @@ 1 :> 1..7 @@ 2 :> Six,
              0 :> Six @@ 1 :> Six @@ 2 :> 1..7,
              0 :> Six @@ 1 :> 1..5 @@ 2 :> Six,
              0 :> 1..7 @@ 1 :> 1..7 @@ 2 :> Six,
              0 :> 1..5 @@ 1 :> 1..5 @@ 2 :> 1..5,
              0 :> 1..7 @@ 1 :> 3..9 @@ 2 :> 2..8}

(* Less than the 15 bits per element of the code, and growing as they do.  *)
BitsPerElement(n) == n
=============================================================================
