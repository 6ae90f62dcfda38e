-------------------------- MODULE MCBeh21Protocol --------------------------
EXTENDS Beh21Protocol, TLC

CONSTANTS a, b

ElementSet == {a, b}

(* Party 2, when it leads, submits one element that the members have,      *)
(* both or none, in lists of other sizes; or two that everybody has, which *)
(* makes more triples than the ring holds; or nothing.                     *)
Inputs == {0 :> <<b, a>> @@ 1 :> <<a>> @@ 2 :> <<a>>,
           0 :> <<b>> @@ 1 :> <<b>> @@ 2 :> <<a>>,
           [p \in 0..2 |-> <<a, b>>],
           0 :> <<a>> @@ 1 :> <<b>> @@ 2 :> <<>>}

AnyParty == 0..(N - 1)
LastParty == {N - 1}
=============================================================================
