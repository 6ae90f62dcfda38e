------------------------- MODULE MCKeyDistribution -------------------------
(* Parties 0 and 1 and one dealer for the two of them.  Party 1 was first  *)
(* started with the certificate of party 0; its second start is right.     *)
EXTENDS KeyDistribution, TLC

CONSTANTS a, b

Two == {a, b}
Ids == a :> 0 @@ b :> 1
Counts == [p \in Two |-> 2]
Certificates == a :> <<0, 0>> @@ b :> <<0, 1>>
RightCertificates == [p \in Two |-> [i \in 1..MaxStarts |-> Ids[p]]]
=============================================================================
