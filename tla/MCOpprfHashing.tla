--------------------------- MODULE MCOpprfHashing ---------------------------
EXTENDS OpprfHashing, TLC

(* Six elements per party: nine bins and a stash of one.  The member has   *)
(* five elements of the leader's and one of its own; or the leader repeats *)
(* one; or the member does; or both have five, too few for a stash.        *)
MCElements == 1..7

MCInputs == {[leader |-> <<1, 2, 3, 4, 5, 6>>, member |-> <<7, 6, 5, 4, 3, 2>>],
             [leader |-> <<1, 1, 2, 3, 4, 5>>, member |-> <<6, 5, 4, 3, 2, 7>>],
             [leader |-> <<1, 2, 3, 4, 5, 6>>, member |-> <<1, 2, 2, 3, 4, 5>>],
             [leader |-> <<1, 2, 3, 4, 5>>, member |-> <<1, 2, 3, 4, 5>>]}

(* Elements crowd into a few of the bins, in every way: four triples for   *)
(* the first four elements, one hash of them taking three values.          *)
Triple(a, b, c) == 0 :> a @@ 1 :> b @@ 2 :> c
Triples == {Triple(0, 1, 2), Triple(1, 3, 10), Triple(2, 3, 4), Triple(5, 5, 0)}
Other == 5 :> Triple(2, 6, 6) @@ 6 :> Triple(0, 7, 3) @@ 7 :> Triple(8, 1, 2)
MCHashes == {f @@ Other : f \in [1..4 -> Triples]}

(* Seven bits, any two codewords differing in four of them.                *)
MCBits == 1..7
MCCodeword == <<{1, 3, 5, 7}, {2, 3, 6, 7}, {1, 2, 5, 6}, {4, 5, 6, 7},
                {1, 3, 4, 6}, {2, 3, 4, 5}, {1, 2, 4, 7}>>
=============================================================================
