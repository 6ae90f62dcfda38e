-------------------------- MODULE SecureComparison --------------------------
(***************************************************************************)
(* The secure comparison of BEH21 (protocols/beh21/protocol/ot_mpsi.cpp),  *)
(* on plaintexts.  A triple is the blinded difference c and the bits       *)
(* a_1 and a_2 = 1 - a_1, of which the sign of c is to select the answer:  *)
(* the leader starts with c = r d - r' and a_1 = 1, every member blinds c  *)
(* again, or flips its sign and swaps the bits.                            *)
(***************************************************************************)
EXTENDS Integers

CONSTANT RandomBound       \* randomBound, 128 in the code

ASSUME BoundAssumption == RandomBound \in Nat /\ RandomBound >= 2

(* RandomBnd(randomBound - 1) + 1, and RandomBnd(r - 1) + 1, which is 1    *)
(* when r is: RandomBnd(0) is 0.                                           *)
Factors == 1..(RandomBound - 1)
Offsets(r) == IF r = 1 THEN {1} ELSE 1..(r - 1)

Triples == [c : Int, a : 0..1]

Start(d, r, s) == [c |-> r * d - s, a |-> 1]

(* Mutant: the offset is subtracted whatever the sign.                     *)
PassUnsigned(tr, r, s, swap) ==
    IF swap THEN [c |-> -(r * tr.c) - s, a |-> 1 - tr.a]
            ELSE [c |-> r * tr.c - s, a |-> tr.a]

Pass(tr, r, s, swap) ==
    IF swap THEN [c |-> -(r * tr.c) - s, a |-> 1 - tr.a]
            ELSE [c |-> r * tr.c + s, a |-> tr.a]

(* signedNonPositive, and the selection of a_1 or a_2.                     *)
Select(tr) == IF tr.c <= 0 THEN tr.a ELSE 1 - tr.a
=============================================================================
