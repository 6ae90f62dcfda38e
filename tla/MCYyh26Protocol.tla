-------------------------- MODULE MCYyh26Protocol --------------------------
EXTENDS Yyh26Protocol, TLC

(* x, an element with the same first 16 bytes, and another one.            *)
MCBlock == [e \in {"x", "x16", "y"} |-> IF e = "y" THEN 12 ELSE 9]

(* What a member may have in the bin of x: x in either slot, or not.       *)
Contents == {<<>>, <<"x", "y">>, <<"y", "x">>, <<"x16">>}
MCSlots == [0..2 -> Contents]

(* Numbers that differ in every index, from a seed.                        *)
Tape(k) == [a |-> [i \in 1..3 |-> k + 2 * i],
            g |-> [v \in 0..2 |-> [i \in 1..3 |-> 3 * k + 5 * v + i]],
            r |-> [v \in 0..2 |-> [u \in 0..2 |-> [s \in 1..2 |-> k + v + 2 * u + 3 * s]]],
            d |-> [v \in 0..2 |-> [u \in 0..2 |-> [s \in 1..2 |-> k * s + 4 * v + 7 * u]]]]
MCTapes == {Tape(k) : k \in {1, 6}}

(* Small sets of different sizes, which are padded, and, above the padding, *)
(* sets of one size and a member whose set is larger.                      *)
MCSizes == {[p \in 0..3 |-> 1 + (p % 2)], [p \in 0..3 |-> 3],
            [p \in 0..3 |-> IF p = 1 THEN 4 ELSE 3]}

MCPrimes == <<5, 7>>
MCLeaders == {1, 3}
=============================================================================
