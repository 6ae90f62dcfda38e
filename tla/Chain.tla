------------------------------- MODULE Chain -------------------------------
(***************************************************************************)
(* The chain of a computation with the KS05 or the BEH21 protocol: the     *)
(* members in increasing order of their party ids, the streams a plugin    *)
(* hands to its protocol, and the two that the protocol picks as the       *)
(* previous and the next hop of the ring (t_mpsi.cpp and ot_mpsi.cpp make  *)
(* the same choice).                                                       *)
(***************************************************************************)
EXTENDS Integers, FiniteSets

CONSTANT N                 \* config_.num_parties

VARIABLE leader            \* leader_id, the same in every request

Parties == 0..(N - 1)

Members == Parties \ {leader}

(* member_ids: the members in increasing order; position 0 is the first.   *)
Position(m) == Cardinality({q \in Members : q < m})
First == CHOOSE m \in Members : Position(m) = 0
Last == CHOOSE m \in Members : Position(m) = N - 2

None == -1

(* channels[0..2] of runMember: leader, previous and next member.          *)
ChannelTo(m, i) ==
    LET at(k) == {q \in Members : Position(q) = k}
        peer(S) == IF S = {} THEN None ELSE CHOOSE q \in S : TRUE
    IN  CASE i = 0 -> leader
          [] i = 1 -> peer(at(Position(m) - 1))
          [] i = 2 -> peer(at(Position(m) + 1))

(* Mutant: the second member listens to the leader, like the first.        *)
PrevOffByOne(m) == ChannelTo(m, IF m <= 1 THEN 0 ELSE 1)

(* The hops are picked by party id, not by position.                       *)
Prev(m) == ChannelTo(m, IF m = 0 THEN 0 ELSE 1)

NextHop(m) == ChannelTo(m, IF m = N - 2 THEN 0 ELSE 2)
=============================================================================
