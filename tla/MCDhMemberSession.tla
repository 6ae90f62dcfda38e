------------------------- MODULE MCDhMemberSession -------------------------
(* The member, party 0, of a two-party computation whose leader, party 1,  *)
(* opens two streams, the first of which may break; party 2, which has a   *)
(* certificate of its own, opens one claiming to be the leader, or ends it *)
(* without a word, as the stream that breaks may.                          *)
EXTENDS DhPsi, TLC

CONSTANTS c1, c2, c3, x, y

MCParties == 0..2
MCPeers == {1}
MCConns == {c1, c2, c3}
MCClaim == c1 :> 1 @@ c2 :> 1 @@ c3 :> 1
MCSilent == {c1, c3}
MCCert  == c1 :> 1 @@ c2 :> NoCert @@ c3 :> 2

(* Elements that are repeated on one side or on both, or not common; one   *)
(* request of either side is an element too long.                          *)
MCElements == {x, y}

MCRequests == {[leader |-> <<y, x, y>>, member |-> <<x, y, x>>],
               [leader |-> <<x, x, y>>, member |-> <<x, x>>],
               [leader |-> <<x, y>>, member |-> <<x, x, y, x>>],
               [leader |-> <<x, y, x, y>>, member |-> <<y>>]}
=============================================================================
