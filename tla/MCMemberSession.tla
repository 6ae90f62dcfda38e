-------------------------- MODULE MCMemberSession --------------------------
(* A middle member of a chain: leader 3 and previous member 1 connect, the *)
(* previous member twice (a retry), and party 2's certificate once comes   *)
(* with a claim to be party 1; that last stream may also stay silent.      *)
EXTENDS MemberSession, TLC

CONSTANTS c1, c2, c3, c4

MCPeers == {1, 3}
MCParties == 1..3
MCConns == {c1, c2, c3, c4}
MCClaim == c1 :> 3 @@ c2 :> 1 @@ c3 :> 1 @@ c4 :> 1
MCSilent == {c4}
MCCert  == c1 :> 3 @@ c2 :> 1 @@ c3 :> NoCert @@ c4 :> 2
=============================================================================
