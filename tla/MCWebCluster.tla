---------------------------- MODULE MCWebCluster ----------------------------
(* Two demos, one of them with a dealer, a user who starts a cluster, and  *)
(* one who stops it, at any time; the server exits.                        *)
EXTENDS WebCluster, TLC

CONSTANTS d1, d2, u1, s1, e1

MCThreads == {d1, d2, u1, s1, e1}
MCKind == d1 :> "demo" @@ d2 :> "demo" @@ u1 :> "start" @@ s1 :> "stop" @@ e1 :> "exit"
MCNumParties == [r \in MCThreads |-> 2]
(* One party of the first demo may not be killed.                          *)
MCStubborn == {Proc(0, d1)}

MCDealerless == {d2, s1, e1}
=============================================================================
