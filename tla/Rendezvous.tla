----------------------------- MODULE Rendezvous -----------------------------
(***************************************************************************)
(* What a member's session promises, whatever threads carry it out: the    *)
(* protocol runs once every peer is attached and never before, a peer      *)
(* attaches at most once, and the request is answered after the run, and   *)
(* only when the run is over.                                              *)
(***************************************************************************)
CONSTANT Peers

VARIABLES stage, attached

vars == <<stage, attached>>

Init == stage = "awaiting" /\ attached = {}

Attach == /\ stage = "awaiting"
          /\ \E p \in Peers \ attached : attached' = attached \union {p}
          /\ UNCHANGED stage

Run == /\ stage = "awaiting"
       /\ attached = Peers
       /\ stage' = "running"
       /\ UNCHANGED attached

Release == stage = "running" /\ stage' = "releasing" /\ UNCHANGED attached

Answer == stage = "releasing" /\ stage' = "answered" /\ UNCHANGED attached

Next == Attach \/ Run \/ Release \/ Answer

Spec == Init /\ [][Next]_vars

(* A session whose peers are all attached is answered.                     *)
FairSpec == Spec /\ WF_vars(Run) /\ WF_vars(Release) /\ WF_vars(Answer)
=============================================================================
