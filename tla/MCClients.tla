------------------------------ MODULE MCClients ------------------------------
(* What clients of the parties and users of the web demo do, on one        *)
(* instance: in a behaviour, requests go to the parties, which somebody    *)
(* has started, or to the web server, while the others are over.           *)
EXTENDS MCPsiRequest, MCWebCluster

(* No client has a request.                                                *)
NobodyAsks ==
    /\ request = [s \in Sessions |-> None]
    /\ pc = [s \in Sessions |-> "unsubmitted"]
    /\ stream = [s \in Sessions |-> [q \in Parties |-> NoStream]]
    /\ product = [s \in Sessions |-> {}]
    /\ overlapped = FALSE

(* The web server has exited, and nothing of it runs.                      *)
ClusterOver ==
    /\ at = [r \in Threads |-> "done"]
    /\ lock = NoRequest
    /\ stage = "none"
    /\ next = 0
    /\ handles = {} /\ num_parties = 0
    /\ alive = {} /\ listening = {} /\ survivors = {}
    /\ broken = {}

EitherInit == (Init /\ ClusterOver) \/ (ClusterInit /\ NobodyAsks)

EitherNext == (Next /\ UNCHANGED clusterVars) \/ (ClusterNext /\ UNCHANGED vars)

EitherSpec == /\ EitherInit /\ [][EitherNext]_<<vars, clusterVars>>
              /\ Fairness /\ ClusterFairness
=============================================================================
