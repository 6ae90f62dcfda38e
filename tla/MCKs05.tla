------------------------------- MODULE MCKs05 -------------------------------
(* KS05 with unbounded streams, and its ring alone with bounded ones, on   *)
(* one instance: in a behaviour, a computation goes on or a ring does,     *)
(* while the other is over.                                                *)
EXTENDS MCKs05Protocol, Ks05Ring

ComputationOver ==
    /\ leader = N - 1
    /\ input \in Same
    /\ threshold = [p \in Parties |-> 2]
    /\ pc = [p \in Parties |-> "done"]
    /\ net = [p \in Parties |-> [q \in Parties |-> <<>>]]
    /\ agreed = [p \in Parties |-> Size(p)]
    /\ product = [p \in Parties |-> Encode(p, Size(p))]
    /\ served = Members
    /\ summed = [zeros |-> Elements, degree |-> 0]
    /\ result = Elements

RingOver ==
    /\ size = 1
    /\ wrote = [i \in Stations |-> Messages(i)]
    /\ read = [i \in Stations |-> Messages(Before(i))]

EitherInit == (Init /\ RingOver) \/ (RingInit /\ ComputationOver)

EitherNext == (Next /\ UNCHANGED ringVars) \/ (RingNext /\ UNCHANGED vars)

EitherSpec == /\ EitherInit /\ [][EitherNext]_<<vars, ringVars>>
              /\ Fairness /\ RingFairness
=============================================================================
