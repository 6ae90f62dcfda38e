------------------------------- MODULE MCXzh26 -------------------------------
(* XZH26 and its hashing, on one instance: in a behaviour, the parties     *)
(* exchange frames, or a leader hashes and reads a row, while the other    *)
(* part is at rest in a state that it cannot leave.                        *)
EXTENDS MCXzh26Protocol, MCOpprfHashing

(* The leader came too early: it was answered STATUS_ERROR, one member's   *)
(* process ended, the other waits for a leader.                            *)
ExchangeAtRest ==
    /\ input = [p \in Parties |-> Six]
    /\ pc = Leader :> "error" @@ 1 :> "crashed" @@ 2 :> "parked"
    /\ hand = [m \in Members |-> "away"]
    /\ ch_from_leader = [m \in Members |-> FALSE]
    /\ done = [m \in Members |-> FALSE]
    /\ at = [p \in Parties |-> Begin]
    /\ down = [m \in Members |-> <<>>]
    /\ up = [m \in Members |-> <<>>]
    /\ table = [m \in Members |-> {}]
    /\ result = {}

(* Five elements: the first batch divided by zero.                         *)
HashingAtRest ==
    /\ leader = <<1, 2, 3, 4, 5>> /\ member = leader
    /\ hash = [e \in 1..4 |-> Triple(0, 1, 2)] @@ Other
    /\ stage = "dead"
    /\ fed = 0 /\ tries = 0
    /\ cur = {} /\ next = {} /\ stash = {}
    /\ bins = [b \in AllBins |-> Empty]
    /\ bin = Empty /\ pos = {} /\ answer = Empty

EitherInit == (Init /\ HashingAtRest) \/ (HashInit /\ ExchangeAtRest)

EitherNext == (Next /\ UNCHANGED hashVars) \/ (HashNext /\ UNCHANGED vars)

EitherSpec == EitherInit /\ [][EitherNext]_<<vars, hashVars>> /\ Fairness
=============================================================================
