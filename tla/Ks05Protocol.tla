---------------------------- MODULE Ks05Protocol ----------------------------
(***************************************************************************)
(* One computation of the KS05 threshold PSI (protocols/ks05/protocol/     *)
(* t_mpsi.cpp) between a leader and a chain of members, on the streams the *)
(* plugin gives them: set sizes are negotiated, the encrypted polynomial   *)
(* of the leader goes round the ring and every member multiplies its own   *)
(* into it, the product is broadcast, every member returns a blinded       *)
(* combination of the product and its derivative, and the sum is decrypted *)
(* jointly.                                                                *)
(*                                                                         *)
(* A polynomial is its roots among the elements, with multiplicity, and    *)
(* its degree; padding is random and adds to the degree only.  What is     *)
(* random in Z_n is assumed not to vanish by accident.  A count and the    *)
(* coefficients that follow it are one frame; Ks05Ring counts every one.   *)
(***************************************************************************)
EXTENDS Chain, Sequences, FiniteSetsExt, Functions

CONSTANTS
    Elements,
    Leaders,               \* party ids that may lead
    InputChoices,          \* what the parties may submit: a set of functions
                           \* from parties and elements to numbers of copies
    Thresholds,            \* thresholds a party may submit
    MaxCoefficients,       \* MAX_COEFFICIENTS, 1000000 in the code
    MaxCrashes             \* bound: processes that die on their own

ASSUME Ks05Assumption ==
    /\ N \in Nat /\ N >= 2
    /\ IsFiniteSet(Elements)
    /\ Leaders \subseteq Parties
    /\ InputChoices \subseteq [Parties -> [Elements -> Nat]]
    /\ Thresholds \subseteq 2..N
    /\ MaxCoefficients \in Nat
    /\ MaxCrashes \in Nat

VARIABLES
    input,                 \* input[p][e]: how often e occurs in p's request
    threshold,             \* threshold[p]: mThreshold
    pc,                    \* where each party is in run()
    net,                   \* net[p][q]: frames p sent to q and q has not read
    agreed,                \* agreed[p]: mNegotiatedSetSize, 0 before
    product,               \* encPoly of the leader, encPolyOriginal of a member
    served,                \* the members whose leader thread ended in this phase
    summed,                \* the leader's sum of the blinded polynomials
    result                 \* the leader's intersection

chosen == <<leader, input, threshold>>
vars == <<chosen, pc, net, agreed, product, served, summed, result>>

Size(p) == FoldFunction(+, 0, input[p])
ZeroRoots == [e \in Elements |-> 0]

Encode(p, size) == [roots |-> input[p], degree |-> size]

Times(f, g) == [roots |-> [e \in Elements |-> f.roots[e] + g.roots[e]],
                degree |-> f.degree + g.degree]

Count(f) == f.degree + 1
TooLong(f) == Count(f) > MaxCoefficients

-----------------------------------------------------------------------------
(* Sizes of what a member encrypts ahead: encryptedZeros.                  *)
Larger(a, b) == IF a > b THEN a ELSE b

(* Mutant: m other factors, the member's own forgotten.                    *)
CoeffsBeforeAggregation(m) == agreed[m] + m * agreed[m] + 1

CoeffsAfterAggregation(m) == agreed[m] + (m + 1) * agreed[m] + 1

CoeffsAfterBlinding(m) ==
    LET original == agreed[m] + (N - 1) * agreed[m]
    IN  Larger(original * 2, (original - (threshold[m] - 1)) * 3) + 1

TotalZeros(m) == CoeffsAfterAggregation(m) + CoeffsAfterBlinding(m)

(* Mutant: the derivative of order t.                                      *)
BlindOnceMore(m, f) ==
    LET derivative == f.degree - threshold[m]
        own == agreed[m]
        cover == IF derivative >= own THEN derivative - own ELSE 0
    IN  [zeros |-> {e \in Elements : /\ f.roots[e] >= 1
                                     /\ \/ f.roots[e] > threshold[m]
                                        \/ input[m][e] >= 1},
         degree |-> Larger(2 * f.degree, 2 * derivative + cover + own)]

(* F * R + F^(t-1) * (polyF * poly * polyS): where it vanishes among the   *)
(* elements, and its degree.  The derivative of a product vanishes at a    *)
(* root of multiplicity t or more; the member's own factor at its inputs.  *)
Blind(m, f) ==
    LET derivative == f.degree - (threshold[m] - 1)
        own == agreed[m]
        cover == IF derivative >= own THEN derivative - own ELSE 0
    IN  [zeros |-> {e \in Elements : /\ f.roots[e] >= 1
                                     /\ \/ f.roots[e] >= threshold[m]
                                        \/ input[m][e] >= 1},
         degree |-> Larger(2 * f.degree, 2 * derivative + cover + own)]

AddBlinded(f, g) == [zeros |-> f.zeros \intersect g.zeros, degree |-> Larger(f.degree, g.degree)]

-----------------------------------------------------------------------------
Init == /\ leader \in Leaders
        /\ input \in InputChoices
        /\ threshold \in [Parties -> Thresholds]
        /\ pc = [p \in Parties |-> IF p = leader THEN "sizes" ELSE "size"]
        /\ net = [p \in Parties |-> [q \in Parties |-> <<>>]]
        /\ agreed = [p \in Parties |-> 0]
        /\ product = [p \in Parties |-> [roots |-> ZeroRoots, degree |-> 0]]
        /\ served = {}
        /\ summed = [zeros |-> Elements, degree |-> 0]
        /\ result = {}

Goto(p, from, to) == pc[p] = from /\ pc' = [pc EXCEPT ![p] = to]

Has(from, to) == net[from][to] # <<>>
Frame(from, to) == Head(net[from][to])

Put(p, q, f, n) == [n EXCEPT ![p][q] = Append(@, f)]
Take(p, q, n) == [n EXCEPT ![p][q] = Tail(@)]

-----------------------------------------------------------------------------
(* TMpsiMember::run.                                                       *)

SendSize(m) == /\ Goto(m, "size", "negotiate")
               /\ net' = Put(m, leader, [size |-> Size(m)], net)
               /\ UNCHANGED <<chosen, agreed, product, served, summed, result>>

Negotiate(m) == /\ Goto(m, "negotiate", "aggregate")
                /\ Has(leader, m)
                /\ agreed' = [agreed EXCEPT ![m] = Frame(leader, m).size]
                /\ net' = Take(leader, m, net)
                /\ UNCHANGED <<chosen, product, served, summed, result>>

(* A null channel is dereferenced: the process is gone.                    *)
NullChannel(m) == /\ \/ Prev(m) = None
                     \/ NextHop(m) = None /\ Has(Prev(m), m)
                  /\ Goto(m, "aggregate", "crashed")
                  /\ UNCHANGED <<chosen, net, agreed, product, served, summed, result>>

Aggregate(m) ==
    /\ Goto(m, "aggregate", "blind")
    /\ Prev(m) # None /\ NextHop(m) # None
    /\ Has(Prev(m), m)
    /\ LET f == Frame(Prev(m), m) IN
       /\ ~ TooLong(f)
       /\ net' = Put(m, NextHop(m), Times(f, Encode(m, agreed[m])), Take(Prev(m), m, net))
    /\ UNCHANGED <<chosen, agreed, product, served, summed, result>>

ReceiveAndBlind(m) ==
    /\ Goto(m, "blind", "decrypt")
    /\ Has(leader, m)
    /\ LET f == Frame(leader, m) IN
       /\ ~ TooLong(f)
       /\ product' = [product EXCEPT ![m] = f]
       /\ net' = Put(m, leader, Blind(m, f), Take(leader, m, net))
    /\ UNCHANGED <<chosen, agreed, served, summed, result>>

PartialDecrypt(m) ==
    /\ Goto(m, "decrypt", "done")
    /\ Has(leader, m)
    /\ ~ TooLong(Frame(leader, m))
    /\ net' = Put(m, leader, Frame(leader, m), Take(leader, m, net))
    /\ UNCHANGED <<chosen, agreed, product, served, summed, result>>

(* checkCoeffCount throws, a read fails because the peer's process is gone *)
(* or its client stream was dropped, or a write fails because it is gone   *)
(* (it may also still succeed).  The exception leaves runMember waiting    *)
(* for its own handlers (MemberSession), so the streams from the leader    *)
(* and the previous member stay open and say nothing.                      *)
Source(m) == IF pc[m] = "aggregate" THEN Prev(m) ELSE leader
Sink(m) == IF pc[m] = "aggregate" THEN NextHop(m) ELSE leader

Gone(q) == pc[q] \in {"crashed", "error"}
Dropped(q) == Gone(q) \/ pc[q] = "stuck"

WriteFails(m) == Sink(m) # None /\ Gone(Sink(m))

Throw(m) == /\ \/ pc[m] = "size" /\ WriteFails(m)
               \/ /\ pc[m] \in {"negotiate", "aggregate", "blind", "decrypt"}
                  /\ Source(m) # None
                  /\ ~ Has(Source(m), m) /\ Dropped(Source(m))
               \/ /\ pc[m] \in {"aggregate", "blind", "decrypt"}
                  /\ Source(m) # None
                  /\ Has(Source(m), m)
                  /\ TooLong(Frame(Source(m), m)) \/ WriteFails(m)
            /\ pc' = [pc EXCEPT ![m] = "stuck"]
            /\ UNCHANGED <<chosen, net, agreed, product, served, summed, result>>

MemberStep(m) == \/ SendSize(m) \/ Negotiate(m) \/ NullChannel(m) \/ Aggregate(m)
                 \/ ReceiveAndBlind(m) \/ PartialDecrypt(m) \/ Throw(m)

-----------------------------------------------------------------------------
(* TMpsiLeader::run.                                                       *)

NegotiateSizes ==
    /\ Goto(leader, "sizes", "ring")
    /\ \A m \in Members : Has(m, leader)
    /\ LET size == Max({Size(leader)} \union {Frame(m, leader).size : m \in Members}) IN
       /\ agreed' = [agreed EXCEPT ![leader] = size]
       /\ net' = [p \in Parties |-> [q \in Parties |->
                    IF p = leader /\ q # leader THEN Append(net[p][q], [size |-> size])
                    ELSE IF p # leader /\ q = leader THEN Tail(net[p][q])
                    ELSE net[p][q]]]
    /\ UNCHANGED <<chosen, product, served, summed, result>>

StartRing == /\ Goto(leader, "ring", "collect")
             /\ net' = Put(leader, First, Encode(leader, agreed[leader]), net)
             /\ UNCHANGED <<chosen, agreed, product, served, summed, result>>

CollectProduct ==
    /\ Goto(leader, "collect", "broadcast")
    /\ Has(Last, leader)
    /\ ~ TooLong(Frame(Last, leader))
    /\ product' = [product EXCEPT ![leader] = Frame(Last, leader)]
    /\ net' = Take(Last, leader, net)
    /\ UNCHANGED <<chosen, agreed, served, summed, result>>

(* One thread per member, joined at the end of each of the next phases.    *)
Serve(m, from, to) ==
    /\ pc[leader] = from
    /\ m \notin served
    /\ IF served \union {m} = Members
       THEN served' = {} /\ pc' = [pc EXCEPT ![leader] = to]
       ELSE served' = served \union {m} /\ UNCHANGED pc

Broadcast(m) == /\ Serve(m, "broadcast", "blinded")
                /\ net' = Put(leader, m, product[leader], net)
                /\ UNCHANGED <<chosen, agreed, product, summed, result>>

CollectBlinded(m) == /\ Serve(m, "blinded", "sendSum")
                     /\ Has(m, leader)
                     /\ ~ TooLong(Frame(m, leader))
                     /\ summed' = AddBlinded(summed, Frame(m, leader))
                     /\ net' = Take(m, leader, net)
                     /\ UNCHANGED <<chosen, agreed, product, result>>

SendSum(m) == /\ Serve(m, "sendSum", "partials")
              /\ net' = Put(leader, m, summed, net)
              /\ UNCHANGED <<chosen, agreed, product, summed, result>>

(* Mutant: the threads of the last phase are not joined.                   *)
CollectPartialDetached(m) == /\ Goto(leader, "partials", "fuse")
                             /\ Has(m, leader)
                             /\ net' = Take(m, leader, net)
                             /\ UNCHANGED <<chosen, agreed, product, served, summed, result>>

CollectPartial(m) == /\ Serve(m, "partials", "fuse")
                     /\ Has(m, leader)
                     /\ ~ TooLong(Frame(m, leader))
                     /\ net' = Take(m, leader, net)
                     /\ UNCHANGED <<chosen, agreed, product, summed, result>>

(* fuseDec, then the summed polynomial is evaluated at the leader's inputs.*)
Fuse == /\ Goto(leader, "fuse", "done")
        /\ result' = {e \in Elements : input[leader][e] >= 1 /\ e \in summed.zeros}
        /\ UNCHANGED <<chosen, net, agreed, product, served, summed>>

(* Mutant: the product is awaited from the first member of the chain.      *)
AwaitedFirst == IF pc[leader] = "sizes" THEN Members ELSE {First}

Awaited == CASE pc[leader] = "sizes" -> Members
             [] pc[leader] = "ring" -> {First}
             [] OTHER -> {Last}

(* A failed read or count check in run() itself becomes a STATUS_ERROR...  *)
LeaderThrows ==
    /\ pc[leader] \in {"sizes", "ring", "collect"}
    /\ \E m \in Awaited :
         \/ pc[m] = "crashed" /\ (pc[leader] = "collect" => ~ Has(m, leader))
         \/ Has(m, leader) /\ pc[leader] = "collect" /\ TooLong(Frame(m, leader))
    /\ pc' = [pc EXCEPT ![leader] = "error"]
    /\ UNCHANGED <<chosen, net, agreed, product, served, summed, result>>

(* ... and in one of the threads it is std::terminate.                     *)
LeaderTerminates ==
    /\ pc[leader] \in {"broadcast", "blinded", "sendSum", "partials"}
    /\ \E m \in Members \ served :
         \/ pc[m] = "crashed" /\ (pc[leader] \in {"broadcast", "sendSum"} \/ ~ Has(m, leader))
         \/ pc[leader] \in {"blinded", "partials"} /\ Has(m, leader) /\ TooLong(Frame(m, leader))
    /\ pc' = [pc EXCEPT ![leader] = "crashed"]
    /\ UNCHANGED <<chosen, net, agreed, product, served, summed, result>>

(* A process dies in the middle of the run.  What it has written is still  *)
(* delivered; its peers notice when they read.                             *)
Crash(p) == /\ Cardinality({q \in Parties : pc[q] = "crashed"}) < MaxCrashes
            /\ pc[p] \notin {"done", "error", "stuck", "crashed"}
            /\ pc' = [pc EXCEPT ![p] = "crashed"]
            /\ UNCHANGED <<chosen, net, agreed, product, served, summed, result>>

LeaderStep == \/ NegotiateSizes \/ StartRing \/ CollectProduct \/ Fuse
              \/ \E m \in Members : \/ Broadcast(m) \/ CollectBlinded(m)
                                    \/ SendSum(m) \/ CollectPartial(m)
              \/ LeaderThrows \/ LeaderTerminates

Next == \/ LeaderStep
        \/ \E m \in Members : MemberStep(m)
        \/ \E p \in Parties : Crash(p)

Spec == Init /\ [][Next]_vars

Fairness == WF_vars(LeaderStep) /\ \A p \in Parties : WF_vars(p \in Members /\ MemberStep(p))

FairSpec == Spec /\ Fairness

-----------------------------------------------------------------------------
(* The parties that submitted e.                                           *)
Holders(e) == {p \in Parties : input[p][e] >= 1}

AgreeingThresholds == {threshold[m] : m \in Members}

(* psi_service.proto: "elements in >= threshold parties are in the         *)
(* result".  The requests carry thresholds of their own that nothing       *)
(* compares, and the roots of a polynomial keep what the elements of a     *)
(* request repeat.  So the leader finds, of its own elements, every one    *)
(* that was submitted as often as the largest threshold asks, all requests *)
(* together, and none that was submitted less often than the smallest.     *)
Copies(e) == FoldFunction(+, 0, [p \in Parties |-> input[p][e]])

ResultBetweenThresholds ==
    pc[leader] = "done" =>
        \A e \in Elements :
            /\ e \in result => /\ leader \in Holders(e)
                               /\ Copies(e) >= Min(AgreeingThresholds)
            /\ leader \in Holders(e) /\ Copies(e) >= Max(AgreeingThresholds) => e \in result

(* The ciphertexts of zero that a member prepares are enough for all the   *)
(* coefficients it rerandomises, before and after it knows their number.   *)
ZerosSuffice ==
    \A m \in Members :
        /\ pc[m] = "aggregate" /\ Prev(m) # None /\ Has(Prev(m), m) =>
              Count(Times(Frame(Prev(m), m), Encode(m, agreed[m]))) <= CoeffsAfterAggregation(m)
        /\ pc[m] = "blind" /\ Has(leader, m) =>
              CoeffsAfterAggregation(m) + Count(Blind(m, Frame(leader, m))) <= TotalZeros(m)

(* The leader finishes with every member finished, and no frame is left    *)
(* unread on a stream that is about to be closed.                          *)
NothingLeftOver ==
    pc[leader] = "done" => /\ \A m \in Members : pc[m] = "done"
                           /\ \A p, q \in Parties : net[p][q] = <<>>

(* service/README.md: "any party can be the leader".  The choice of        *)
(* channels by party id fits the chain that the plugin built only when the *)
(* leader is the last of the sorted parties; any other never finishes.     *)
OnlyLastLeaderFinishes == pc[leader] = "done" => leader = N - 1
(* A process that dies, or a count that is refused, ends the leader's      *)
(* request, unless it makes another member throw first: that member keeps  *)
(* its streams open, and whoever waits for it waits for ever.              *)
LeaderHangsOnlyForStuckMember ==
    <>(pc[leader] \in {"done", "error", "crashed"} \/ \E m \in Members : pc[m] = "stuck")

(* The operating envelope that the code leaves: the last of the sorted     *)
(* parties leads, no process dies, and three times the number of parties   *)
(* times the largest input is no more than MAX_COEFFICIENTS.  (With inputs *)
(* of 100000 elements, which the service accepts, that is three parties.)  *)
Crashed == \E p \in Parties : pc[p] = "crashed"

Fits == 3 * N * Max({Size(p) : p \in Parties}) <= MaxCoefficients

Outside == leader # N - 1 \/ ~ Fits

LeaderFinishesInEnvelope == <>(pc[leader] = "done" \/ Crashed \/ Outside)

(* service/README.md: "any party can be the leader".  Stated for inputs    *)
(* that fit and MaxCrashes = 0, when no process dies but of what the       *)
(* protocol itself does.                                                   *)
AnyPartyCanLead == <>(pc[leader] = "done")
=============================================================================
