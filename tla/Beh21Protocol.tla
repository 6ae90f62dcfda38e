--------------------------- MODULE Beh21Protocol ---------------------------
(***************************************************************************)
(* One computation of the BEH21 over-threshold PSI (protocols/beh21/       *)
(* protocol/ot_mpsi.cpp).  The members send their encrypted Bloom filters  *)
(* to the leader.  For every element of the leader and every member, a     *)
(* triple goes round the ring of members and answers whether the filter    *)
(* has the element (round 1); for every element, another answers whether   *)
(* enough members do (round 2).  After each round, and once for the final  *)
(* answers (round 3), all parties decrypt a batch jointly.                 *)
(*                                                                         *)
(* Streams are bounded: a write blocks while Window frames are unread.     *)
(* A ciphertext is its plaintext.  A triple is one frame, and so is a      *)
(* Bloom filter, or the batch of a joint decryption, of which only the     *)
(* round is kept: every party decrypts what the leader sent.               *)
(***************************************************************************)
EXTENDS Chain, Sequences, SecureComparison, FiniteSetsExt, Functions

CONSTANTS
    Elements,
    Leaders,               \* party ids that may lead
    InputChoices,          \* what the parties may submit
    Thresholds,            \* mThreshold of the leader; the members' is not used
    NumHash,               \* hash functions of the Bloom filters
    Window,                \* frames that a stream holds
    Mortal                 \* bound: parties whose processes may die on their own

ASSUME Beh21Assumption ==
    /\ N \in Nat /\ N >= 2
    /\ Leaders \subseteq Parties
    /\ InputChoices \subseteq [Parties -> Seq(Elements)]
    /\ Thresholds \subseteq 2..N
    /\ NumHash \in Nat \ {0}
    /\ Window \in Nat \ {0}
    /\ Mortal \subseteq Parties

VARIABLES
    input,                 \* input[p]: the elements of p's request
    bits,                  \* bits[m][e]: how many of e's positions are set in
                           \* the Bloom filter of m
    threshold,
    pc,                    \* where each party is in run()
    round,                 \* round[p]: 1, 2 or 3
    net,                   \* net[p][q]: frames p sent to q and q has not read
    elements,              \* elements[m]: mRecverSize, the leader's set size
    sent,                  \* triples the leader's thread sent in this round
    scp,                   \* firstRoundSCP, secondRoundSCP
    counts,                \* aggregatedResults, per element
    passed,                \* passed[m]: triples m has handled in both rounds
    served,                \* the members whose leader thread ended in this phase
    result,                \* positions of the leader's input in the intersection
    ones                   \* history: some member has drawn the factor 1

chosen == <<leader, input, bits, threshold>>
progress == <<round, elements, sent, scp, counts, passed, served, result, ones>>
vars == <<chosen, pc, net, progress>>

-----------------------------------------------------------------------------
Init ==
    /\ leader \in Leaders
    /\ input \in InputChoices
    /\ bits \in {b \in [Members -> [Elements -> 0..NumHash]] :
                    \A m \in Members : \A e \in Range(input[m]) : b[m][e] = NumHash}
    /\ threshold \in Thresholds
    /\ pc = [p \in Parties |-> IF p = leader THEN "sizes" ELSE "size"]
    /\ round = [p \in Parties |-> 1]
    /\ net = [p \in Parties |-> [q \in Parties |-> <<>>]]
    /\ elements = [p \in Parties |-> 0]
    /\ sent = 0
    /\ scp = <<>>
    /\ counts = <<>>
    /\ passed = [p \in Parties |-> 0]
    /\ served = {}
    /\ result = {}
    /\ ones = FALSE

Goto(p, from, to) == pc[p] = from /\ pc' = [pc EXCEPT ![p] = to]

Has(from, to) == net[from][to] # <<>>
Frame(from, to) == Head(net[from][to])
Room(from, to) == Len(net[from][to]) < Window

Put(p, q, f, n) == [n EXCEPT ![p][q] = Append(@, f)]
Take(p, q, n) == [n EXCEPT ![p][q] = Tail(@)]

Draws == {draw \in Factors \X Factors : draw[2] \in Offsets(draw[1])}

-----------------------------------------------------------------------------
(* OtMpsiMember::run.                                                      *)

SendSize(m) == /\ Goto(m, "size", "negotiate")
               /\ Room(m, leader)
               /\ net' = Put(m, leader, [size |-> Len(input[m])], net)
               /\ UNCHANGED <<chosen, progress>>

Negotiate(m) ==
    /\ Goto(m, "negotiate", "filter")
    /\ Has(leader, m)
    /\ elements' = [elements EXCEPT ![m] = Frame(leader, m).elements]
    /\ net' = Take(leader, m, net)
    /\ UNCHANGED <<chosen, round, sent, scp, counts, passed, served, result, ones>>

(* Nothing follows for a leader that has submitted nothing.                *)
SendFilter(m) == /\ Goto(m, "filter", IF elements[m] = 0 THEN "done" ELSE "ring")
                 /\ Room(m, leader)
                 /\ net' = Put(m, leader, [filter |-> bits[m]], net)
                 /\ UNCHANGED <<chosen, progress>>

(* The triples of round 1 and of round 2 that a member expects.  Mutant:   *)
(* as many as its own set has elements.                                    *)
ExpectedByOwnSize(m) == LET E == Len(input[m]) IN
                        IF round[m] = 1 THEN E * (N - 1) ELSE E * (N - 1) + E

Expected(m) == LET E == elements[m] IN
               IF round[m] = 1 THEN E * (N - 1) ELSE E * (N - 1) + E

(* A null channel is dereferenced: the process is gone.                    *)
NullChannel(m) == /\ pc[m] = "ring"
                  /\ \/ Prev(m) = None
                     \/ NextHop(m) = None /\ Has(Prev(m), m)
                  /\ pc' = [pc EXCEPT ![m] = "crashed"]
                  /\ UNCHANGED <<chosen, net, progress>>

Hop(m) ==
    /\ pc[m] = "ring"
    /\ Prev(m) # None /\ NextHop(m) # None
    /\ Has(Prev(m), m)
    /\ Room(m, NextHop(m))
    /\ \E draw \in Draws, swap \in BOOLEAN :
         /\ net' = Put(m, NextHop(m), Pass(Frame(Prev(m), m), draw[1], draw[2], swap),
                       Take(Prev(m), m, net))
         /\ ones' = (ones \/ draw[1] = 1)
    /\ passed' = [passed EXCEPT ![m] = @ + 1]
    /\ pc' = IF passed'[m] = Expected(m) THEN [pc EXCEPT ![m] = "decrypt"] ELSE pc
    /\ UNCHANGED <<chosen, round, elements, sent, scp, counts, served, result>>

PartialDecrypt(m) ==
    /\ pc[m] = "decrypt"
    /\ Has(leader, m)
    /\ Room(m, leader)
    /\ net' = Put(m, leader, Frame(leader, m), Take(leader, m, net))
    /\ pc' = [pc EXCEPT ![m] = CASE round[m] = 1 -> "ring"
                                 [] round[m] = 2 -> "decrypt"
                                 [] round[m] = 3 -> "done"]
    /\ round' = [round EXCEPT ![m] = IF @ = 3 THEN 3 ELSE @ + 1]
    /\ UNCHANGED <<chosen, elements, sent, scp, counts, passed, served, result, ones>>

(* A read or a write that fails; the exception leaves runMember waiting    *)
(* for its handlers (MemberSession): streams from the leader and the       *)
(* previous member stay open, the stream to the next member is dropped.    *)
Source(m) == IF pc[m] = "ring" THEN Prev(m) ELSE leader
Sink(m) == IF pc[m] = "ring" THEN NextHop(m) ELSE leader

Gone(q) == pc[q] \in {"crashed", "error"}
Dropped(q) == Gone(q) \/ pc[q] = "stuck"

Throw(m) ==
    /\ \/ /\ pc[m] \in {"negotiate", "ring", "decrypt"}
          /\ Source(m) # None
          /\ ~ Has(Source(m), m) /\ Dropped(Source(m))
       \/ /\ pc[m] \in {"size", "filter"} \/ (pc[m] \in {"ring", "decrypt"}
                                               /\ Source(m) # None /\ Has(Source(m), m))
          /\ Sink(m) # None
          /\ Gone(Sink(m))
    /\ pc' = [pc EXCEPT ![m] = "stuck"]
    /\ UNCHANGED <<chosen, net, progress>>

MemberStep(m) == \/ SendSize(m) \/ Negotiate(m) \/ SendFilter(m) \/ NullChannel(m)
                 \/ Hop(m) \/ PartialDecrypt(m) \/ Throw(m)

-----------------------------------------------------------------------------
(* OtMpsiLeader::run.                                                      *)

Size == Len(input[leader])

(* How many triples a round has, and the difference that triple i hides.   *)
Items == IF round[leader] = 1 THEN Size * (N - 1) ELSE Size

MemberAt(k) == CHOOSE m \in Members : Position(m) = k

Difference(i) ==
    IF round[leader] = 1
    THEN NumHash - bits[MemberAt((i - 1) % (N - 1))][input[leader][((i - 1) \div (N - 1)) + 1]]
    ELSE threshold - 1 - counts[i]

NegotiateSizes ==
    /\ Goto(leader, "sizes", "filters")
    /\ \A m \in Members : Has(m, leader)
    /\ net' = [p \in Parties |-> [q \in Parties |->
                 IF p = leader /\ q # leader THEN Append(net[p][q], [elements |-> Size])
                 ELSE IF p # leader /\ q = leader THEN Tail(net[p][q])
                 ELSE net[p][q]]]
    /\ UNCHANGED <<chosen, progress>>

(* One thread per member, joined at the end of the phase.                  *)
Joins(m) == served \union {m} = Members

Serve(m, from, to) ==
    /\ pc[leader] = from
    /\ m \notin served
    /\ served' = IF Joins(m) THEN {} ELSE served \union {m}
    /\ pc' = IF Joins(m) THEN [pc EXCEPT ![leader] = to] ELSE pc

CollectFilter(m) ==
    /\ Serve(m, "filters", IF Size = 0 THEN "done" ELSE "ring")
    /\ Has(m, leader)
    /\ net' = Take(m, leader, net)
    /\ UNCHANGED <<chosen, round, elements, sent, scp, counts, passed, result, ones>>

(* The thread that sends the triples of a round to the first member.       *)
SendTriple ==
    /\ pc[leader] = "ring"
    /\ sent < Items
    /\ Room(leader, First)
    /\ \E draw \in Draws :
          net' = Put(leader, First, Start(Difference(sent + 1), draw[1], draw[2]), net)
    /\ sent' = sent + 1
    /\ UNCHANGED <<chosen, pc, round, elements, scp, counts, passed, served, result, ones>>

(* Meanwhile run() reads them from the last member, and joins the thread.  *)
(* Mutant: it joins first.                                                 *)
ReceiveAfterSending ==
    /\ pc[leader] = "ring"
    /\ sent = Items
    /\ Has(Last, leader)
    /\ scp' = Append(scp, Frame(Last, leader))
    /\ net' = Take(Last, leader, net)
    /\ pc' = IF Len(scp') = Items THEN [pc EXCEPT ![leader] = "share"] ELSE pc
    /\ UNCHANGED <<chosen, round, elements, sent, counts, passed, served, result, ones>>

ReceiveTriple ==
    /\ pc[leader] = "ring"
    /\ Has(Last, leader)
    /\ scp' = Append(scp, Frame(Last, leader))
    /\ net' = Take(Last, leader, net)
    /\ pc' = IF Len(scp') = Items THEN [pc EXCEPT ![leader] = "share"] ELSE pc
    /\ UNCHANGED <<chosen, round, elements, sent, counts, passed, served, result, ones>>

Share(m) == /\ Serve(m, "share", "collect")
            /\ Room(leader, m)
            /\ net' = Put(leader, m, [batch |-> round[leader]], net)
            /\ UNCHANGED <<chosen, round, elements, sent, scp, counts, passed, result, ones>>

(* The members' answers for element i, of the selected bits of round 1.    *)
CountOf(i) == FoldFunction(+, 0, [k \in 1..(N - 1) |-> Select(scp[(i - 1) * (N - 1) + k])])

(* The last partial decryption of a batch: fuse, select, and go on.        *)
Fuse == CASE round[leader] = 1 -> /\ counts' = [i \in 1..Size |-> CountOf(i)]
                                  /\ scp' = <<>>
                                  /\ sent' = 0
                                  /\ UNCHANGED result
          [] round[leader] = 2 -> UNCHANGED <<counts, scp, sent, result>>
          [] round[leader] = 3 -> /\ result' = {i \in 1..Size : Select(scp[i]) = 1}
                                  /\ UNCHANGED <<counts, scp, sent>>

AfterBatch == CASE round[leader] = 1 -> "ring"
                [] round[leader] = 2 -> "share"
                [] round[leader] = 3 -> "done"

CollectPartial(m) ==
    /\ Serve(m, "collect", AfterBatch)
    /\ Has(m, leader)
    /\ net' = Take(m, leader, net)
    /\ IF Joins(m)
       THEN /\ Fuse
            /\ round' = [round EXCEPT ![leader] = IF @ = 3 THEN 3 ELSE @ + 1]
       ELSE UNCHANGED <<counts, scp, sent, result, round>>
    /\ UNCHANGED <<chosen, elements, passed, ones>>

(* In the negotiation, a failed read or write is a STATUS_ERROR...         *)
LeaderThrows == /\ Goto(leader, "sizes", "error")
                /\ \E m \in Members : pc[m] = "crashed"
                /\ UNCHANGED <<chosen, net, progress>>

(* ... and in a thread, or while one can be joined, std::terminate.        *)
LeaderTerminates ==
    /\ \/ /\ pc[leader] \in {"filters", "share", "collect"}
          /\ \E m \in Members \ served :
                pc[m] = "crashed" /\ (pc[leader] = "share" \/ ~ Has(m, leader))
       \/ /\ pc[leader] = "ring"
          /\ \/ pc[First] = "crashed" /\ sent < Items
             \/ pc[Last] = "crashed" /\ ~ Has(Last, leader)
    /\ pc' = [pc EXCEPT ![leader] = "crashed"]
    /\ UNCHANGED <<chosen, net, progress>>

Crash(p) == /\ pc[p] \notin {"done", "error", "stuck", "crashed"}
            /\ pc' = [pc EXCEPT ![p] = "crashed"]
            /\ UNCHANGED <<chosen, net, progress>>

LeaderStep == \/ NegotiateSizes
              \/ \E m \in Members : CollectFilter(m) \/ Share(m) \/ CollectPartial(m)
              \/ ReceiveTriple
              \/ LeaderThrows \/ LeaderTerminates

Next == \/ LeaderStep
        \/ SendTriple
        \/ \E m \in Members : MemberStep(m)
        \/ \E p \in Mortal : Crash(p)

Spec == Init /\ [][Next]_vars

(* The leader's sending thread, its main thread and every process run.     *)
FairSpec == /\ Spec
            /\ WF_vars(LeaderStep) /\ WF_vars(SendTriple)
            /\ \A p \in Parties : WF_vars(p \in Members /\ MemberStep(p))

-----------------------------------------------------------------------------
(* The members whose Bloom filter has the leader's i-th element: those     *)
(* that submitted it, and false positives of the filter.                   *)
Hits(i) == {m \in Members : bits[m][input[leader][i]] = NumHash}

(* However the triples overlap in the ring, the result is exact, up to the *)
(* filters' false positives, as long as no member draws the factor 1; the  *)
(* leader's own factors may be 1.                                          *)
ExactUnlessAMemberDrawsOne ==
    pc[leader] = "done" /\ ~ ones =>
        result = {i \in 1..Size : 1 + Cardinality(Hits(i)) >= threshold}

(* The leader's stream to the first member carries triples and batches,    *)
(* and the other streams change their use from round to round: whoever     *)
(* reads finds the kind of frame, and the round, that it expects.          *)
FramesAsExpected ==
    /\ \A m \in Members :
         /\ pc[m] = "ring" /\ Prev(m) # None /\ Has(Prev(m), m) => Frame(Prev(m), m) \in Triples
         /\ pc[m] = "decrypt" /\ Has(leader, m) => Frame(leader, m) = [batch |-> round[m]]
    /\ pc[leader] = "ring" /\ Has(Last, leader) => Frame(Last, leader) \in Triples
    /\ pc[leader] = "collect" =>
         \A m \in Members \ served :
             Has(m, leader) => Frame(m, leader) = [batch |-> round[leader]]

(* When the last of the sorted parties leads and no process dies, the      *)
(* leader finishes, however short the streams are.                         *)
Crashed == \E p \in Parties : pc[p] = "crashed"

LastLeaderFinishes == <>(pc[leader] = "done" \/ Crashed \/ leader # N - 1)
=============================================================================
