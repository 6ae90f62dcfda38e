--------------------------- MODULE Xzh26Protocol ---------------------------
(***************************************************************************)
(* One computation of XZH26 (protocols/xzh26): a star.  The leader         *)
(* generates a key with the members, sends them its encrypted Bloom        *)
(* filter, lets them blind its elements, receives from each two OPPRF      *)
(* tables with the encrypted answers of the filter for the member's        *)
(* elements, and has everybody decrypt the sums (ec_mpsi.cpp).             *)
(*                                                                         *)
(* Nobody tells anybody the size of a set: each party counts frames by the *)
(* size of its own.  The leader goes through its members one by one.       *)
(*                                                                         *)
(* Around it, runMember of xzh26_plugin.cpp: `ch_from_leader`, a plain     *)
(* pointer, and `done` are set and notified without the mutex.  Nothing is *)
(* ever written under that mutex, so it is left out: a waiter tests, and   *)
(* blocks in a later step.                                                 *)
(***************************************************************************)
EXTENDS CuckooParams, Sequences, FiniteSets, SequencesExt

CONSTANTS
    Leader,
    member_ids,            \* the other parties, in the order of their ids
    InputChoices,          \* what the parties may submit: sets, no repeats
    FilterSize(_),         \* bits of the Bloom filter for a set of n elements
    Threshold,             \* mThreshold: init stores it, and nothing reads it
    Window,                \* frames that a stream holds
    Mortal                 \* bound: parties whose processes may die on their own

Members == Range(member_ids)
Parties == Members \union {Leader}

ASSUME Xzh26Assumption ==
    /\ member_ids \in Seq(Members) /\ member_ids # <<>> /\ IsInjective(member_ids)
    /\ Leader \notin Members
    /\ \A choice \in InputChoices : \A p \in Parties : Cardinality(choice[p]) \in 1..128
    /\ Threshold \in Nat
    /\ Window \in Nat \ {0}
    /\ Mortal \subseteq Parties

(* ceil(n * 14.37...), see the optimal size of a Bloom filter.             *)
ASSUME FilterAssumption ==
    /\ \A n \in 1..128 : FilterSize(n) \in Nat \ {0}
    /\ \A n, k \in 1..128 : n <= k => FilterSize(n) <= FilterSize(k)

VARIABLES
    input,                 \* input[p]: the elements of p's request, hashed
    pc,                    \* where the thread of each request is
    hand,                  \* hand[m]: the handler thread of m's session
    ch_from_leader,        \* ch_from_leader[m]: the pointer is set
    done,
    at,                    \* at[p]: the phase of the run, the member the
                           \* leader is at, the frames handled for it
    down, up,              \* down[m], up[m]: frames leader -> m and m -> leader
    table,                 \* table[m]: what the OPPRF tables of m answer for
    result

session == <<hand, ch_from_leader, done>>
run == <<at, down, up, table, result>>
vars == <<input, pc, session, run>>

-----------------------------------------------------------------------------
(* The eight exchanges of a run, in the order in which every party goes    *)
(* through them.                                                           *)
Phases == <<"key", "beta", "filter", "blinded", "processed", "table", "c1", "partial">>
FromMember == {"key", "processed", "table", "partial"}

Phase(p) == Phases[at[p].phase]
Size(p) == Cardinality(input[p])

(* How many frames of a phase a party with n elements handles per stream;  *)
(* a ciphertext is two frames, and there are two OPPRFs.                   *)
FramesOf(ph, n) == CASE ph \in {"key", "beta"} -> 1
                     [] ph = "filter" -> 2 * FilterSize(n)
                     [] ph = "table" -> 2 * TableFrames(n)
                     [] OTHER -> n

(* All frames are points of 32 bytes but those of a table.                 *)
IsPoint(frame) == frame # "table"

Begin == [phase |-> 1, to |-> 1, count |-> 0]

(* Mutant: the last member's decryption of the sums is not awaited.        *)
AdvanceWithoutLast(p) ==
    LET a == at[p]
        streams == IF p # Leader THEN 1
                   ELSE IF Phase(p) = "partial" THEN Len(member_ids) - 1 ELSE Len(member_ids)
    IN CASE a.count + 1 < FramesOf(Phase(p), Size(p)) -> [a EXCEPT !.count = @ + 1]
         [] OTHER -> IF a.to < streams THEN [a EXCEPT !.to = @ + 1, !.count = 0]
                     ELSE [phase |-> a.phase + 1, to |-> 1, count |-> 0]

(* After one more frame; a member has one stream.                          *)
Advance(p) ==
    LET a == at[p]
        streams == IF p = Leader THEN Len(member_ids) ELSE 1
    IN CASE a.count + 1 < FramesOf(Phase(p), Size(p)) -> [a EXCEPT !.count = @ + 1]
         [] OTHER -> IF a.to < streams THEN [a EXCEPT !.to = @ + 1, !.count = 0]
                     ELSE [phase |-> a.phase + 1, to |-> 1, count |-> 0]

Init == /\ input \in InputChoices
        /\ pc = [p \in Parties |-> "off"]
        /\ hand = [m \in Members |-> "away"]
        /\ ch_from_leader = [m \in Members |-> FALSE]
        /\ done = [m \in Members |-> FALSE]
        /\ at = [p \in Parties |-> Begin]
        /\ down = [m \in Members |-> <<>>]
        /\ up = [m \in Members |-> <<>>]
        /\ table = [m \in Members |-> {}]
        /\ result = {}

Goto(p, from, to) == pc[p] = from /\ pc' = [pc EXCEPT ![p] = to]
Hand(m, from, to) == hand[m] = from /\ hand' = [hand EXCEPT ![m] = to]

Running(p) == pc[p] = "run" /\ at[p].phase <= Len(Phases)

-----------------------------------------------------------------------------
(* runMember: the thread of the request.                                   *)

StartServer(m) == Goto(m, "off", "test") /\ UNCHANGED <<input, session, run>>

(* cv.wait(lk, [&]{ return ch_from_leader != nullptr; })                   *)
TestLeader(m) == /\ IF ch_from_leader[m] THEN Goto(m, "test", "run")
                                         ELSE Goto(m, "test", "block")
                 /\ UNCHANGED <<input, session, run>>

BlockMain(m) == Goto(m, "block", "parked") /\ UNCHANGED <<input, session, run>>

(* done = true; cv.notify_all(); inter_server.shutdown().                  *)
SetDone(m) == /\ pc[m] = "run"
              /\ at[m].phase > Len(Phases)
              /\ pc' = [pc EXCEPT ![m] = "notify"]
              /\ done' = [done EXCEPT ![m] = TRUE]
              /\ UNCHANGED <<input, hand, ch_from_leader, run>>

NotifyDone(m) == /\ Goto(m, "notify", "shutdown")
                 /\ hand' = [hand EXCEPT ![m] = IF @ = "parked" THEN "test" ELSE @]
                 /\ UNCHANGED <<input, ch_from_leader, done, run>>

Shutdown(m) == /\ Goto(m, "shutdown", "returned")
               /\ hand[m] = "finished"
               /\ UNCHANGED <<input, session, run>>

(* The handler of the leader's stream.                                     *)

Publish(m) == /\ Hand(m, "entered", "published")
              /\ ch_from_leader' = [ch_from_leader EXCEPT ![m] = TRUE]
              /\ UNCHANGED <<input, pc, done, run>>

NotifyLeader(m) == /\ Hand(m, "published", "test")
                   /\ pc' = [pc EXCEPT ![m] = IF @ = "parked" THEN "test" ELSE @]
                   /\ UNCHANGED <<input, ch_from_leader, done, run>>

TestDone(m) == /\ IF done[m] THEN Hand(m, "test", "finished") ELSE Hand(m, "test", "block")
               /\ UNCHANGED <<input, pc, ch_from_leader, done, run>>

BlockHandler(m) == /\ Hand(m, "block", "parked")
                   /\ UNCHANGED <<input, pc, ch_from_leader, done, run>>

-----------------------------------------------------------------------------
(* EcMpsiMember::run, frame by frame.                                      *)

Gone(p) == pc[p] \in {"error", "crashed"}

(* Hashing into the stash bins divides by their number.  A party with less *)
(* than six elements dies of it: a member after it has sent its last       *)
(* point, the leader once it has received the last one.                    *)
Hashable(p) == Phase(p) = "table" => StashBins(Size(p)) > 0

(* The table is programmed at the member's own elements.                   *)
MemberSends(m) ==
    /\ Running(m) /\ Phase(m) \in FromMember
    /\ Hashable(m)
    /\ ~ Gone(Leader)
    /\ Len(up[m]) < Window
    /\ up' = [up EXCEPT ![m] = Append(@, Phase(m))]
    /\ table' = [table EXCEPT ![m] = IF Phase(m) = "table" THEN input[m] ELSE @]
    /\ at' = [at EXCEPT ![m] = Advance(m)]
    /\ UNCHANGED <<input, pc, session, down, result>>

MemberReceives(m) ==
    /\ Running(m) /\ Phase(m) \notin FromMember
    /\ down[m] # <<>>
    /\ down' = [down EXCEPT ![m] = Tail(@)]
    /\ at' = [at EXCEPT ![m] = Advance(m)]
    /\ UNCHANGED <<input, pc, session, up, table, result>>

DividesByZero(p) == /\ Running(p)
                    /\ ~ Hashable(p)
                    /\ pc' = [pc EXCEPT ![p] = "crashed"]
                    /\ UNCHANGED <<input, session, run>>

(* The leader's channels are gone: a read or write throws, and the         *)
(* handler is left waiting for `done`; in the thread that sends a table,   *)
(* the exception ends the process.                                         *)
MemberThrows(m) ==
    /\ Running(m)
    /\ Gone(Leader)
    /\ pc' = [pc EXCEPT ![m] = IF Phase(m) = "table" THEN "crashed" ELSE "stuck"]
    /\ UNCHANGED <<input, session, run>>

-----------------------------------------------------------------------------
(* runLeader and EcMpsiLeader::run.                                        *)

To == member_ids[at[Leader].to]

Submit == Goto(Leader, "off", "connect") /\ UNCHANGED <<input, session, run>>

(* One channel after the other; the handshake fails at once if the server  *)
(* of the member is not there, and the exception is answered.              *)
Connect ==
    /\ pc[Leader] = "connect"
    /\ IF pc[To] \in {"off", "crashed"}
       THEN /\ pc' = [pc EXCEPT ![Leader] = "error"]
            /\ UNCHANGED <<hand, at>>
       ELSE /\ hand' = [hand EXCEPT ![To] = "entered"]
            /\ IF at[Leader].to < Len(member_ids)
               THEN /\ at' = [at EXCEPT ![Leader].to = @ + 1]
                    /\ UNCHANGED pc
               ELSE /\ at' = [at EXCEPT ![Leader] = Begin]
                    /\ pc' = [pc EXCEPT ![Leader] = "run"]
    /\ UNCHANGED <<input, ch_from_leader, done, down, up, table, result>>

(* Mutant: the points of a filter are sent for the member's first element. *)
LeaderSendsOnce ==
    /\ Running(Leader) /\ Phase(Leader) \notin FromMember
    /\ pc[To] # "crashed"
    /\ Len(down[To]) < Window
    /\ down' = [down EXCEPT ![To] = Append(@, Phase(Leader))]
    /\ at' = [at EXCEPT ![Leader] =
                IF Phase(Leader) = "filter" /\ @.count = 0
                THEN [@ EXCEPT !.count = 2] ELSE Advance(Leader)]
    /\ UNCHANGED <<input, pc, session, up, table, result>>

LeaderSends ==
    /\ Running(Leader) /\ Phase(Leader) \notin FromMember
    /\ pc[To] # "crashed"
    /\ Len(down[To]) < Window
    /\ down' = [down EXCEPT ![To] = Append(@, Phase(Leader))]
    /\ at' = [at EXCEPT ![Leader] = Advance(Leader)]
    /\ UNCHANGED <<input, pc, session, up, table, result>>

(* Mutant: a point is copied out of whatever frame comes.                  *)
AcceptsAny(frame) == TRUE

(* recvPoint throws unless the frame has 32 bytes, recvSSTableBased unless *)
(* it has the rows that are due.  A point is less than a row; and a member *)
(* whose tables the leader waits for has as many elements as the leader,   *)
(* so its tables have as many rows (OnlyEqualSetsAreAnswered).             *)
Accepts(frame) == Phase(Leader) = "table" <=> ~ IsPoint(frame)

LeaderReceives ==
    /\ Running(Leader) /\ Phase(Leader) \in FromMember
    /\ Hashable(Leader)
    /\ up[To] # <<>>
    /\ Accepts(Head(up[To]))
    /\ up' = [up EXCEPT ![To] = Tail(@)]
    /\ at' = [at EXCEPT ![Leader] = Advance(Leader)]
    /\ UNCHANGED <<input, pc, session, down, table, result>>

(* Mutant: the last member's ciphertexts are not added.                    *)
AllButLastAnswer(e) == \A i \in 1..(Len(member_ids) - 1) : e \in table[member_ids[i]]

(* The sum of the members' ciphertexts for an element decrypts to the      *)
(* identity if each member answered for it, whatever the threshold is.     *)
AllAnswer(e) == \A m \in Members : e \in table[m]

Decrypt == /\ pc[Leader] = "run"
           /\ at[Leader].phase > Len(Phases)
           /\ result' = {e \in input[Leader] : AllAnswer(e)}
           /\ pc' = [pc EXCEPT ![Leader] = "close"]
           /\ at' = [at EXCEPT ![Leader].to = 1]
           /\ UNCHANGED <<input, session, down, up, table>>

(* ch->close() waits until the member's handler has returned.  Mutant: the *)
(* streams are half-closed, and their status not waited for.               *)
CloseAtOnce == /\ pc[Leader] = "close"
               /\ IF at[Leader].to < Len(member_ids)
                  THEN at' = [at EXCEPT ![Leader].to = @ + 1] /\ UNCHANGED pc
                  ELSE pc' = [pc EXCEPT ![Leader] = "done"] /\ UNCHANGED at
               /\ UNCHANGED <<input, session, down, up, table, result>>

Close == /\ pc[Leader] = "close"
         /\ hand[To] = "finished" \/ pc[To] = "crashed"
         /\ IF at[Leader].to < Len(member_ids)
            THEN at' = [at EXCEPT ![Leader].to = @ + 1] /\ UNCHANGED pc
            ELSE pc' = [pc EXCEPT ![Leader] = "done"] /\ UNCHANGED at
         /\ UNCHANGED <<input, session, down, up, table, result>>

(* A frame of the wrong kind, or a stream that has ended: STATUS_ERROR, or *)
(* std::terminate in the thread that receives a table.                     *)
LeaderThrows ==
    /\ Running(Leader)
    /\ \/ Phase(Leader) \notin FromMember /\ pc[To] = "crashed"
       \/ /\ Phase(Leader) \in FromMember /\ Hashable(Leader)
          /\ IF up[To] = <<>> THEN pc[To] = "crashed" ELSE ~ Accepts(Head(up[To]))
    /\ pc' = [pc EXCEPT ![Leader] = IF Phase(Leader) = "table" THEN "crashed" ELSE "error"]
    /\ UNCHANGED <<input, session, run>>

-----------------------------------------------------------------------------
Crash(p) == /\ pc[p] \notin {"off", "crashed", "returned", "done", "error"}
            /\ pc' = [pc EXCEPT ![p] = "crashed"]
            /\ UNCHANGED <<input, session, run>>

MainStep(m) == \/ StartServer(m) \/ TestLeader(m) \/ BlockMain(m)
               \/ MemberSends(m) \/ MemberReceives(m) \/ DividesByZero(m) \/ MemberThrows(m)
               \/ SetDone(m) \/ NotifyDone(m) \/ Shutdown(m)

HandlerStep(m) == /\ pc[m] # "crashed"
                  /\ Publish(m) \/ NotifyLeader(m) \/ TestDone(m) \/ BlockHandler(m)

LeaderStep == \/ Submit \/ Connect \/ LeaderSends \/ LeaderReceives
              \/ DividesByZero(Leader) \/ Decrypt \/ Close \/ LeaderThrows

Next == \/ LeaderStep
        \/ \E m \in Members : MainStep(m) \/ HandlerStep(m)
        \/ \E p \in Mortal : Crash(p)

Spec == Init /\ [][Next]_vars

(* Every thread of every process runs while it can.                        *)
Fairness == /\ WF_vars(LeaderStep)
            /\ \A m \in Members : WF_vars(MainStep(m)) /\ WF_vars(HandlerStep(m))

-----------------------------------------------------------------------------
(* Properties.                                                             *)

Answered == pc[Leader] \in {"close", "done"}

Holders(e) == {p \in Parties : e \in input[p]}

(* psi_service.proto: "elements in >= threshold parties are in the result".*)
(* Of the leader's own elements, those and no others.  It holds when the   *)
(* threshold is the number of the parties, and for no smaller one.         *)
ResultIsOverThreshold ==
    Answered => result = {e \in input[Leader] : Cardinality(Holders(e)) >= Threshold}

(* What the code answers instead, whatever the threshold of the request is.*)
ResultIsUnanimous ==
    Answered => result = {e \in input[Leader] : \A m \in Members : e \in input[m]}

(* A leader is answered only if all submitted equally many elements, at    *)
(* least six; every member then went through its whole run, and read and   *)
(* wrote every frame.                                                      *)
OnlyEqualSetsAreAnswered ==
    Answered => \A m \in Members : /\ Size(m) = Size(Leader)
                                   /\ StashBins(Size(m)) > 0
                                   /\ at[m].phase > Len(Phases)
                                   /\ down[m] = <<>> /\ up[m] = <<>>

(* Only a member with more or fewer elements than the leader takes a frame *)
(* for something that it is not; the leader never does.                    *)
OnlyUnequalSetsAreMistaken ==
    [][/\ LeaderReceives => Head(up[To]) = Phase(Leader)
       /\ \A m \in Members :
             MemberReceives(m) => \/ Head(down[m]) = Phase(m)
                                 \/ Size(m) # Size(Leader)]_vars

(* A waiter is blocked, what it waits for has happened, and the            *)
(* notification came too early.                                            *)
LostWakeup(m) == \/ pc[m] = "parked" /\ ch_from_leader[m] /\ hand[m] # "published"
                 \/ hand[m] = "parked" /\ done[m] /\ pc[m] # "notify"

(* A leader that submits is answered, or dies, unless a wake-up was lost   *)
(* or a member's set has another size.  Then each may wait for the other:  *)
(* a larger member for frames that nobody sends, a smaller one, which is   *)
(* ahead, for room in a stream.  (A member that throws leaves its stream   *)
(* open, but it throws only after the leader.)                             *)
LeaderEnds ==
    (pc[Leader] = "connect") ~>
        \/ pc[Leader] \in {"done", "error", "crashed"}
        \/ \E m \in Members : LostWakeup(m)
        \/ \E m \in Members : Size(m) # Size(Leader)

(* A leader that is answered leaves no member behind: close waited for     *)
(* their handlers.                                                         *)
MembersReturn ==
    (pc[Leader] = "done") ~> \A m \in Members : pc[m] \in {"returned", "crashed"}
=============================================================================
