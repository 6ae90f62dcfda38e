------------------------------- MODULE DhPsi -------------------------------
(***************************************************************************)
(* The two-party DH protocol (protocols/dhpsi/protocol/dh_psi.cpp) inside  *)
(* the member's session: every stream that carries the leader's            *)
(* certificate belongs to one call of runLeader (a client that tried again *)
(* with the same elements has two of them), and the member's Run is        *)
(* DhPsiMember::run on the stream its session handed over.                 *)
(*                                                                         *)
(* A point is an element with the set of scalars it is multiplied by,      *)
(* which is what makes the two orders of blinding agree; a token is the    *)
(* hash of a point, and distinct points have distinct hashes.  A count     *)
(* with its frames is one message: a stream that breaks inside a message   *)
(* loses it, and its receiver throws either way.                           *)
(*                                                                         *)
(* A leader that is through, or that throws, still closes its stream, and  *)
(* close() returns when the member's handler has.                          *)
(***************************************************************************)
EXTENDS DhMemberSession, Sequences, Functions

CONSTANTS
    Elements,
    Requests,              \* the elements of both parties: [leader |-> , member |-> ]
    MaxElements,           \* kMaxElements
    Fragile                \* the streams whose leader may end at any moment

LeaderStreams == {c \in Conns : Claim[c] \in Peers /\ CertMatches(c)}

ASSUME DhPsiAssumption ==
    /\ Requests \subseteq [leader : Seq(Elements), member : Seq(Elements)]
    /\ MaxElements \in Nat
    /\ Fragile \subseteq LeaderStreams

VARIABLES
    leaderElements, memberElements,
    leaderAt,              \* leaderAt[c]: where the leader's call with stream c is
    memberAt,              \* where DhPsiMember::run is
    leader_blinded,        \* the points it received
    toMember, toLeader,    \* toLeader[c]: what is on its way to the leader of c
    received,              \* received[c]: member_blinded of that call
    result                 \* result[c]: the positions of the elements that the
                           \* call returns, in their order

protocolVars == <<leaderElements, memberElements, leaderAt, memberAt,
                  leader_blinded, toMember, toLeader, received, result>>
psiVars == <<vars, protocolVars>>

-----------------------------------------------------------------------------
blindPoint(point, scalar) == [point EXCEPT !.by = @ \union {scalar}]
hashToPoint(e) == [element |-> e, by |-> {}]
blindElements(elements, scalar) == [i \in DOMAIN elements |-> blindPoint(hashToPoint(elements[i]), scalar)]
tokensForPoints(points, scalar) == [i \in DOMAIN points |-> blindPoint(points[i], scalar)]

(* Mutant: the tokens already emitted are not remembered.                  *)
EmittedEveryTime(tokens, member_tokens) == {i \in DOMAIN tokens : tokens[i] \in Range(member_tokens)}

(* The positions of the leader's elements that enter the result.           *)
Emitted(tokens, member_tokens) ==
    {i \in DOMAIN tokens : /\ tokens[i] \in Range(member_tokens)
                           /\ \A j \in 1..(i - 1) : tokens[j] # tokens[i]}

-----------------------------------------------------------------------------
(* The leader's calls.                                                     *)

Closing == {"closing", "closingThrow"}
LeaderEnded(c) == leaderAt[c] \in {"returned", "thrown", "gone"}

(* WritesDone(), or the end of the leader's process: the member's reads    *)
(* fail once it has taken what is still on its way.                        *)
WritesDone(c) == leaderAt[c] \in Closing \/ LeaderEnded(c)

LeaderMove(c, from, to) == leaderAt[c] = from /\ leaderAt' = [leaderAt EXCEPT ![c] = to]

(* The server has answered the call with its status.                       *)
HandlerOver(c) == at[c] \in {"refused", "finished"}

LeaderSend(c) ==
    /\ at[c] \notin {"away", "opened"}
    /\ \/ /\ Len(leaderElements) <= MaxElements
          /\ LeaderMove(c, "start", "points")
          /\ toMember' = [toMember EXCEPT ![c] = Append(@, blindElements(leaderElements, c))]
       \/ /\ Len(leaderElements) > MaxElements
          /\ LeaderMove(c, "start", "closingThrow")
          /\ UNCHANGED toMember
    /\ UNCHANGED <<vars, leaderElements, memberElements, memberAt, leader_blinded, toLeader, received, result>>

LeaderReceivePoints(c) ==
    /\ toLeader[c] # <<>>
    /\ LeaderMove(c, "points", "tokens")
    /\ received' = [received EXCEPT ![c] = Head(toLeader[c])]
    /\ toLeader' = [toLeader EXCEPT ![c] = Tail(@)]
    /\ UNCHANGED <<vars, leaderElements, memberElements, memberAt, leader_blinded, toMember, result>>

LeaderReceiveTokens(c) ==
    /\ toLeader[c] # <<>>
    /\ LET tokens == Head(toLeader[c])
           complete == Len(tokens) = Len(leaderElements)
       IN /\ LeaderMove(c, "tokens", IF complete THEN "closing" ELSE "closingThrow")
          /\ result' = [result EXCEPT ![c] =
                IF complete THEN Emitted(tokens, tokensForPoints(received[c], c)) ELSE @]
    /\ toLeader' = [toLeader EXCEPT ![c] = Tail(@)]
    /\ UNCHANGED <<vars, leaderElements, memberElements, memberAt, leader_blinded, toMember, received>>

(* A write or a read on a stream that was refused, or whose handler        *)
(* returned.                                                               *)
LeaderCallFails(c) ==
    /\ toLeader[c] = <<>>
    /\ HandlerOver(c)
    /\ \/ LeaderMove(c, "start", "closingThrow")
       \/ LeaderMove(c, "points", "closingThrow")
       \/ LeaderMove(c, "tokens", "closingThrow")
    /\ UNCHANGED <<vars, leaderElements, memberElements, memberAt, leader_blinded, toMember, toLeader, received, result>>

(* channel.close(), on both paths: Finish() waits until all that was sent  *)
(* to the leader is read and the handler's status is there.                *)
LeaderCloses(c) ==
    /\ toLeader[c] = <<>>
    /\ HandlerOver(c)
    /\ \/ LeaderMove(c, "closing", "returned")
       \/ LeaderMove(c, "closingThrow", "thrown")
    /\ UNCHANGED <<vars, leaderElements, memberElements, memberAt, leader_blinded, toMember, toLeader, received, result>>

(* The leader's process ends: what it sent may be lost.                    *)
LeaderBreaks(c) ==
    /\ c \in Fragile
    /\ at[c] # "away"
    /\ ~ LeaderEnded(c)
    /\ leaderAt' = [leaderAt EXCEPT ![c] = "gone"]
    /\ \E kept \in {toMember[c], <<>>} : toMember' = [toMember EXCEPT ![c] = kept]
    /\ UNCHANGED <<vars, leaderElements, memberElements, memberAt, leader_blinded, toLeader, received, result>>

-----------------------------------------------------------------------------
(* DhPsiMember::run, on leader_channel.                                    *)

MemberMove(from, to) == pc = "run" /\ memberAt = from /\ memberAt' = to

MemberReceive ==
    /\ pc = "run"
    /\ toMember[leader_channel] # <<>>
    /\ MemberMove("receive", "sendPoints")
    /\ leader_blinded' = Head(toMember[leader_channel])
    /\ toMember' = [toMember EXCEPT ![leader_channel] = Tail(@)]
    /\ UNCHANGED <<vars, leaderElements, memberElements, leaderAt, toLeader, received, result>>

MemberReadFails ==
    /\ pc = "run"
    /\ toMember[leader_channel] = <<>> /\ WritesDone(leader_channel)
    /\ MemberMove("receive", "failed")
    /\ UNCHANGED <<vars, leaderElements, memberElements, leaderAt, leader_blinded, toMember, toLeader, received, result>>

SendToLeader(message, from, to) ==
    /\ MemberMove(from, to)
    /\ toLeader' = [toLeader EXCEPT ![leader_channel] = Append(@, message)]
    /\ UNCHANGED <<vars, leaderElements, memberElements, leaderAt, leader_blinded, toMember, received, result>>

MemberSendPoints ==
    /\ Len(memberElements) <= MaxElements
    /\ SendToLeader(blindElements(memberElements, Main), "sendPoints", "sendTokens")

MemberSendTokens == SendToLeader(tokensForPoints(leader_blinded, Main), "sendTokens", "ended")

(* Too many elements, or a write to a leader that is gone.                 *)
MemberSendFails ==
    /\ \/ MemberMove("sendPoints", "failed")
       \/ MemberMove("sendTokens", "failed")
    /\ \/ leaderAt[leader_channel] = "gone"
       \/ memberAt = "sendPoints" /\ Len(memberElements) > MaxElements
    /\ UNCHANGED <<vars, leaderElements, memberElements, leaderAt, leader_blinded, toMember, toLeader, received, result>>

-----------------------------------------------------------------------------
(* The session with its protocol: Run ends as DhPsiMember::run does.       *)

SessionNext == /\ Next
               /\ pc = "run" /\ pc' # "run" =>
                    memberAt = (IF pc' = "release" THEN "ended" ELSE "failed")
               /\ UNCHANGED protocolVars

PsiInit == /\ Init
           /\ \E r \in Requests : leaderElements = r.leader /\ memberElements = r.member
           /\ leaderAt = [c \in LeaderStreams |-> "start"]
           /\ memberAt = "receive"
           /\ leader_blinded = <<>>
           /\ toMember = [c \in LeaderStreams |-> <<>>]
           /\ toLeader = [c \in LeaderStreams |-> <<>>]
           /\ received = [c \in LeaderStreams |-> <<>>]
           /\ result = [c \in LeaderStreams |-> {}]

LeaderStep(c) == \/ LeaderSend(c) \/ LeaderReceivePoints(c) \/ LeaderReceiveTokens(c)
                 \/ LeaderCallFails(c) \/ LeaderCloses(c)

MemberRuns == \/ MemberReceive \/ MemberReadFails
              \/ MemberSendPoints \/ MemberSendTokens \/ MemberSendFails

PsiNext == \/ SessionNext
           \/ \E c \in LeaderStreams : LeaderStep(c) \/ LeaderBreaks(c)
           \/ MemberRuns

PsiSpec == PsiInit /\ [][PsiNext]_psiVars

(* Threads run, and the mutex does not starve a thread that wants it again *)
(* and again: a thread has one step to take at a time, so strong fairness  *)
(* of the thread says both.  Streams reach the server and say who they     *)
(* are or break, and leaders go on.                                        *)
PsiFairSpec ==
    /\ PsiSpec
    /\ SF_psiVars((MainStep /\ SessionNext) \/ MemberRuns)
    /\ \A c \in Conns : /\ SF_psiVars(HandlerStep(c) /\ SessionNext)
                        /\ WF_psiVars((RouteStep(c) \/ PeerStep(c)) /\ SessionNext)
    /\ \A c \in LeaderStreams : WF_psiVars(LeaderStep(c))

-----------------------------------------------------------------------------
(* A leader that returns returns each common element once, whatever is     *)
(* repeated in its own request or in the member's, and only if the member  *)
(* finished on this very stream.                                           *)
ResultIsIntersection ==
    \A c \in LeaderStreams : leaderAt[c] = "returned" =>
        /\ {leaderElements[i] : i \in result[c]} = Range(leaderElements) \intersect Range(memberElements)
        /\ \A i, j \in result[c] : leaderElements[i] = leaderElements[j] => i = j
        /\ c = leader_channel /\ memberAt = "ended"

(* No leader waits for ever once its stream is open, for points, for       *)
(* tokens or for the end of the member's handler in close(): neither the   *)
(* one that is refused, nor the one whose member throws.                   *)
LeaderEnds == \A c \in LeaderStreams : at[c] # "away" ~> LeaderEnded(c)
=============================================================================
