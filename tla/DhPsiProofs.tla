---------------------------- MODULE DhPsiProofs ----------------------------
(***************************************************************************)
(* Type correctness, safety and wake-ups of the DH member's session, for   *)
(* every number of streams that clients may open; that the session with    *)
(* the DH protocol inside it has the same behaviours; and what a leader of *)
(* the protocol returns, for all elements of both parties, in every        *)
(* interleaving of its calls, the member's session and the failures.       *)
(***************************************************************************)
EXTENDS DhPsi, TLAPS, SequenceTheorems, WellFoundedInduction

Leaving == {"notify", "shutdown", "drain", "returned",
            "notifyThrow", "shutdownThrow", "drainThrow", "thrown"}

Published == {"published", "lock", "test", "block", "parked", "finished"}

(* Streams that took the handler, which is there once.                     *)
Taken == {c \in Conns : at[c] \in Published \union {"entered"}}

TakenInv == /\ handlers \subseteq Peers
            /\ \A c \in Taken : /\ CertMatches(c)
                                /\ Claim[c] \in Peers
                                /\ Claim[c] \notin handlers
                                /\ \A d \in Taken : Claim[c] = Claim[d] => c = d

(* leader_channel is the stream of the one handler that published.         *)
ChannelInv == /\ connected => leader_channel \in Conns /\ at[leader_channel] \in Published
              /\ ~ connected => leader_channel = NoConn
              /\ \A c \in Conns : at[c] \in Published => connected /\ leader_channel = c

(* Main passes its wait only when the leader is connected.                 *)
PassedInv == ~ Awaiting => connected

(* The handler leaves only after `done`, which Main sets after the run.    *)
DoneInv == /\ done => pc \in Leaving
           /\ \A c \in Conns : at[c] = "finished" => done

ServerInv == /\ pc \in {"expect", "start"} =>
                   server = "off" /\ \A c \in Conns : at[c] = "away"
             /\ pc \in {"drain", "drainThrow"} => server # "listening"
             /\ Answered => server # "listening" /\ Drained

(* Who tests a flag, and whoever saw it false and has not blocked yet,     *)
(* holds the mutex; who blocks is parked.                                  *)
MutexInv == /\ pc \in {"test", "block"} => mu = Main
            /\ pc = "block" => ~ connected
            /\ Main \in waiting => pc = "parked"
            /\ \A c \in Conns : /\ at[c] \in {"test", "block"} => mu = c
                                /\ at[c] = "block" => ~ done
                                /\ c \in waiting => at[c] = "parked"

IInv == /\ TypeOK
        /\ TakenInv
        /\ ChannelInv
        /\ PassedInv
        /\ DoneInv
        /\ ServerInv
        /\ MutexInv
        /\ NoLostWakeup

-----------------------------------------------------------------------------
(* The variables keep their types.                                         *)
LEMMA TypeStep == TypeOK /\ [Next]_vars => TypeOK'
<1> SUFFICES ASSUME TypeOK, [Next]_vars PROVE TypeOK'
  OBVIOUS
<1> USE DEF TypeOK, Outside, InHandler
<1>1. CASE MainStep
  <2>1. CASE Expect \/ StartServer \/ Shutdown \/ Return
    BY <2>1 DEF Expect, StartServer, Shutdown, Return, Goto, ExpectParty, Start, BeginShutdown,
       monitorVars, serverVars
  <2>2. CASE MainLock \/ MainTest \/ MainBlock
    BY <2>2 DEF MainLock, MainTest, MainBlock, Goto, CriticalSection, Lock, Unlock, Block,
       monitorVars, serverVars
  <2>3. CASE Run \/ SetDone \/ NotifyDone
    BY <2>3 DEF Run, SetDone, NotifyDone, Goto, CriticalSection, Lock, Unlock, NotifyAll,
       monitorVars, serverVars
  <2> QED
    BY <1>1, <2>1, <2>2, <2>3 DEF MainStep
<1>2. ASSUME NEW c \in Conns, HandlerStep(c) PROVE TypeOK'
  <2>1. CASE Publish(c) \/ Notify(c)
    BY <2>1 DEF Publish, Notify, Move, CriticalSection, Lock, Unlock, NotifyAll, monitorVars, sessionVars
  <2>2. CASE HandlerLock(c) \/ HandlerTest(c) \/ HandlerBlock(c)
    BY <2>2 DEF HandlerLock, HandlerTest, HandlerBlock, Move, CriticalSection, Lock, Unlock, Block,
       monitorVars, sessionVars
  <2> QED
    BY <1>2, <2>1, <2>2 DEF HandlerStep
<1>3. ASSUME NEW c \in Conns, RouteStep(c) \/ PeerStep(c) PROVE TypeOK'
  BY <1>3 DEF RouteStep, PeerStep, Refuse, Accept, Connect, Greet, Break, Move, monitorVars, sessionVars
<1>4. CASE Wake
  BY <1>4 DEF Wake, SpuriousWake, serverVars, sessionVars
<1>5. CASE Idle \/ UNCHANGED vars
  BY <1>5 DEF Idle, vars
<1> QED
  BY <1>1, <1>2, <1>3, <1>4, <1>5 DEF Next

(* There is one leader, so one stream at most takes a handler.             *)
LEMMA OneTaken ==
  ASSUME TakenInv, NEW c \in Taken, NEW d \in Taken
  PROVE  c = d
  BY DhSessionAssumption DEF TakenInv

(* The steps of Main preserve the invariant.                               *)
LEMMA MainPreserves == IInv /\ TypeOK' /\ MainStep => IInv'
<1> SUFFICES ASSUME IInv, TypeOK', MainStep PROVE IInv'
  OBVIOUS
<1> USE DEF IInv
<1>1. at' = at /\ leader_channel' = leader_channel /\ connected' = connected
  BY DEF MainStep, Expect, StartServer, MainLock, MainTest, MainBlock, Run, SetDone,
         NotifyDone, Shutdown, Return, serverVars
<1>2. ChannelInv' /\ Taken' = Taken
  BY <1>1 DEF ChannelInv, Taken
<1>3. TakenInv'
  <2>1. CASE Expect
    <3>1. Taken = {}
      BY <2>1 DEF Expect, Goto, ServerInv, Taken, Published
    <3> QED
      BY <2>1, <3>1, <1>2 DEF Expect, ExpectParty, TakenInv
  <2>2. CASE ~ Expect
    <3>1. handlers' = handlers
      BY <2>2 DEF MainStep, StartServer, MainLock, MainTest, MainBlock, Run, SetDone,
                  NotifyDone, Shutdown, Return, serverVars
    <3> QED
      BY <3>1, <1>2 DEF TakenInv, CertMatches
  <2> QED
    BY <2>1, <2>2
<1>4. PassedInv'
  BY <1>1 DEF MainStep, Expect, StartServer, MainLock, MainTest, MainBlock, Run, SetDone,
              NotifyDone, Shutdown, Return, Goto, Awaiting, PassedInv
<1>5. DoneInv'
  BY <1>1 DEF MainStep, Expect, StartServer, MainLock, MainTest, MainBlock, Run, SetDone,
              NotifyDone, Shutdown, Return, Goto, DoneInv, Leaving
<1>6. ServerInv'
  BY <1>1 DEF MainStep, Expect, StartServer, MainLock, MainTest, MainBlock, Run, SetDone,
              NotifyDone, Shutdown, Return, Goto, ServerInv, Answered, Drained,
              BeginShutdown, Start, serverVars
<1>7. MutexInv' /\ NoLostWakeup'
  <2>1. CASE MainLock \/ MainTest \/ MainBlock
    BY <1>1, <2>1, DhSessionAssumption
    DEF MainLock, MainTest, MainBlock, Goto, Lock, Unlock, Block, MutexInv, NoLostWakeup,
        TypeOK, DoneInv, Leaving, monitorVars
  <2>2. CASE SetDone
    BY <1>1, <2>2, DhSessionAssumption
    DEF SetDone, Goto, CriticalSection, MutexInv, NoLostWakeup, TypeOK, monitorVars
  <2>3. CASE NotifyDone
    BY <1>1, <2>3, DhSessionAssumption
    DEF NotifyDone, Goto, NotifyAll, MutexInv, NoLostWakeup, TypeOK
  <2>4. CASE Expect \/ StartServer \/ Run \/ Shutdown \/ Return
    <3>1. UNCHANGED <<mu, waiting, done>> /\ pc # "parked" /\ pc' \notin {"test", "block"}
          /\ pc \notin {"notify", "notifyThrow"}
      BY <2>4 DEF Expect, StartServer, Run, Shutdown, Return, Goto, monitorVars
    <3> QED
      BY <1>1, <3>1 DEF MutexInv, NoLostWakeup
  <2> QED
    BY <2>1, <2>2, <2>3, <2>4 DEF MainStep
<1> QED
  BY <1>2, <1>3, <1>4, <1>5, <1>6, <1>7

(* The steps of the handler preserve the invariant.                        *)
LEMMA HandlerPreserves ==
  ASSUME NEW c \in Conns
  PROVE  IInv /\ TypeOK' /\ HandlerStep(c) => IInv'
<1> SUFFICES ASSUME IInv, TypeOK', HandlerStep(c) PROVE IInv'
  OBVIOUS
<1> USE DEF IInv
<1>1. pc' = pc /\ server' = server /\ handlers' = handlers /\ done' = done
  BY DEF HandlerStep, Publish, Notify, HandlerLock, HandlerTest, HandlerBlock, sessionVars
<1>2. PICK to \in Published : at' = [at EXCEPT ![c] = to] /\ (to = "finished" => done)
  BY DEF HandlerStep, Publish, Notify, HandlerLock, HandlerTest, HandlerBlock, Move, Published
<1>3. c \in Taken
  BY DEF HandlerStep, Publish, Notify, HandlerLock, HandlerTest, HandlerBlock, Move,
         Published, Taken
<1>4. Taken' = Taken
  BY <1>2, <1>3 DEF Taken, TypeOK
<1>5. TakenInv'
  BY <1>1, <1>4 DEF TakenInv, CertMatches
<1>6. \A d \in Conns \ {c} : at[d] \notin Published \union {"entered"}
  BY <1>3, OneTaken DEF Taken
<1>7. connected' /\ leader_channel' = c
  <2>1. CASE Publish(c)
    BY <2>1 DEF Publish
  <2>2. CASE ~ Publish(c)
    <3>1. at[c] \in Published /\ connected' = connected /\ leader_channel' = leader_channel
      BY <2>2 DEF HandlerStep, Notify, HandlerLock, HandlerTest, HandlerBlock, Move,
                  Published, sessionVars
    <3> QED
      BY <3>1 DEF ChannelInv
  <2> QED
    BY <2>1, <2>2
<1>8. ChannelInv' /\ PassedInv'
  BY <1>1, <1>2, <1>6, <1>7 DEF ChannelInv, PassedInv, Awaiting, TypeOK
<1>9. DoneInv'
  BY <1>1, <1>2 DEF DoneInv, TypeOK
<1>10. ServerInv'
  BY <1>1, <1>3 DEF ServerInv, Answered, Drained, Taken, Published, DoneInv, Outside,
     HandlerStep, Publish, Notify, HandlerLock, HandlerTest, HandlerBlock, Move
<1>11. MutexInv' /\ NoLostWakeup'
  <2> USE DhSessionAssumption
  <2>1. CASE Publish(c)
    BY <1>1, <1>2, <1>6, <2>1 DEF Publish, Move, CriticalSection, monitorVars, MutexInv,
       NoLostWakeup, TypeOK, Published
  <2>2. CASE Notify(c)
    BY <1>1, <2>2 DEF Notify, Move, NotifyAll, sessionVars, MutexInv, NoLostWakeup, TypeOK
  <2>3. CASE HandlerLock(c) \/ HandlerTest(c) \/ HandlerBlock(c)
    <3>1. connected' = connected /\ at[c] # "published" /\ waiting' \subseteq waiting \union {c}
      BY <2>3 DEF HandlerLock, HandlerTest, HandlerBlock, Lock, Unlock, Block, Move,
                  monitorVars, sessionVars
    <3>2. MutexInv'
      BY <1>1, <2>3, <3>1 DEF HandlerLock, HandlerTest, HandlerBlock, Lock, Unlock, Block,
         Move, MutexInv, TypeOK, monitorVars, sessionVars
    <3>3. NoLostWakeup'
      <4>1. \A d \in Conns : at[d] = "published" => at'[d] = "published"
        BY <1>2, <3>1 DEF TypeOK
      <4>2. done => c \notin waiting' \/ c \in waiting
        BY <2>3 DEF HandlerLock, HandlerTest, HandlerBlock, Lock, Unlock, Move, MutexInv,
                    monitorVars
      <4>3. Main \in waiting' => Main \in waiting
        BY <3>1
      <4> QED
        BY <1>1, <3>1, <4>1, <4>2, <4>3 DEF NoLostWakeup
    <3> QED
      BY <3>2, <3>3
  <2> QED
    BY <2>1, <2>2, <2>3 DEF HandlerStep
<1> QED
  BY <1>5, <1>8, <1>9, <1>10, <1>11

(* The steps of the server that routes a stream preserve the invariant.    *)
LEMMA RoutingPreserves ==
  ASSUME NEW c \in Conns
  PROVE  IInv /\ TypeOK' /\ (RouteStep(c) \/ PeerStep(c)) => IInv'
<1> SUFFICES ASSUME IInv, TypeOK', RouteStep(c) \/ PeerStep(c) PROVE IInv'
  OBVIOUS
<1> USE DEF IInv
<1>1. UNCHANGED <<mu, waiting, pc, leader_channel, connected, done, server>>
  BY DEF RouteStep, PeerStep, Refuse, Accept, Connect, Greet, Break, sessionVars, monitorVars
<1>2. PICK to \in {"opened", "greeted", "refused", "entered"} : at' = [at EXCEPT ![c] = to]
  BY DEF RouteStep, PeerStep, Refuse, Accept, Connect, Greet, Break, Move
<1>3. at[c] \in {"away", "opened", "greeted"}
  BY DEF RouteStep, PeerStep, Refuse, Accept, Connect, Greet, Break, Move
<1>4. TakenInv'
  <2>1. CASE Accept(c)
    <3>1. Taken' = Taken \union {c} /\ handlers' = handlers \ {Claim[c]}
      BY <2>1 DEF Accept, Move, Taken, Published, TypeOK
    <3> QED
      BY <2>1, <3>1 DEF TakenInv, Accept, CertMatches, TypeOK
  <2>2. CASE ~ Accept(c)
    <3>1. Taken' = Taken /\ handlers' = handlers
      BY <2>2 DEF RouteStep, PeerStep, Refuse, Connect, Greet, Break, Move, Taken, Published, TypeOK
    <3> QED
      BY <3>1 DEF TakenInv, CertMatches
  <2> QED
    BY <2>1, <2>2
<1>5. ChannelInv' /\ PassedInv'
  BY <1>1, <1>2, <1>3 DEF ChannelInv, PassedInv, Awaiting, Published, TypeOK
<1>6. DoneInv'
  BY <1>1, <1>2 DEF DoneInv, TypeOK
<1>7. ServerInv'
  BY <1>1, <1>2, <1>3 DEF ServerInv, Answered, Drained, Outside, TypeOK,
     RouteStep, PeerStep, Refuse, Accept, Connect, Greet, Break, Move
<1>8. MutexInv' /\ NoLostWakeup'
  BY <1>1, <1>2, <1>3 DEF MutexInv, NoLostWakeup, TypeOK
<1> QED
  BY <1>4, <1>5, <1>6, <1>7, <1>8

(* Every reachable state of a session satisfies the invariant.             *)
THEOREM Invariance == Spec => []IInv
<1>1. Init => IInv
  <2> SUFFICES ASSUME Init PROVE IInv
    OBVIOUS
  <2> USE DhSessionAssumption DEF Init, MonitorInit, ServerInit
  <2>1. TypeOK /\ Taken = {}
    BY DEF TypeOK, Outside, Taken, Published
  <2> QED
    BY <2>1 DEF IInv, TakenInv, ChannelInv, PassedInv, Awaiting, DoneInv, ServerInv, Answered,
                MutexInv, NoLostWakeup, Published
<1>2. IInv /\ [Next]_vars => IInv'
  <2> SUFFICES ASSUME IInv, [Next]_vars PROVE IInv'
    OBVIOUS
  <2>1. TypeOK'
    BY TypeStep DEF IInv
  <2>2. CASE MainStep
    BY <2>1, <2>2, MainPreserves
  <2>3. ASSUME NEW c \in Conns, HandlerStep(c) \/ RouteStep(c) \/ PeerStep(c) PROVE IInv'
    BY <2>1, <2>3, HandlerPreserves, RoutingPreserves
  <2>4. CASE Wake \/ Idle \/ UNCHANGED vars
    <3>1. /\ UNCHANGED <<mu, server, handlers, at, pc, leader_channel, connected, done>>
          /\ waiting' \subseteq waiting
      BY <2>4 DEF Wake, SpuriousWake, Idle, vars, serverVars, sessionVars
    <3> QED
      BY <2>1, <3>1 DEF IInv, TakenInv, Taken, ChannelInv, PassedInv, Awaiting, DoneInv,
         ServerInv, Answered, Drained, CertMatches, MutexInv, NoLostWakeup
  <2> QED
    BY <2>2, <2>3, <2>4 DEF Next
<1> QED
  BY <1>1, <1>2, PTL DEF Spec

-----------------------------------------------------------------------------
(* The variables of the session keep their types.                          *)
THEOREM TypeCorrect == Spec => []TypeOK
<1>1. IInv => TypeOK
  BY DEF IInv
<1> QED
  BY <1>1, Invariance, PTL

(* member.run, its catch clause included, has an open stream of the leader,*)
(* and runMember leaves no handler thread behind, however it leaves.       *)
THEOREM LocalsAreThere == Spec => []LocalsOutliveUse
<1>1. IInv => LocalsOutliveUse
  <2>1. ASSUME IInv, pc \in {"run", "release", "catch"}
        PROVE  /\ leader_channel \in Open
               /\ Claim[leader_channel] \in Peers
               /\ CertMatches(leader_channel)
    <3>1. leader_channel \in Conns /\ at[leader_channel] \in Published
      BY <2>1 DEF IInv, PassedInv, Awaiting, ChannelInv
    <3>2. at[leader_channel] # "finished"
      BY <2>1, <3>1 DEF IInv, DoneInv, Leaving
    <3> QED
      BY <2>1, <3>1, <3>2 DEF IInv, TakenInv, Taken, Open, Outside, Published
  <2>2. ASSUME IInv, Answered PROVE Open = {}
    BY <2>2 DEF IInv, ServerInv, Drained, Open, Outside
  <2> QED
    BY <2>1, <2>2 DEF LocalsOutliveUse
<1> QED
  BY <1>1, Invariance, PTL

(* Flags written inside the mutex lose no wake-up: whoever waits for a     *)
(* flag that is set is about to be notified.                               *)
THEOREM NoWakeupIsLost == Spec => []NoLostWakeup
<1>1. IInv => NoLostWakeup
  BY DEF IInv
<1> QED
  BY <1>1, Invariance, PTL

-----------------------------------------------------------------------------
(* The session implements the safety part of the abstract rendezvous.      *)
THEOREM SessionIsRendezvous == Spec => R!Spec
<1>1. Init => R!Init
  BY DEF Init, R!Init, stage, Awaiting, attached
<1>2. IInv /\ [Next]_vars => [R!Next]_R!vars
  <2> SUFFICES ASSUME IInv, [Next]_vars PROVE R!Next \/ UNCHANGED R!vars
    OBVIOUS
  <2>1. CASE MainStep
    <3>1. attached' = attached
      BY <2>1 DEF attached, MainStep, Expect, StartServer, MainLock, MainTest, MainBlock,
                  Run, SetDone, NotifyDone, Shutdown, Return
    <3>2. CASE MainTest /\ pc' = "run"
      <4>1. stage = "awaiting" /\ stage' = "running"
        BY <3>2 DEF MainTest, Goto, stage, Awaiting
      <4>2. attached = Peers
        BY <3>2, DhSessionAssumption DEF MainTest, Goto, IInv, ChannelInv, attached
      <4> QED
        BY <3>1, <4>1, <4>2 DEF R!Next, R!Run
    <3>3. CASE ~ (MainTest /\ pc' = "run")
      BY <2>1, <3>1, <3>3
      DEF MainStep, Expect, StartServer, MainLock, MainTest, MainBlock, Run, SetDone,
          NotifyDone, Shutdown, Return, Goto, stage, Awaiting, Answered, R!Next, R!Release,
          R!Answer, R!vars
    <3> QED
      BY <3>2, <3>3
  <2>2. ASSUME NEW c \in Conns, HandlerStep(c) PROVE R!Next \/ UNCHANGED R!vars
    <3>1. stage' = stage
      BY <2>2 DEF HandlerStep, Publish, Notify, HandlerLock, HandlerTest, HandlerBlock,
                  sessionVars, stage, Awaiting, Answered
    <3>2. CASE Publish(c)
      <4>1. c \in Taken /\ at[c] = "entered" /\ Claim[c] \in Peers
        BY <3>2 DEF Publish, Move, IInv, TakenInv, Taken
      <4>2. ~ connected
        BY <4>1, OneTaken DEF IInv, ChannelInv, Taken, Published
      <4>3. stage = "awaiting" /\ attached = {}
        BY <4>2 DEF IInv, PassedInv, ChannelInv, stage, attached
      <4>4. attached' = attached \union {Claim[c]}
        BY <3>2, <4>1, <4>3, DhSessionAssumption DEF Publish, attached
      <4> QED
        BY <3>1, <4>1, <4>3, <4>4 DEF R!Next, R!Attach
    <3>3. CASE ~ Publish(c)
      BY <2>2, <3>1, <3>3 DEF HandlerStep, Notify, HandlerLock, HandlerTest, HandlerBlock,
         sessionVars, attached, R!vars
    <3> QED
      BY <3>2, <3>3
  <2>3. CASE Wake \/ Idle \/ UNCHANGED vars
             \/ \E c \in Conns : RouteStep(c) \/ PeerStep(c)
    BY <2>3 DEF Wake, Idle, vars, RouteStep, PeerStep, sessionVars, attached, stage, Awaiting,
                Answered, R!vars
  <2> QED
    BY <2>1, <2>2, <2>3 DEF Next
<1> QED
  BY <1>1, <1>2, Invariance, PTL DEF Spec, R!Spec

-----------------------------------------------------------------------------
(* The session with the DH protocol inside it is a session: what holds of  *)
(* every session holds with any elements, messages and failures.           *)
THEOREM PsiIsSession == PsiSpec => Spec
<1>1. PsiInit => Init
  BY DEF PsiInit
<1>2. [PsiNext]_psiVars => [Next]_vars
  <2> SUFFICES ASSUME PsiNext \/ UNCHANGED psiVars PROVE Next \/ UNCHANGED vars
    OBVIOUS
  <2>1. CASE SessionNext
    BY <2>1 DEF SessionNext
  <2>2. ASSUME NEW c \in LeaderStreams, LeaderStep(c) \/ LeaderBreaks(c) PROVE UNCHANGED vars
    BY <2>2 DEF LeaderStep, LeaderSend, LeaderReceivePoints, LeaderReceiveTokens,
                LeaderCallFails, LeaderCloses, LeaderBreaks
  <2>3. CASE MemberRuns
    BY <2>3 DEF MemberRuns, MemberReceive, MemberReadFails, MemberSendPoints,
                MemberSendTokens, MemberSendFails, SendToLeader
  <2>4. CASE UNCHANGED psiVars
    BY <2>4 DEF psiVars
  <2> QED
    BY <2>1, <2>2, <2>3, <2>4 DEF PsiNext
<1> QED
  BY <1>1, <1>2, PTL DEF PsiSpec, Spec

-----------------------------------------------------------------------------
(* Points are equal when their elements and their scalars are.             *)
LEMMA PointEquality ==
  ASSUME NEW d, NEW e, NEW s, NEW t
  PROVE  /\ blindPoint([element |-> e, by |-> s], t) = [element |-> e, by |-> s \union {t}]
         /\ [element |-> d, by |-> s] = [element |-> e, by |-> s] <=> d = e
<1>1. [element |-> d, by |-> s].element = d /\ [element |-> e, by |-> s].element = e
  OBVIOUS
<1> QED
  BY <1>1 DEF blindPoint

(* The streams of one or two messages, and how they grow.                  *)
LEMMA ShortStreams ==
  ASSUME NEW a, NEW b
  PROVE  /\ <<a>> # <<>> /\ <<a, b>> # <<>> /\ <<a>> # <<a, b>>
         /\ Append(<<>>, a) = <<a>> /\ Append(<<a>>, b) = <<a, b>>
<1>1. <<a>> # <<>> /\ <<a, b>> # <<>> /\ <<a>> # <<a, b>>
  <2>1. Len(<<a>>) = 1 /\ Len(<<a, b>>) = 2 /\ Len(<<>>) = 0
    OBVIOUS
  <2> QED
    BY <2>1
<1>2. Append(<<>>, a) = <<a>>
  <2>1. <<>> \in Seq({a}) /\ <<a>> \in Seq({a})
    OBVIOUS
  <2> QED
    BY <2>1, AppendIsConcat, ConcatEmptySeq
<1>3. Append(<<a>>, b) = <<a, b>>
  <2>1. <<a>> \in Seq({a, b}) /\ <<a, b>> \in Seq({a, b}) /\ Append(<<a>>, b) \in Seq({a, b})
    OBVIOUS
  <2>2. /\ Len(Append(<<a>>, b)) = 2 /\ Len(<<a, b>>) = 2
        /\ Append(<<a>>, b)[1] = a /\ Append(<<a>>, b)[2] = b
    <3>1. Len(<<a>>) = 1 /\ <<a>>[1] = a /\ Len(<<a, b>>) = 2
      OBVIOUS
    <3>2. a \in {a, b} /\ b \in {a, b} /\ 1 \in 1..1 /\ 1 + 1 = 2
      OBVIOUS
    <3>3. Len(Append(<<a>>, b)) = Len(<<a>>) + 1 /\ Append(<<a>>, b)[Len(<<a>>) + 1] = b
      BY <2>1, <3>2, AppendProperties
    <3>4. \A i \in 1..Len(<<a>>) : Append(<<a>>, b)[i] = <<a>>[i]
      BY <2>1, <3>2, AppendProperties
    <3> QED
      BY <3>1, <3>2, <3>3, <3>4
  <2>3. \A i \in 1..2 : Append(<<a>>, b)[i] = <<a, b>>[i]
    BY <2>2
  <2> QED
    BY <2>1, <2>2, <2>3, SeqEqual
<1> QED
  BY <1>1, <1>2, <1>3

(* Both orders of blinding give the same point.                            *)
LEMMA BlindedTwice ==
  ASSUME NEW elements \in Seq(Elements), NEW s, NEW t
  PROVE  LET tokens == tokensForPoints(blindElements(elements, s), t)
         IN /\ DOMAIN tokens = 1..Len(elements)
            /\ \A i \in 1..Len(elements) :
                 tokens[i] = [element |-> elements[i], by |-> {s, t}]
<1>1. DOMAIN elements = 1..Len(elements)
  OBVIOUS
<1>2. \A i \in 1..Len(elements) :
        blindElements(elements, s)[i] = [element |-> elements[i], by |-> {s}]
  <2>1. {} \union {s} = {s}
    OBVIOUS
  <2> QED
    BY <1>1, <2>1, PointEquality DEF blindElements, hashToPoint
<1>3. DOMAIN blindElements(elements, s) = 1..Len(elements)
  BY <1>1 DEF blindElements
<1>4. \A i \in 1..Len(elements) : tokensForPoints(blindElements(elements, s), t)[i]
                                    = blindPoint(blindElements(elements, s)[i], t)
  BY <1>3 DEF tokensForPoints
<1>5. \A i \in 1..Len(elements) : blindPoint(blindElements(elements, s)[i], t)
                                    = [element |-> elements[i], by |-> {s, t}]
  <2> SUFFICES ASSUME NEW i \in 1..Len(elements)
               PROVE  blindPoint(blindElements(elements, s)[i], t)
                        = [element |-> elements[i], by |-> {s, t}]
    OBVIOUS
  <2>1. {s} \union {t} = {s, t}
    OBVIOUS
  <2>2. blindElements(elements, s)[i] = [element |-> elements[i], by |-> {s}]
    BY <1>2
  <2>3. blindPoint([element |-> elements[i], by |-> {s}], t)
          = [element |-> elements[i], by |-> {s} \union {t}]
    BY PointEquality
  <2> QED
    BY <2>1, <2>2, <2>3
<1>6. DOMAIN tokensForPoints(blindElements(elements, s), t) = 1..Len(elements)
  BY <1>3 DEF tokensForPoints
<1> QED
  BY <1>4, <1>5, <1>6

(* Of the positions where a sequence has a value there is a first.         *)
LEMMA FirstPosition ==
  ASSUME NEW T \in SUBSET Nat, T # {}
  PROVE  \E i \in T : \A j \in T : ~ j < i
<1>1. \E i \in T : \A j \in T : <<j, i>> \notin OpToRel(<, Nat)
  BY NatLessThanWellFounded, WFMin
<1> QED
  BY <1>1 DEF OpToRel

(* The tokens select the common elements, each at one position.            *)
LEMMA EmittedIsIntersection ==
  ASSUME NEW ours \in Seq(Elements), NEW theirs \in Seq(Elements), NEW s, NEW t
  PROVE  LET emitted == Emitted(tokensForPoints(blindElements(ours, s), t),
                                tokensForPoints(blindElements(theirs, t), s))
         IN /\ {ours[i] : i \in emitted} = Range(ours) \intersect Range(theirs)
            /\ \A i, j \in emitted : ours[i] = ours[j] => i = j
<1> DEFINE mine == tokensForPoints(blindElements(ours, s), t)
           yours == tokensForPoints(blindElements(theirs, t), s)
           emitted == Emitted(mine, yours)
<1>1. /\ DOMAIN mine = 1..Len(ours) /\ DOMAIN ours = 1..Len(ours) /\ Len(ours) \in Nat
      /\ \A i \in 1..Len(ours) : mine[i] = [element |-> ours[i], by |-> {s, t}]
  BY BlindedTwice
<1>2. /\ DOMAIN yours = 1..Len(theirs) /\ DOMAIN theirs = 1..Len(theirs)
      /\ \A i \in 1..Len(theirs) : yours[i] = [element |-> theirs[i], by |-> {t, s}]
  BY BlindedTwice
<1> HIDE DEF mine, yours
<1>3. \A i, j \in 1..Len(ours) : mine[i] = mine[j] <=> ours[i] = ours[j]
  <2> TAKE i, j \in 1..Len(ours)
  <2>1. mine[i] = [element |-> ours[i], by |-> {s, t}] /\ mine[j] = [element |-> ours[j], by |-> {s, t}]
    BY <1>1
  <2>2. mine[i].element = ours[i] /\ mine[j].element = ours[j]
    BY <2>1
  <2> QED
    BY <2>1, <2>2
<1>4. \A i \in 1..Len(ours) : mine[i] \in Range(yours) <=> ours[i] \in Range(theirs)
  <2> SUFFICES ASSUME NEW i \in 1..Len(ours)
               PROVE  mine[i] \in Range(yours) <=> ours[i] \in Range(theirs)
    OBVIOUS
  <2>1. {s, t} = {t, s}
    OBVIOUS
  <2>2. \A j \in 1..Len(theirs) : yours[j] = mine[i] <=> theirs[j] = ours[i]
    <3> TAKE j \in 1..Len(theirs)
    <3>1. mine[i] = [element |-> ours[i], by |-> {s, t}] /\ yours[j] = [element |-> theirs[j], by |-> {s, t}]
      BY <1>1, <1>2, <2>1
    <3>2. mine[i].element = ours[i] /\ yours[j].element = theirs[j]
      BY <3>1
    <3> QED
      BY <3>1, <3>2
  <2> QED
    BY <1>2, <2>2 DEF Range
<1>5. emitted = {i \in 1..Len(ours) : /\ ours[i] \in Range(theirs)
                                      /\ \A j \in 1..(i - 1) : ours[j] # ours[i]}
  <2>1. \A i \in 1..Len(ours) : \A j \in 1..(i - 1) : j \in 1..Len(ours)
    BY <1>1
  <2> QED
    BY <1>1, <1>3, <1>4, <2>1 DEF Emitted
<1> HIDE DEF emitted
<1>6. \A i, j \in emitted : ours[i] = ours[j] => i = j
  BY <1>1, <1>5
<1>7. ASSUME NEW e \in Range(ours) \intersect Range(theirs) PROVE e \in {ours[i] : i \in emitted}
  <2> DEFINE T == {i \in 1..Len(ours) : ours[i] = e}
  <2>1. T \in SUBSET Nat /\ T # {}
    BY <1>1, <1>7 DEF Range
  <2>2. PICK i \in T : \A j \in T : ~ j < i
    BY <2>1, FirstPosition
  <2>3. \A j \in 1..(i - 1) : ours[j] # ours[i]
    BY <1>1, <2>2
  <2> QED
    BY <1>5, <1>7, <2>2, <2>3
<1>8. {ours[i] : i \in emitted} \subseteq Range(ours) \intersect Range(theirs)
  BY <1>1, <1>5 DEF Range
<1> QED
  BY <1>6, <1>7, <1>8 DEF emitted, mine, yours

-----------------------------------------------------------------------------
Mine(c) == connected /\ c = leader_channel
MemberPoints == blindElements(memberElements, Main)
LeaderTokens(c) == tokensForPoints(blindElements(leaderElements, c), Main)

PsiTypeInv ==
    /\ leaderElements \in Seq(Elements)
    /\ memberElements \in Seq(Elements)
    /\ DOMAIN leaderAt = LeaderStreams
    /\ DOMAIN toMember = LeaderStreams
    /\ DOMAIN toLeader = LeaderStreams
    /\ DOMAIN received = LeaderStreams
    /\ DOMAIN result = LeaderStreams

(* A leader's points are on their way at most once, and it is these that   *)
(* the member answers, on the stream that its session was given.           *)
PointsInv ==
    /\ \A c \in LeaderStreams : /\ toMember[c] \in {<<>>, <<blindElements(leaderElements, c)>>}
                                /\ leaderAt[c] = "start" => toMember[c] = <<>>
    /\ memberAt # "receive" => connected
    /\ memberAt \in {"sendPoints", "sendTokens"} =>
         leader_blinded = blindElements(leaderElements, leader_channel)

(* How far the member's two messages have come.                            *)
Waiting(c) == leaderAt[c] \in {"start", "points"} =>
    \/ toLeader[c] = <<>> /\ (Mine(c) => memberAt \in {"receive", "sendPoints", "failed"})
    \/ toLeader[c] = <<MemberPoints>> /\ Mine(c) /\ memberAt \in {"sendTokens", "failed"}
    \/ toLeader[c] = <<MemberPoints, LeaderTokens(c)>> /\ Mine(c) /\ memberAt = "ended"

Halfway(c) == leaderAt[c] = "tokens" =>
    /\ Mine(c) /\ received[c] = MemberPoints
    /\ \/ toLeader[c] = <<>> /\ memberAt \in {"sendTokens", "failed"}
       \/ toLeader[c] = <<LeaderTokens(c)>> /\ memberAt = "ended"

Returned(c) == leaderAt[c] \in {"closing", "returned"} =>
    /\ Mine(c) /\ memberAt = "ended"
    /\ result[c] = Emitted(LeaderTokens(c), tokensForPoints(MemberPoints, c))

AnswerInv == \A c \in LeaderStreams : Waiting(c) /\ Halfway(c) /\ Returned(c)

PsiInv == PsiTypeInv /\ PointsInv /\ AnswerInv

-----------------------------------------------------------------------------
(* The session never exchanges the stream that it has handed over.         *)
LEMMA ChannelStays ==
  ASSUME IInv, [Next]_vars, connected
  PROVE  connected' /\ leader_channel' = leader_channel
<1>1. ASSUME NEW c \in Conns, Publish(c) PROVE FALSE
  <2>1. c \in Taken /\ leader_channel \in Taken
    BY <1>1 DEF Publish, Move, IInv, ChannelInv, Taken
  <2>2. leader_channel = c
    BY <2>1, OneTaken DEF IInv
  <2> QED
    BY <1>1, <2>2 DEF Publish, Move, IInv, ChannelInv, Published
<1>2. ASSUME NEW c \in Conns, HandlerStep(c), ~ Publish(c)
      PROVE  UNCHANGED <<connected, leader_channel>>
  BY <1>2 DEF HandlerStep, Notify, HandlerLock, HandlerTest, HandlerBlock, sessionVars
<1>3. ASSUME NEW c \in Conns, RouteStep(c) \/ PeerStep(c)
      PROVE  UNCHANGED <<connected, leader_channel>>
  BY <1>3 DEF RouteStep, PeerStep, sessionVars
<1>4. CASE MainStep
  BY <1>4 DEF MainStep, Expect, StartServer, MainLock, MainTest, MainBlock, Run, SetDone,
              NotifyDone, Shutdown, Return
<1>5. CASE Wake \/ Idle \/ UNCHANGED vars
  BY <1>5 DEF Wake, Idle, vars, sessionVars
<1> QED
  BY <1>1, <1>2, <1>3, <1>4, <1>5 DEF Next

(* While the member runs, its channel is a stream of the leader.           *)
LEMMA ChannelIsLeaders ==
  ASSUME IInv, pc = "run"
  PROVE  connected /\ leader_channel \in LeaderStreams
<1>1. connected /\ leader_channel \in Taken /\ leader_channel \in Conns
  BY DEF IInv, PassedInv, Awaiting, ChannelInv, Taken
<1> QED
  BY <1>1 DEF IInv, TakenInv, LeaderStreams

(* The steps of the session leave the protocol's state alone.              *)
LEMMA SessionPreserves == IInv /\ PsiInv /\ SessionNext => PsiInv'
<1> SUFFICES ASSUME IInv, PsiInv, SessionNext PROVE PsiInv'
  OBVIOUS
<1>1. UNCHANGED protocolVars /\ (connected => connected' /\ leader_channel' = leader_channel)
  BY ChannelStays DEF SessionNext
<1>2. PsiTypeInv' /\ PointsInv'
  BY <1>1 DEF PsiInv, PsiTypeInv, PointsInv, protocolVars
<1>3. ASSUME NEW c \in LeaderStreams PROVE (Waiting(c) /\ Halfway(c) /\ Returned(c))'
  <2>1. Mine(c) => Mine(c)'
    BY <1>1 DEF Mine
  <2>2. Mine(c)' /\ ~ Mine(c) => memberAt = "receive"
    BY <1>1 DEF Mine, PsiInv, PointsInv
  <2> QED
    BY <1>1, <2>1, <2>2 DEF PsiInv, AnswerInv, Waiting, Halfway, Returned, protocolVars,
                            MemberPoints, LeaderTokens
<1> QED
  BY <1>2, <1>3 DEF PsiInv, AnswerInv

(* The steps of a leader's call.                                           *)
LEMMA LeaderPreserves ==
  ASSUME NEW c \in LeaderStreams, PsiInv, LeaderStep(c) \/ LeaderBreaks(c)
  PROVE  PsiInv'
<1> USE DEF PsiInv
<1>1. UNCHANGED <<vars, leaderElements, memberElements, memberAt, leader_blinded>>
  BY DEF LeaderStep, LeaderSend, LeaderReceivePoints, LeaderReceiveTokens, LeaderCallFails, LeaderCloses,
         LeaderBreaks
<1>2. /\ connected' = connected /\ leader_channel' = leader_channel /\ MemberPoints' = MemberPoints
      /\ \A d : Mine(d)' = Mine(d) /\ LeaderTokens(d)' = LeaderTokens(d)
  BY <1>1 DEF vars, Mine, MemberPoints, LeaderTokens
<1>3. PsiTypeInv'
  BY <1>1 DEF PsiTypeInv, LeaderStep, LeaderSend, LeaderReceivePoints, LeaderReceiveTokens,
     LeaderCallFails, LeaderCloses, LeaderBreaks, LeaderMove
<1>4. \A d \in LeaderStreams \ {c} :
        /\ leaderAt'[d] = leaderAt[d] /\ toMember'[d] = toMember[d] /\ toLeader'[d] = toLeader[d]
        /\ received'[d] = received[d] /\ result'[d] = result[d]
  BY DEF PsiTypeInv, LeaderStep, LeaderSend, LeaderReceivePoints, LeaderReceiveTokens,
     LeaderCallFails, LeaderCloses, LeaderBreaks, LeaderMove
<1>5. PointsInv'
  <2>1. /\ toMember'[c] \in {<<>>, <<blindElements(leaderElements, c)>>}
        /\ leaderAt'[c] # "start"
    <3>1. CASE LeaderSend(c)
      <4>1. toMember[c] = <<>>
        BY <3>1 DEF LeaderSend, LeaderMove, PointsInv
      <4>2. leaderAt'[c] # "start"
        BY <3>1 DEF LeaderSend, LeaderMove, PsiTypeInv
      <4> QED
        BY <3>1, <4>1, <4>2 DEF LeaderSend, PsiTypeInv
    <3>2. CASE ~ LeaderSend(c)
      BY <3>2 DEF PsiTypeInv, PointsInv, LeaderStep, LeaderReceivePoints, LeaderReceiveTokens,
         LeaderCallFails, LeaderCloses, LeaderBreaks, LeaderMove
    <3> QED
      BY <3>1, <3>2
  <2> QED
    BY <1>1, <1>2, <1>4, <2>1 DEF PointsInv
<1>6. ASSUME NEW d \in LeaderStreams \ {c} PROVE (Waiting(d) /\ Halfway(d) /\ Returned(d))'
  BY <1>1, <1>2, <1>4 DEF AnswerInv, Waiting, Halfway, Returned
<1>7. (Waiting(c) /\ Halfway(c) /\ Returned(c))'
  <2>1. CASE LeaderSend(c)
    BY <1>1, <1>2, <2>1 DEF LeaderSend, LeaderMove, PsiTypeInv, AnswerInv, Waiting, Halfway, Returned
  <2>2. CASE LeaderReceivePoints(c)
    <3>1. /\ toLeader[c] # <<>> /\ leaderAt[c] = "points" /\ leaderAt'[c] = "tokens"
          /\ received'[c] = Head(toLeader[c]) /\ toLeader'[c] = Tail(toLeader[c])
      BY <2>2 DEF LeaderReceivePoints, LeaderMove, PsiTypeInv
    <3>2. CASE toLeader[c] = <<MemberPoints>>
      <4>1. Mine(c) /\ memberAt \in {"sendTokens", "failed"}
        BY <3>1, <3>2, ShortStreams DEF AnswerInv, Waiting
      <4>2. received'[c] = MemberPoints /\ toLeader'[c] = <<>>
        BY <3>1, <3>2
      <4> QED
        BY <1>1, <1>2, <3>1, <4>1, <4>2 DEF Waiting, Halfway, Returned
    <3>3. CASE toLeader[c] = <<MemberPoints, LeaderTokens(c)>>
      <4>1. Mine(c) /\ memberAt = "ended"
        BY <3>1, <3>3 DEF AnswerInv, Waiting
      <4>2. received'[c] = MemberPoints /\ toLeader'[c] = <<LeaderTokens(c)>>
        BY <3>1, <3>3
      <4> QED
        BY <1>1, <1>2, <3>1, <4>1, <4>2 DEF Waiting, Halfway, Returned
    <3> QED
      BY <3>1, <3>2, <3>3 DEF AnswerInv, Waiting
  <2>3. CASE LeaderReceiveTokens(c)
    <3>1. /\ toLeader[c] # <<>> /\ leaderAt[c] = "tokens" /\ leaderAt'[c] \in {"closing", "closingThrow"}
          /\ leaderAt'[c] = "closing" =>
               result'[c] = Emitted(Head(toLeader[c]), tokensForPoints(received[c], c))
      BY <2>3 DEF LeaderReceiveTokens, LeaderMove, PsiTypeInv
    <3>2. /\ Mine(c) /\ memberAt = "ended" /\ received[c] = MemberPoints
          /\ toLeader[c] = <<LeaderTokens(c)>>
      BY <3>1 DEF AnswerInv, Halfway
    <3>3. Head(toLeader[c]) = LeaderTokens(c)
      BY <3>2
    <3> QED
      BY <1>1, <1>2, <3>1, <3>2, <3>3 DEF Waiting, Halfway, Returned
  <2>4. CASE LeaderCallFails(c) \/ LeaderBreaks(c)
    <3>1. leaderAt'[c] \in {"closingThrow", "gone"}
      BY <2>4 DEF LeaderCallFails, LeaderBreaks, LeaderMove, PsiTypeInv
    <3> QED
      BY <3>1 DEF Waiting, Halfway, Returned
  <2>5. CASE LeaderCloses(c)
    <3>1. /\ leaderAt'[c] \in {"returned", "thrown"}
          /\ leaderAt'[c] = "returned" => leaderAt[c] = "closing"
          /\ result'[c] = result[c]
      BY <2>5 DEF LeaderCloses, LeaderMove, PsiTypeInv
    <3> QED
      BY <1>1, <1>2, <3>1 DEF AnswerInv, Waiting, Halfway, Returned
  <2> QED
    BY <2>1, <2>2, <2>3, <2>4, <2>5 DEF LeaderStep
<1> QED
  BY <1>3, <1>5, <1>6, <1>7 DEF AnswerInv

(* The steps of DhPsiMember::run.                                          *)
LEMMA MemberRunsPreserves == IInv /\ PsiInv /\ MemberRuns => PsiInv'
<1> SUFFICES ASSUME IInv, PsiInv, MemberRuns PROVE PsiInv'
  OBVIOUS
<1> USE DEF PsiInv
<1>1. /\ pc = "run"
      /\ UNCHANGED <<vars, leaderElements, memberElements, leaderAt, received, result>>
  BY DEF MemberRuns, MemberReceive, MemberReadFails, MemberSendPoints, MemberSendTokens,
         MemberSendFails, SendToLeader, MemberMove
<1>2. connected /\ leader_channel \in LeaderStreams
  BY <1>1, ChannelIsLeaders
<1>3. /\ connected' = connected /\ leader_channel' = leader_channel /\ MemberPoints' = MemberPoints
      /\ \A d : Mine(d)' = Mine(d) /\ LeaderTokens(d)' = LeaderTokens(d)
  BY <1>1 DEF vars, Mine, MemberPoints, LeaderTokens
<1>4. PsiTypeInv'
  BY <1>1 DEF PsiTypeInv, MemberRuns, MemberReceive, MemberReadFails, MemberSendPoints,
     MemberSendTokens, MemberSendFails, SendToLeader
<1>5. PointsInv'
  <2>1. CASE MemberReceive
    <3>1. toMember[leader_channel] = <<blindElements(leaderElements, leader_channel)>>
      BY <1>2, <2>1 DEF MemberReceive, PointsInv
    <3>2. leader_blinded' = blindElements(leaderElements, leader_channel)
      BY <2>1, <3>1 DEF MemberReceive
    <3>3. \A c \in LeaderStreams : toMember'[c] \in {toMember[c], <<>>}
      BY <1>2, <2>1, <3>1 DEF MemberReceive, PsiTypeInv
    <3> QED
      BY <1>1, <1>2, <1>3, <3>2, <3>3 DEF PointsInv
  <2>2. CASE ~ MemberReceive
    BY <1>1, <1>2, <1>3, <2>2 DEF PointsInv, MemberRuns, MemberReadFails, MemberSendPoints,
       MemberSendTokens, MemberSendFails, SendToLeader, MemberMove
  <2> QED
    BY <2>1, <2>2
<1>6. ASSUME NEW c \in LeaderStreams PROVE (Waiting(c) /\ Halfway(c) /\ Returned(c))'
  <2>1. CASE c # leader_channel
    <3>1. toLeader'[c] = toLeader[c] /\ ~ Mine(c)
      BY <2>1 DEF Mine, PsiTypeInv, MemberRuns, MemberReceive, MemberReadFails, MemberSendPoints,
         MemberSendTokens, MemberSendFails, SendToLeader
    <3> QED
      BY <1>1, <1>3, <3>1 DEF AnswerInv, Waiting, Halfway, Returned
  <2>2. CASE c = leader_channel
    <3> Mine(c)
      BY <1>2, <2>2 DEF Mine
    <3>1. CASE MemberReceive \/ MemberReadFails \/ MemberSendFails
      BY <1>1, <1>3, <3>1 DEF MemberReceive, MemberReadFails, MemberSendFails, MemberMove,
         AnswerInv, Waiting, Halfway, Returned
    <3>2. CASE MemberSendPoints
      <4>1. /\ memberAt = "sendPoints" /\ memberAt' = "sendTokens"
            /\ toLeader'[c] = Append(toLeader[c], MemberPoints)
        BY <2>2, <3>2 DEF MemberSendPoints, SendToLeader, MemberMove, MemberPoints, PsiTypeInv
      <4>2. leaderAt[c] \in {"start", "points"} => toLeader'[c] = <<MemberPoints>>
        BY <4>1, ShortStreams DEF AnswerInv, Waiting
      <4> QED
        BY <1>1, <1>3, <4>1, <4>2 DEF AnswerInv, Waiting, Halfway, Returned
    <3>3. CASE MemberSendTokens
      <4>1. /\ memberAt = "sendTokens" /\ memberAt' = "ended"
            /\ toLeader'[c] = Append(toLeader[c], LeaderTokens(c))
        BY <2>2, <3>3 DEF MemberSendTokens, SendToLeader, MemberMove, LeaderTokens, PsiTypeInv,
                          PointsInv
      <4>2. /\ leaderAt[c] \in {"start", "points"} =>
                 toLeader'[c] = <<MemberPoints, LeaderTokens(c)>>
            /\ leaderAt[c] = "tokens" => toLeader'[c] = <<LeaderTokens(c)>>
        BY <4>1, ShortStreams DEF AnswerInv, Waiting, Halfway
      <4> QED
        BY <1>1, <1>3, <4>1, <4>2 DEF AnswerInv, Waiting, Halfway, Returned
    <3> QED
      BY <3>1, <3>2, <3>3 DEF MemberRuns
  <2> QED
    BY <2>1, <2>2
<1> QED
  BY <1>4, <1>5, <1>6 DEF AnswerInv

-----------------------------------------------------------------------------
(* Both invariants hold of the session with its protocol.                  *)
LEMMA PsiInvariance == PsiSpec => [](IInv /\ PsiInv)
<1>1. PsiInit => PsiInv
  <2> SUFFICES ASSUME PsiInit PROVE PsiInv
    OBVIOUS
  <2> USE DEF PsiInit
  <2>1. leaderElements \in Seq(Elements) /\ memberElements \in Seq(Elements)
    BY DhPsiAssumption
  <2> QED
    BY <2>1 DEF PsiInv, PsiTypeInv, PointsInv, AnswerInv, Waiting, Halfway, Returned
<1>2. IInv /\ PsiInv /\ [PsiNext]_psiVars => PsiInv'
  <2> SUFFICES ASSUME IInv, PsiInv, [PsiNext]_psiVars PROVE PsiInv'
    OBVIOUS
  <2>1. CASE SessionNext
    BY <2>1, SessionPreserves
  <2>2. ASSUME NEW c \in LeaderStreams, LeaderStep(c) \/ LeaderBreaks(c) PROVE PsiInv'
    BY <2>2, LeaderPreserves
  <2>3. CASE MemberRuns
    BY <2>3, MemberRunsPreserves
  <2>4. CASE UNCHANGED psiVars
    BY <2>4 DEF psiVars, vars, protocolVars, PsiInv, PsiTypeInv, PointsInv, AnswerInv, Waiting,
                Halfway, Returned, Mine, MemberPoints, LeaderTokens
  <2> QED
    BY <2>1, <2>2, <2>3, <2>4 DEF PsiNext
<1>3. PsiSpec => []IInv
  BY PsiIsSession, Invariance, PTL
<1> QED
  BY <1>1, <1>2, <1>3, PTL DEF PsiSpec

(* A leader that returns has the intersection of both inputs, each element *)
(* once, from a member that ran to its end on this stream.                 *)
THEOREM LeaderReturnsIntersection == PsiSpec => []ResultIsIntersection
<1>1. PsiInv => ResultIsIntersection
  <2> SUFFICES ASSUME PsiInv, NEW c \in LeaderStreams, leaderAt[c] = "returned"
               PROVE  /\ {leaderElements[i] : i \in result[c]}
                           = Range(leaderElements) \intersect Range(memberElements)
                      /\ \A i, j \in result[c] : leaderElements[i] = leaderElements[j] => i = j
                      /\ c = leader_channel /\ memberAt = "ended"
    BY DEF ResultIsIntersection
  <2>1. /\ Mine(c) /\ memberAt = "ended"
        /\ result[c] = Emitted(LeaderTokens(c), tokensForPoints(MemberPoints, c))
    BY DEF PsiInv, AnswerInv, Returned
  <2>2. leaderElements \in Seq(Elements) /\ memberElements \in Seq(Elements)
    BY DEF PsiInv, PsiTypeInv
  <2> QED
    BY <2>1, <2>2, EmittedIsIntersection DEF Mine, LeaderTokens, MemberPoints
<1> QED
  BY <1>1, PsiInvariance, PTL
=============================================================================
