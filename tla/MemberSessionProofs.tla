------------------------ MODULE MemberSessionProofs ------------------------
(***************************************************************************)
(* Two services that a party process needs before a protocol can run: the  *)
(* member session, with the dealer's key distribution at the end.          *)
(*                                                                         *)
(* Type correctness and safety of the member session, for every set of     *)
(* peers and every number of streams that clients may open.  Type          *)
(* correctness of the key distribution, that one dealer process gives out  *)
(* one generation of keys, and to whom, for every number of parties,       *)
(* plugins, dealer processes and restarts.                                 *)
(***************************************************************************)
EXTENDS MemberSession, KeyDistribution, FiniteSetTheorems, TLAPS

Counted == {"counted", "lock", "test", "block", "parked", "finished"}

(* Streams that took a handler.                                            *)
Taken == {c \in Conns : at[c] \in Counted \union {"entered", "published"}}

(* The peers whose handler has incremented incoming_count.                 *)
PeersIn == {Claim[c] : c \in {d \in Conns : at[d] \in Counted}}

(* A handler is taken once, for a stream whose certificate agrees.         *)
TakenInv == \A c \in Taken : /\ CertMatches(c)
                             /\ Claim[c] \in Peers
                             /\ Claim[c] \notin handlers
                             /\ \A d \in Taken : Claim[c] = Claim[d] => c = d

(* incoming_count counts peers, and a counted peer's stream is published.  *)
CountInv == /\ incoming = Cardinality(PeersIn)
            /\ \A c \in Taken : at[c] # "entered" => channel[Claim[c]] = c

(* Main passes its first wait only when every peer is counted.             *)
PassedInv == ~ Awaiting => PeersIn = Peers

(* A handler leaves only after `done`, which Main sets after the run.      *)
DoneInv == /\ done => pc \in {"notify", "shutdown", "drain", "returned"}
           /\ \A c \in Conns : at[c] = "finished" => done

(* No stream before the server listens, none accepted after Shutdown.      *)
ServerInv == /\ pc \in {"expect", "start"} =>
                   server = "off" /\ \A c \in Conns : at[c] = "away"
             /\ pc \in {"drain", "drainThrow"} => server # "listening"
             /\ Answered => server # "listening" /\ Drained

IInv == /\ TypeOK
        /\ TakenInv
        /\ CountInv
        /\ PassedInv
        /\ DoneInv
        /\ ServerInv
        /\ ErrorNeverReported

-----------------------------------------------------------------------------
(* The variables keep their types, in every session.                       *)
THEOREM TypeCorrect == Spec => []TypeOK
<1>1. Init => TypeOK
  <2> SUFFICES ASSUME Init PROVE TypeOK
    OBVIOUS
  <2> USE DEF Init, MonitorInit, ServerInit
  <2>1. at \in [Conns -> Outside \union InHandler]
    BY DEF Outside
  <2>2. channel \in [Peers -> Conns \union {NoConn}]
    OBVIOUS
  <2> QED
    BY <2>1, <2>2 DEF TypeOK
<1>2. TypeOK /\ [Next]_vars => TypeOK'
  <2> SUFFICES ASSUME TypeOK, [Next]_vars PROVE TypeOK'
    OBVIOUS
  <2> USE DEF TypeOK, Outside, InHandler
  <2>1. CASE MainStep
    BY <2>1, SessionAssumption
    DEF MainStep, Expect, StartServer, MainLock, MainTest, MainBlock, Run, SetDone,
        NotifyDone, Shutdown, Return, Goto, ExpectParty, Start, Lock, Unlock, Block,
        NotifyAll, BeginShutdown, monitorVars, serverVars
  <2>2. ASSUME NEW c \in Conns, HandlerStep(c) PROVE TypeOK'
    BY <2>2, SessionAssumption
    DEF HandlerStep, Publish, Count, Notify, HandlerLock, HandlerTest, HandlerBlock,
        Move, Lock, Unlock, Block, NotifyAll, monitorVars, sessionVars
  <2>3. ASSUME NEW c \in Conns, RouteStep(c) \/ PeerStep(c) PROVE TypeOK'
    BY <2>3 DEF RouteStep, PeerStep, Refuse, Accept, Connect, Greet, Break, Move, monitorVars, sessionVars
  <2>4. CASE Wake
    BY <2>4 DEF Wake, SpuriousWake, serverVars, sessionVars
  <2>5. CASE Idle \/ UNCHANGED vars
    BY <2>5 DEF Idle, vars
  <2> QED
    BY <2>1, <2>2, <2>3, <2>4, <2>5 DEF Next
<1> QED
  BY <1>1, <1>2, PTL DEF Spec

-----------------------------------------------------------------------------
(* A session in which every expected peer is counted has every peer in.    *)
LEMMA AllInMeansEveryPeer ==
  ASSUME TypeOK, TakenInv, CountInv, AllIn
  PROVE  PeersIn = Peers
<1>1. PeersIn \subseteq Peers
  BY DEF TakenInv, PeersIn, Taken
<1> QED
  BY <1>1, SessionAssumption, FS_Subset, FS_CardinalityType DEF AllIn, CountInv

(* The count of peers stays within the naturals: PeersIn is finite.        *)
LEMMA PeersInFinite == ASSUME TakenInv PROVE IsFiniteSet(PeersIn)
<1>1. PeersIn \subseteq Peers
  BY DEF TakenInv, PeersIn, Taken
<1> QED
  BY <1>1, SessionAssumption, FS_Subset

(* The steps of Main preserve the invariant.                               *)
LEMMA MainPreserves == IInv /\ TypeOK' /\ MainStep => IInv'
<1> SUFFICES ASSUME IInv, TypeOK', MainStep PROVE IInv'
  OBVIOUS
<1> USE DEF IInv
<1>1. at' = at /\ channel' = channel /\ incoming' = incoming
  BY DEF MainStep, Expect, StartServer, MainLock, MainTest, MainBlock, Run, SetDone,
         NotifyDone, Shutdown, Return, serverVars
<1>2. Taken' = Taken /\ PeersIn' = PeersIn /\ CountInv'
  BY <1>1 DEF Taken, PeersIn, CountInv
<1>3. TakenInv'
  <2>1. CASE Expect
    BY <2>1, <1>2 DEF Expect, Goto, TakenInv, ServerInv, Taken, Counted
  <2>2. CASE ~ Expect
    <3>1. handlers' = handlers
      BY <2>2 DEF MainStep, StartServer, MainLock, MainTest, MainBlock, Run, SetDone,
                  NotifyDone, Shutdown, Return, serverVars
    <3> QED
      BY <3>1, <1>2 DEF TakenInv, CertMatches
  <2> QED
    BY <2>1, <2>2
<1>4. PassedInv'
  <2>1. CASE MainTest
    BY <2>1, <1>2, AllInMeansEveryPeer DEF MainTest, Goto, Awaiting, PassedInv
  <2>2. CASE ~ MainTest
    BY <2>2, <1>2 DEF MainStep, Expect, StartServer, MainLock, MainBlock, Run, SetDone,
           NotifyDone, Shutdown, Return, Goto, Awaiting, PassedInv
  <2> QED
    BY <2>1, <2>2
<1>5. DoneInv'
  BY <1>1 DEF MainStep, Expect, StartServer, MainLock, MainTest, MainBlock, Run, SetDone,
              NotifyDone, Shutdown, Return, Goto, DoneInv
<1>6. ServerInv'
  BY <1>1 DEF MainStep, Expect, StartServer, MainLock, MainTest, MainBlock, Run, SetDone,
              NotifyDone, Shutdown, Return, Goto, ServerInv, Answered, Drained,
              BeginShutdown, Start, serverVars
<1>7. ErrorNeverReported'
  <2>1. CASE pc = "drainThrow" /\ Return
    <3>1. PICK c \in Conns : at[c] \in Counted
      BY <2>1, SessionAssumption DEF PassedInv, Awaiting, PeersIn
    <3>2. at[c] \in {"finished"}
      BY <2>1, <3>1 DEF Return, Drained, Outside, Counted
    <3> QED
      BY <2>1, <3>2 DEF DoneInv
  <2>2. CASE ~ (pc = "drainThrow" /\ Return)
    BY <2>2 DEF MainStep, Expect, StartServer, MainLock, MainTest, MainBlock, Run, SetDone,
                NotifyDone, Shutdown, Return, Goto, ErrorNeverReported
  <2> QED
    BY <2>1, <2>2
<1> QED
  BY <1>2, <1>3, <1>4, <1>5, <1>6, <1>7

(* The steps of a handler thread preserve the invariant.                   *)
LEMMA HandlerPreserves ==
  ASSUME NEW c \in Conns
  PROVE  IInv /\ TypeOK' /\ HandlerStep(c) => IInv'
<1> SUFFICES ASSUME IInv, TypeOK', HandlerStep(c) PROVE IInv'
  OBVIOUS
<1> USE DEF IInv
<1>1. pc' = pc /\ server' = server /\ handlers' = handlers /\ done' = done
  BY DEF HandlerStep, Publish, Count, Notify, HandlerLock, HandlerTest, HandlerBlock,
         sessionVars
<1>2. PICK to \in Counted \union {"published"} :
         at' = [at EXCEPT ![c] = to] /\ (to = "finished" => done)
  BY DEF HandlerStep, Publish, Count, Notify, HandlerLock, HandlerTest, HandlerBlock,
         Move, Counted
<1>3. c \in Taken
  BY DEF HandlerStep, Publish, Count, Notify, HandlerLock, HandlerTest, HandlerBlock,
         Move, Counted, Taken
<1>4. Taken' = Taken
  BY <1>2, <1>3 DEF Taken, Counted, TypeOK
<1>5. TakenInv'
  BY <1>1, <1>4 DEF TakenInv, CertMatches
<1>6. CountInv' /\ PeersIn \subseteq PeersIn'
  <2>1. CASE Publish(c)
    <3>1. PeersIn' = PeersIn
      BY <2>1 DEF Publish, Move, PeersIn, Counted, TypeOK
    <3>2. \A d \in Taken : d # c => Claim[d] # Claim[c]
      BY <1>3 DEF TakenInv
    <3>3. Claim[c] \in Peers
      BY <1>3 DEF TakenInv
    <3> QED
      BY <2>1, <1>4, <3>1, <3>2, <3>3 DEF Publish, Move, CountInv, TypeOK, Taken
  <2>2. CASE Count(c)
    <3>1. PeersIn' = PeersIn \union {Claim[c]}
      BY <2>2 DEF Count, Move, PeersIn, Counted, TypeOK
    <3>2. Claim[c] \notin PeersIn
      BY <2>2, <1>3 DEF Count, Move, PeersIn, Counted, Taken, TakenInv
    <3>3. incoming' = Cardinality(PeersIn')
      BY <2>2, <3>1, <3>2, PeersInFinite, FS_AddElement DEF Count, CountInv
    <3> QED
      BY <2>2, <1>4, <3>1, <3>3 DEF Count, Move, CountInv, TypeOK, Taken
  <2>3. CASE ~ Publish(c) /\ ~ Count(c)
    <3>1. PICK from \in Counted, x \in Counted : Move(c, from, x)
      BY <2>3 DEF HandlerStep, Notify, HandlerLock, HandlerTest, HandlerBlock, Counted, Move
    <3>2. PeersIn' = PeersIn
      BY <3>1 DEF Move, PeersIn, Counted, TypeOK
    <3>3. channel' = channel /\ incoming' = incoming
      BY <2>3 DEF HandlerStep, Notify, HandlerLock, HandlerTest, HandlerBlock, sessionVars
    <3> QED
      BY <3>1, <3>2, <3>3, <1>4 DEF CountInv, Move, TypeOK, Taken, Counted
  <2> QED
    BY <2>1, <2>2, <2>3
<1>7. PassedInv'
  <2>1. PeersIn' \subseteq Peers
    BY <1>5 DEF TakenInv, PeersIn, Taken
  <2> QED
    BY <1>1, <1>6, <2>1 DEF PassedInv, Awaiting
<1>8. DoneInv'
  BY <1>1, <1>2 DEF DoneInv, TypeOK
<1>9. ServerInv'
  BY <1>1, <1>3 DEF ServerInv, Answered, Drained, Taken, Counted, DoneInv,
     Outside, HandlerStep, Publish, Count, Notify, HandlerLock, HandlerTest,
     HandlerBlock, Move
<1> QED
  BY <1>1, <1>5, <1>6, <1>7, <1>8, <1>9 DEF ErrorNeverReported

(* The steps of the server that routes a stream preserve the invariant.    *)
LEMMA RoutingPreserves ==
  ASSUME NEW c \in Conns
  PROVE  IInv /\ TypeOK' /\ (RouteStep(c) \/ PeerStep(c)) => IInv'
<1> SUFFICES ASSUME IInv, TypeOK', RouteStep(c) \/ PeerStep(c) PROVE IInv'
  OBVIOUS
<1> USE DEF IInv
<1>1. UNCHANGED <<pc, channel, incoming, done, server>>
  BY DEF RouteStep, PeerStep, Refuse, Accept, Connect, Greet, Break, sessionVars
<1>2. PICK to \in {"opened", "greeted", "refused", "entered"} : at' = [at EXCEPT ![c] = to]
  BY DEF RouteStep, PeerStep, Refuse, Accept, Connect, Greet, Break, Move
<1>3. at[c] \in {"away", "opened", "greeted"}
  BY DEF RouteStep, PeerStep, Refuse, Accept, Connect, Greet, Break, Move
<1>4. PeersIn' = PeersIn
  BY <1>2, <1>3 DEF PeersIn, Counted, TypeOK
<1>5. CountInv'
  BY <1>1, <1>2, <1>4 DEF CountInv, Taken, Counted, TypeOK
<1>6. TakenInv'
  <2>1. CASE Accept(c)
    <3>1. Taken' = Taken \union {c} /\ handlers' = handlers \ {Claim[c]}
      BY <2>1 DEF Accept, Move, Taken, Counted, TypeOK
    <3> QED
      BY <2>1, <3>1 DEF TakenInv, Accept, CertMatches, TypeOK
  <2>2. CASE ~ Accept(c)
    <3>1. Taken' = Taken /\ handlers' = handlers
      BY <2>2 DEF RouteStep, PeerStep, Refuse, Connect, Greet, Break, Move, Taken, Counted, TypeOK
    <3> QED
      BY <3>1 DEF TakenInv, CertMatches
  <2> QED
    BY <2>1, <2>2
<1>7. DoneInv'
  BY <1>1, <1>2 DEF DoneInv, TypeOK
<1>8. ServerInv'
  BY <1>1, <1>2, <1>3 DEF ServerInv, Answered, Drained, Outside, TypeOK,
     RouteStep, PeerStep, Refuse, Accept, Connect, Greet, Break, Move
<1> QED
  BY <1>1, <1>4, <1>5, <1>6, <1>7, <1>8 DEF PassedInv, Awaiting, ErrorNeverReported

(* Every reachable state of a session satisfies the invariant.             *)
THEOREM Invariance == Spec => []IInv
<1>1. Init => IInv
  <2> SUFFICES ASSUME Init PROVE IInv
    OBVIOUS
  <2>1. Taken = {} /\ PeersIn = {}
    BY DEF Init, ServerInit, Taken, PeersIn, Counted
  <2> QED
    BY <2>1, FS_EmptySet DEF Init, MonitorInit, ServerInit, IInv, TypeOK, TakenInv, CountInv,
       PassedInv, Awaiting, DoneInv, ServerInv, ErrorNeverReported, Answered, Outside, InHandler
<1>2. IInv /\ TypeOK' /\ [Next]_vars => IInv'
  <2> SUFFICES ASSUME IInv, TypeOK', [Next]_vars PROVE IInv'
    OBVIOUS
  <2>1. CASE MainStep
    BY <2>1, MainPreserves
  <2>2. ASSUME NEW c \in Conns, HandlerStep(c) PROVE IInv'
    BY <2>2, HandlerPreserves
  <2>3. ASSUME NEW c \in Conns, RouteStep(c) \/ PeerStep(c) PROVE IInv'
    BY <2>3, RoutingPreserves
  <2>4. CASE Wake \/ Idle \/ UNCHANGED vars
    <3>1. UNCHANGED <<server, handlers, at, pc, channel, incoming, done>>
      BY <2>4 DEF Wake, Idle, vars, serverVars, sessionVars
    <3> QED
      BY <3>1 DEF IInv, TakenInv, Taken, CountInv, PeersIn, PassedInv, Awaiting, DoneInv,
         ServerInv, ErrorNeverReported, Answered, Drained, CertMatches
  <2> QED
    BY <2>1, <2>2, <2>3, <2>4 DEF Next
<1> QED
  BY <1>1, <1>2, TypeCorrect, PTL DEF Spec

-----------------------------------------------------------------------------
(* member.run is given open streams of the right peers.                    *)
THEOREM StreamsAreUsable == Spec => []StreamsUsable
<1>1. IInv => StreamsUsable
  <2> SUFFICES ASSUME IInv, pc = "run", NEW p \in Peers
               PROVE  /\ channel[p] \in Open
                      /\ Claim[channel[p]] = p
                      /\ CertMatches(channel[p])
    BY DEF StreamsUsable
  <2>1. PICK c \in Conns : at[c] \in Counted /\ Claim[c] = p
    BY DEF IInv, PassedInv, Awaiting, PeersIn
  <2>2. c \in Taken
    BY <2>1 DEF Taken
  <2>3. channel[p] = c /\ CertMatches(c)
    BY <2>1, <2>2 DEF IInv, CountInv, TakenInv, Counted
  <2>4. at[c] # "finished"
    BY DEF IInv, DoneInv
  <2> QED
    BY <2>1, <2>3, <2>4 DEF Open, Outside, Counted
<1> QED
  BY <1>1, Invariance, PTL

(* No peer ever holds two handlers, so none is counted twice.              *)
THEOREM StreamsAreDistinct == Spec => []OneStreamPerPeer
<1>1. IInv => OneStreamPerPeer
  BY DEF IInv, TakenInv, Taken, OneStreamPerPeer, Counted, InHandler
<1> QED
  BY <1>1, Invariance, PTL

(* A request whose protocol run threw is never answered.                   *)
THEOREM ErrorsAreNotReported == Spec => []ErrorNeverReported
<1>1. IInv => ErrorNeverReported
  BY DEF IInv
<1> QED
  BY <1>1, Invariance, PTL

-----------------------------------------------------------------------------
(* Once every peer is counted, no handler is left to publish a stream.     *)
LEMMA AttachedOnceCounted ==
  ASSUME IInv, PeersIn = Peers
  PROVE  attached = Peers /\ \A c \in Conns : at[c] \notin {"entered", "published"}
<1>2. ASSUME NEW p \in Peers PROVE channel[p] # NoConn
  <2>1. PICK c \in Conns : at[c] \in Counted /\ Claim[c] = p
    BY DEF PeersIn
  <2> QED
    BY <2>1, SessionAssumption DEF IInv, CountInv, Taken, Counted
<1>3. ASSUME NEW c \in Conns, at[c] \in {"entered", "published"} PROVE FALSE
  <2>1. c \in Taken /\ Claim[c] \in Peers
    BY <1>3 DEF IInv, TakenInv, Taken
  <2>2. PICK d \in Conns : at[d] \in Counted /\ Claim[d] = Claim[c]
    BY <2>1 DEF PeersIn
  <2>3. d \in Taken
    BY <2>2 DEF Taken
  <2> QED
    BY <1>3, <2>1, <2>2, <2>3 DEF IInv, TakenInv, Counted
<1> QED
  BY <1>2, <1>3 DEF attached

(* The session implements the safety part of the abstract rendezvous.      *)
THEOREM SessionIsRendezvous == Spec => ImplementsRendezvous
<1>1. Init => R!Init
  BY DEF Init, R!Init, stage, Awaiting, attached
<1>2. IInv /\ IInv' /\ [Next]_vars => [R!Next]_R!vars
  <2> SUFFICES ASSUME IInv, IInv', [Next]_vars PROVE R!Next \/ UNCHANGED R!vars
    OBVIOUS
  <2>1. CASE MainStep
    <3>1. attached' = attached
      BY <2>1 DEF attached, MainStep, Expect, StartServer, MainLock, MainTest, MainBlock,
                  Run, SetDone, NotifyDone, Shutdown, Return
    <3>2. CASE MainTest /\ pc' = "run"
      <4>1. stage = "awaiting" /\ stage' = "running"
        BY <3>2 DEF MainTest, Goto, stage, Awaiting
      <4>2. attached' = Peers
        <5>1. PeersIn = Peers
          BY <3>2, AllInMeansEveryPeer DEF MainTest, Goto, IInv
        <5> QED
          BY <3>1, <5>1, AttachedOnceCounted
      <4> QED
        BY <3>1, <4>1, <4>2 DEF R!Next, R!Run
    <3>3. CASE ~ (MainTest /\ pc' = "run")
      BY <2>1, <3>1, <3>3
      DEF MainStep, Expect, StartServer, MainLock, MainTest, MainBlock, Run, SetDone,
          NotifyDone, Shutdown, Return, Goto, stage, Awaiting, Answered, R!Next, R!Release,
          R!Answer, R!vars
    <3> QED
      BY <3>2, <3>3
  <2>2. ASSUME NEW c \in Conns, HandlerStep(c) PROVE R!Next \/ UNCHANGED R!vars
    <3>1. stage' = stage
      BY <2>2 DEF HandlerStep, Publish, Count, Notify, HandlerLock, HandlerTest,
                  HandlerBlock, sessionVars, stage, Awaiting, Answered
    <3>2. CASE Publish(c)
      <4>1. Awaiting /\ stage = "awaiting"
        BY <3>2, AttachedOnceCounted DEF Publish, Move, stage, IInv, PassedInv
      <4>2. Claim[c] \in Peers /\ c # NoConn
        BY <3>2, SessionAssumption DEF Publish, Move, IInv, TakenInv, Taken
      <4>3. attached' = attached \union {Claim[c]}
        BY <3>2, <4>2 DEF Publish, attached, IInv, TypeOK
      <4> QED
        BY <3>1, <4>1, <4>2, <4>3 DEF R!Next, R!Attach, R!vars
    <3>3. CASE ~ Publish(c)
      BY <2>2, <3>1, <3>3 DEF HandlerStep, Count, Notify, HandlerLock, HandlerTest,
         HandlerBlock, sessionVars, attached, R!vars
    <3> QED
      BY <3>2, <3>3
  <2>3. CASE Wake \/ Idle \/ UNCHANGED vars
             \/ \E c \in Conns : RouteStep(c) \/ PeerStep(c)
    BY <2>3 DEF Wake, Idle, vars, RouteStep, PeerStep, sessionVars, attached, stage, Awaiting,
                Answered, R!vars
  <2> QED
    BY <2>1, <2>2, <2>3 DEF Next
<1> QED
  BY <1>1, <1>2, Invariance, PTL DEF Spec, ImplementsRendezvous, R!Spec

-----------------------------------------------------------------------------
(* The key distribution.                                                   *)

(* The dealer process runs.                                                *)
Alive == main \notin {"exited", "killed"}

(* A share of the running dealer is of the key set it holds; no share is   *)
(* of a dealer yet to come.                                                *)
HeldInv == \A a \in Held : /\ a.dealer <= dealer
                           /\ a.dealer = dealer /\ Alive =>
                                 keyset # 0 /\ a.generation = keyset
                           /\ a.dealer = 0 => a.generation = 0

-----------------------------------------------------------------------------
(* NoKey, the share of a party that has none, is of no dealer.             *)
LEMMA NoKeyType == NoKey \in Keys /\ NoKey.dealer = 0 /\ NoKey.generation = 0
  BY DistributionAssumption DEF NoKey, Keys

(* The call a party has outstanding is a call.                             *)
LEMMA CallType ==
  ASSUME KeysTypeOK, NEW p \in Procs, ~ Ready(p)
  PROVE  Call(p) \in Calls /\ plugin[p] \in PluginIds
  BY DistributionAssumption DEF KeysTypeOK, Ready, Call, Calls, PluginIds

(* Ending one plugin's set-up keeps the types of a party's variables.      *)
LEMMA FinishSetupType ==
  ASSUME KeysTypeOK, NEW p \in Procs, ~ Ready(p), NEW key \in Keys, FinishSetup(p, key)
  PROVE  /\ plugin' \in [Procs -> 1..(Plugins + 1)]
         /\ calling' \in [Procs -> BOOLEAN]
         /\ starts' \in [Procs -> 1..MaxStarts]
         /\ keys' \in [Procs -> [PluginIds -> Keys]]
<1>1. plugin[p] \in 1..(Plugins + 1) /\ plugin[p] # Plugins + 1
  BY DEF KeysTypeOK, Ready
<1>2. plugin[p] + 1 \in 1..(Plugins + 1)
  BY <1>1, DistributionAssumption
<1> QED
  BY <1>2 DEF FinishSetup, KeysTypeOK

(* A party that waits for an answer is not ready.                          *)
CallingInv == \A p \in Procs : calling[p] => ~ Ready(p)

(* The variables keep their types in every key distribution.               *)
THEOREM KeysTypeCorrect == KeysSpec => [](KeysTypeOK /\ CallingInv)
<1>1. KeysInit => KeysTypeOK /\ CallingInv
  <2> SUFFICES ASSUME KeysInit PROVE KeysTypeOK /\ CallingInv
    OBVIOUS
  <2>1. keys \in [Procs -> [PluginIds -> Keys]]
    BY NoKeyType DEF KeysInit
  <2>2. plugin \in [Procs -> 1..(Plugins + 1)] /\ starts \in [Procs -> 1..MaxStarts]
    BY DistributionAssumption DEF KeysInit
  <2>3. calling \in [Procs -> BOOLEAN] /\ CallingInv
    BY DEF KeysInit, CallingInv
  <2>4. dealer \in 1..MaxDealers /\ keyset \in 0..generation /\ generation \in Nat
    BY DistributionAssumption DEF KeysInit
  <2> QED
    BY <2>1, <2>2, <2>3, <2>4 DEF KeysInit, KeysTypeOK
<1>2. KeysTypeOK /\ CallingInv /\ [KeysNext]_keysVars => (KeysTypeOK /\ CallingInv)'
  <2> SUFFICES ASSUME KeysTypeOK, CallingInv, [KeysNext]_keysVars PROVE KeysTypeOK' /\ CallingInv'
    OBVIOUS
  <2>1. ASSUME NEW p \in Procs, Fetch(p) PROVE KeysTypeOK' /\ CallingInv'
    BY <2>1, CallType DEF Fetch, KeysTypeOK, CallingInv, Ready, dealerVars
  <2>2. ASSUME NEW p \in Procs, FetchRefused(p) \/ GiveUp(p) PROVE KeysTypeOK' /\ CallingInv'
    <3>1. ~ Ready(p) /\ FinishSetup(p, NoKey)
      BY <2>2 DEF FetchRefused, GiveUp, CallingInv
    <3>2. UNCHANGED <<dealerVars, calls>> /\ replies' \subseteq replies
      BY <2>2 DEF FetchRefused, GiveUp, Forget
    <3>3. CallingInv'
      BY <3>1 DEF FinishSetup, CallingInv, KeysTypeOK, Ready
    <3> QED
      BY <3>1, <3>2, <3>3, FinishSetupType, NoKeyType DEF KeysTypeOK, dealerVars
  <2>3. ASSUME NEW p \in Procs, Receive(p) PROVE KeysTypeOK' /\ CallingInv'
    <3>1. PICK r \in replies : replies' = replies \ {r} /\ FinishSetup(p, r.key)
      BY <2>3 DEF Receive
    <3>2. ~ Ready(p) /\ UNCHANGED <<dealerVars, calls>> /\ r.key \in Keys
      BY <2>3 DEF Receive, CallingInv, KeysTypeOK
    <3>3. CallingInv'
      BY <3>1, <3>2 DEF FinishSetup, CallingInv, KeysTypeOK, Ready
    <3> QED
      BY <3>1, <3>2, <3>3, FinishSetupType DEF KeysTypeOK, dealerVars
  <2>4. ASSUME NEW p \in Procs, Restart(p) PROVE KeysTypeOK' /\ CallingInv'
    <3>1. starts' \in [Procs -> 1..MaxStarts]
      <4>1. starts[p] \in 1..MaxStarts /\ starts[p] < MaxStarts
        BY <2>4 DEF Restart, KeysTypeOK
      <4>2. starts[p] + 1 \in 1..MaxStarts
        BY <4>1, DistributionAssumption
      <4> QED
        BY <2>4, <4>2 DEF Restart, KeysTypeOK
    <3>2. plugin' \in [Procs -> 1..(Plugins + 1)] /\ keys' \in [Procs -> [PluginIds -> Keys]]
      <4>1. 1 \in 1..(Plugins + 1)
        BY DistributionAssumption
      <4>2. [k \in PluginIds |-> NoKey] \in [PluginIds -> Keys]
        BY NoKeyType
      <4> QED
        BY <2>4, <4>1, <4>2 DEF Restart, KeysTypeOK
    <3>3. calling' \in [Procs -> BOOLEAN] /\ CallingInv'
      BY <2>4 DEF Restart, KeysTypeOK, CallingInv, Ready
    <3>4. UNCHANGED <<dealerVars, calls>> /\ replies' \subseteq replies
      BY <2>4 DEF Restart, Forget
    <3> QED
      BY <3>1, <3>2, <3>3, <3>4 DEF KeysTypeOK, dealerVars
  <2>5. CASE GetKeyShare
    <3>1. PICK c \in calls : Deny(c) \/ Deliver(c)
      BY <2>5 DEF GetKeyShare
    <3>2. c \in Calls
      BY DEF KeysTypeOK
    <3>3. UNCHANGED <<plugin, calling, starts, keys>>
      BY <2>5 DEF GetKeyShare
    <3>4. CASE Deny(c)
      BY <3>2, <3>3, <3>4, NoKeyType DEF Deny, Reply, KeysTypeOK, CallingInv, Ready, dealerVars
    <3>5. CASE Deliver(c)
      <4>1. keyset' \in 0..generation' /\ generation' \in Nat
        BY <3>5 DEF Deliver, GenerateKeys, KeysTypeOK
      <4>2. Id[c.proc] \in 0..(Expected - 1)
        BY <3>2, <3>5, DistributionAssumption DEF Deliver, Admissible, Calls
      <4>3. [dealer |-> dealer, generation |-> keyset', share |-> Id[c.proc]] \in Keys
        BY <4>1, <4>2, DistributionAssumption DEF Keys, KeysTypeOK
      <4>4. replies' \subseteq [call : Calls, key : Keys] /\ calls' \subseteq Calls
        BY <3>2, <3>5, <4>3 DEF Deliver, Reply, KeysTypeOK
      <4>5. collected' \subseteq 0..(Expected - 1) /\ all_collected' \in BOOLEAN
        BY <3>5, <4>2 DEF Deliver, Collect, KeysTypeOK
      <4> QED
        BY <3>3, <3>5, <4>1, <4>4, <4>5 DEF Deliver, KeysTypeOK, CallingInv, Ready
    <3> QED
      BY <3>1, <3>4, <3>5
  <2>6. CASE DealerStep \/ Signal \/ Kill \/ NewDealer
    <3>1. UNCHANGED <<plugin, calling, starts, keys, generation>>
      BY <2>6 DEF DealerStep, AllServed, DealerShutdown, Drain, ClearSecrets, Signal, Kill,
                  NewDealer, partyVars
    <3>2. dealer' \in 1..MaxDealers
      BY <2>6, DistributionAssumption
      DEF DealerStep, AllServed, DealerShutdown, Drain, ClearSecrets, Signal, Kill, NewDealer, KeysTypeOK
    <3>3. keyset' \in 0..generation /\ calls' \subseteq calls /\ replies' \subseteq replies
      BY <2>6 DEF DealerStep, AllServed, DealerShutdown, Drain, ClearSecrets, Signal, Kill,
                  NewDealer, partyVars, KeysTypeOK
    <3>4. /\ main' \in {"waiting", "grace", "shutdown", "clear", "exited", "killed"}
          /\ accepting' \in BOOLEAN
          /\ collected' \subseteq collected
          /\ all_collected' \in BOOLEAN
      BY <2>6 DEF DealerStep, AllServed, DealerShutdown, Drain, ClearSecrets, Signal, Kill,
                  NewDealer, KeysTypeOK
    <3> QED
      BY <3>1, <3>2, <3>3, <3>4 DEF KeysTypeOK, CallingInv, Ready
  <2>7. CASE UNCHANGED keysVars
    BY <2>7 DEF keysVars, dealerVars, KeysTypeOK, CallingInv, Ready
  <2> QED
    BY <2>1, <2>2, <2>3, <2>4, <2>5, <2>6, <2>7 DEF KeysNext, SetupStep
<1> QED
  BY <1>1, <1>2, PTL DEF KeysSpec

-----------------------------------------------------------------------------
(* A step that hands out no new share and leaves the dealer's key set      *)
(* alone, or ends the process, keeps the invariant.                        *)
LEMMA NoNewShare ==
  ASSUME HeldInv, OneKeySetPerDealer,
         Held' \subseteq Held \union {NoKey},
         dealer' = dealer,
         Alive' => Alive /\ keyset' = keyset,
         dealer \in Nat \ {0}
  PROVE  HeldInv' /\ OneKeySetPerDealer'
<1>1. \A a \in Held' : a \in Held \/ a = NoKey
  OBVIOUS
<1>2. HeldInv'
  BY <1>1, NoKeyType DEF HeldInv
<1>3. \A a, b \in Held \union {NoKey} : a.dealer = b.dealer => a.generation = b.generation
  BY NoKeyType DEF HeldInv, OneKeySetPerDealer
<1> QED
  BY <1>1, <1>2, <1>3 DEF OneKeySetPerDealer

(* dealer.proto: the dealer generates keys on the first request and caches *)
(* them.  No request, however late, gets a share of another key set.       *)
THEOREM OneKeySet == KeysSpec => []OneKeySetPerDealer
<1>1. KeysInit /\ KeysTypeOK => HeldInv /\ OneKeySetPerDealer
  <2> SUFFICES ASSUME KeysInit, KeysTypeOK PROVE HeldInv /\ OneKeySetPerDealer
    OBVIOUS
  <2>1. Held \subseteq {NoKey}
    BY DEF Held, KeysInit
  <2> QED
    BY <2>1, NoKeyType DEF HeldInv, OneKeySetPerDealer, KeysInit
<1>2. KeysTypeOK /\ KeysTypeOK' /\ CallingInv /\ HeldInv /\ OneKeySetPerDealer /\ [KeysNext]_keysVars
      => HeldInv' /\ OneKeySetPerDealer'
  <2> SUFFICES ASSUME KeysTypeOK, KeysTypeOK', CallingInv, HeldInv, OneKeySetPerDealer, [KeysNext]_keysVars
               PROVE  HeldInv' /\ OneKeySetPerDealer'
    OBVIOUS
  <2>a. dealer \in Nat \ {0}
    BY DistributionAssumption DEF KeysTypeOK
  <2>1. ASSUME NEW p \in Procs, SetupStep(p) \/ Restart(p)
        PROVE  HeldInv' /\ OneKeySetPerDealer'
    <3>1. UNCHANGED dealerVars /\ replies' \subseteq replies
      BY <2>1 DEF SetupStep, Fetch, FetchRefused, Receive, GiveUp, Restart, Forget
    <3>2. CASE Fetch(p)
      BY <2>a, <3>1, <3>2, NoNewShare DEF Fetch, Held, Alive, dealerVars
    <3>3. CASE Restart(p)
      <4>1. keys' = [keys EXCEPT ![p] = [k \in PluginIds |-> NoKey]]
        BY <3>3 DEF Restart
      <4>2. \A q \in Procs, k \in PluginIds : keys'[q][k] \in {keys[q][k], NoKey}
        BY <4>1 DEF KeysTypeOK
      <4>3. Held' \subseteq Held \union {NoKey}
        BY <3>1, <4>2 DEF Held
      <4> QED
        BY <2>a, <3>1, <4>3, NoNewShare DEF Alive, dealerVars
    <3>4. CASE FetchRefused(p) \/ Receive(p) \/ GiveUp(p)
      <4>1. PICK key \in {NoKey} \union {r.key : r \in replies} :
               keys' = [keys EXCEPT ![p][plugin[p]] = key]
        BY <3>4 DEF FetchRefused, Receive, GiveUp, FinishSetup
      <4>2. \A q \in Procs, k \in PluginIds : keys'[q][k] \in {keys[q][k], key}
        BY <4>1 DEF KeysTypeOK
      <4>3. Held' \subseteq Held \union {NoKey}
        BY <3>1, <4>1, <4>2 DEF Held
      <4> QED
        BY <2>a, <3>1, <4>3, NoNewShare DEF Alive, dealerVars
    <3> QED
      BY <2>1, <3>2, <3>3, <3>4 DEF SetupStep
  <2>2. CASE GetKeyShare
    <3>1. PICK c \in calls : Deny(c) \/ Deliver(c)
      BY <2>2 DEF GetKeyShare
    <3>2. Alive /\ keys' = keys
      BY <2>2 DEF GetKeyShare, Alive
    <3>3. CASE Deny(c)
      <4>1. Held' \subseteq Held \union {NoKey}
        BY <3>2, <3>3 DEF Deny, Reply, Held
      <4> QED
        BY <2>a, <3>2, <3>3, <4>1, NoNewShare DEF Deny, dealerVars, Alive
    <3>4. CASE Deliver(c)
      <4> DEFINE new == [dealer |-> dealer, generation |-> keyset', share |-> Id[c.proc]]
      <4>1. Held' \subseteq Held \union {new}
        BY <3>2, <3>4 DEF Deliver, Reply, Held
      <4>2. dealer' = dealer /\ main' = main /\ keyset' # 0 /\ (keyset # 0 => keyset' = keyset)
        BY <3>4 DEF Deliver, GenerateKeys, KeysTypeOK
      <4>3. \A a \in Held : a.dealer = dealer => a.generation = keyset'
        BY <3>2, <4>2 DEF HeldInv
      <4>4. new.dealer = dealer /\ new.generation = keyset'
        OBVIOUS
      <4>5. \A a \in Held : a.dealer <= dealer
        BY DEF HeldInv
      <4> HIDE DEF new
      <4> QED
        BY <2>a, <4>1, <4>2, <4>3, <4>4, <4>5 DEF HeldInv, OneKeySetPerDealer
    <3> QED
      BY <3>1, <3>3, <3>4
  <2>3. CASE DealerStep \/ Signal \/ Kill
    <3>1. Held' \subseteq Held /\ dealer' = dealer /\ (Alive' => Alive /\ keyset' = keyset)
      BY <2>3 DEF DealerStep, AllServed, DealerShutdown, Drain, ClearSecrets, Signal, Kill,
                  Held, Alive, partyVars
    <3> QED
      BY <2>a, <3>1, NoNewShare
  <2>4. CASE NewDealer
    <3>1. Held' = Held /\ dealer' = dealer + 1
      BY <2>4 DEF NewDealer, Held, partyVars
    <3>2. \A a \in Held : a.dealer \in Nat
      <4>1. \A a \in Keys : a.dealer \in Nat
        BY DistributionAssumption DEF Keys
      <4>2. Held \subseteq Keys
        BY DEF Held, KeysTypeOK
      <4> QED
        BY <4>1, <4>2
    <3> QED
      BY <2>a, <3>1, <3>2 DEF HeldInv, OneKeySetPerDealer
  <2>5. CASE UNCHANGED keysVars
    <3>1. Held' = Held /\ UNCHANGED <<dealer, main, keyset>>
      BY <2>5 DEF keysVars, dealerVars, Held
    <3> QED
      BY <3>1 DEF HeldInv, OneKeySetPerDealer, Alive
  <2> QED
    BY <2>1, <2>2, <2>3, <2>4, <2>5 DEF KeysNext
<1> QED
  BY <1>1, <1>2, KeysTypeCorrect, PTL DEF KeysSpec

-----------------------------------------------------------------------------
(* Completion is signalled when all are in the set, which then stays full  *)
(* for as long as the process runs.                                        *)
ServedInv == /\ all_collected => collected = 0..(Expected - 1)
             /\ main \in {"grace", "shutdown", "clear", "exited"} => all_collected

(* No signal and no denied request makes the dealer leave early.           *)
THEOREM LeavesServed == KeysSpec => []LeavesOnlyServed
<1>1. KeysInit => ServedInv
  BY DEF KeysInit, ServedInv
<1>2. KeysTypeOK /\ CallingInv /\ ServedInv /\ [KeysNext]_keysVars => ServedInv'
  <2> SUFFICES ASSUME KeysTypeOK, CallingInv, ServedInv, [KeysNext]_keysVars PROVE ServedInv'
    OBVIOUS
  <2>1. ASSUME NEW p \in Procs, SetupStep(p) \/ Restart(p) PROVE ServedInv'
    BY <2>1 DEF SetupStep, Fetch, FetchRefused, Receive, GiveUp, Restart, ServedInv, dealerVars
  <2>2. CASE GetKeyShare
    <3>1. PICK c \in calls : Deny(c) \/ Deliver(c)
      BY <2>2 DEF GetKeyShare
    <3>2. CASE Deny(c)
      BY <3>2 DEF Deny, ServedInv, dealerVars
    <3>3. CASE Deliver(c)
      <4>1. /\ main' = main /\ collected' = collected \union {Id[c.proc]}
            /\ all_collected' = (all_collected \/ collected' = 0..(Expected - 1))
        BY <3>3 DEF Deliver, Collect
      <4>2. Id[c.proc] \in 0..(Expected - 1)
        BY <3>3, DistributionAssumption DEF Deliver, Admissible, KeysTypeOK, Calls
      <4> QED
        BY <4>1, <4>2 DEF ServedInv
    <3> QED
      BY <3>1, <3>2, <3>3
  <2>3. CASE DealerStep \/ Signal \/ Kill \/ NewDealer \/ UNCHANGED keysVars
    BY <2>3 DEF DealerStep, AllServed, DealerShutdown, Drain, ClearSecrets, Signal, Kill, NewDealer,
                ServedInv, keysVars, dealerVars
  <2> QED
    BY <2>1, <2>2, <2>3 DEF KeysNext
<1>3. ServedInv => LeavesOnlyServed
  BY DEF ServedInv, LeavesOnlyServed
<1> QED
  BY <1>1, <1>2, <1>3, KeysTypeCorrect, PTL DEF KeysSpec

-----------------------------------------------------------------------------
(* A share on its way was given to the certificate of its owner.           *)
ReplyInv == \A r \in replies : r.key # NoKey => /\ r.key.share = Id[r.call.proc]
                                                /\ Cn[r.call.proc][r.call.start] = Id[r.call.proc]
                                                /\ Id[r.call.proc] < Expected

(* No restart, late answer or other start of the same party puts a share   *)
(* into a process whose certificate does not own it.                       *)
THEOREM SharesBelongToOwners == KeysSpec => []SharesAreTheOwners
<1>1. KeysInit /\ KeysTypeOK => ReplyInv /\ SharesAreTheOwners
  BY DEF KeysInit, ReplyInv, SharesAreTheOwners
<1>2. KeysTypeOK /\ CallingInv /\ ReplyInv /\ SharesAreTheOwners /\ [KeysNext]_keysVars
      => ReplyInv' /\ SharesAreTheOwners'
  <2> SUFFICES ASSUME KeysTypeOK, CallingInv, ReplyInv, SharesAreTheOwners, [KeysNext]_keysVars
               PROVE  ReplyInv' /\ SharesAreTheOwners'
    OBVIOUS
  <2>1. ASSUME NEW p \in Procs, Fetch(p) PROVE ReplyInv' /\ SharesAreTheOwners'
    BY <2>1 DEF Fetch, ReplyInv, SharesAreTheOwners
  <2>2. ASSUME NEW p \in Procs, Restart(p) PROVE ReplyInv' /\ SharesAreTheOwners'
    <3>1. replies' \subseteq replies
      BY <2>2 DEF Restart, Forget
    <3>2. \A q \in Procs : \/ keys'[q] = keys[q] /\ starts'[q] = starts[q]
                           \/ \A k \in PluginIds : keys'[q][k] = NoKey
      BY <2>2 DEF Restart, KeysTypeOK
    <3> QED
      BY <3>1, <3>2 DEF ReplyInv, SharesAreTheOwners
  <2>3. ASSUME NEW p \in Procs, FetchRefused(p) \/ Receive(p) \/ GiveUp(p)
        PROVE  ReplyInv' /\ SharesAreTheOwners'
    <3>1. replies' \subseteq replies /\ starts' = starts
      BY <2>3 DEF FetchRefused, Receive, GiveUp, Forget, FinishSetup
    <3>2. PICK key : /\ keys' = [keys EXCEPT ![p][plugin[p]] = key]
                     /\ key # NoKey => /\ key.share = Id[p]
                                       /\ Cn[p][starts[p]] = Id[p]
                                       /\ Id[p] < Expected
      <4>1. CASE Receive(p)
        <5>1. PICK r \in replies : r.call = Call(p) /\ FinishSetup(p, r.key)
          BY <4>1 DEF Receive
        <5>2. r.call.proc = p /\ r.call.start = starts[p]
          BY <5>1 DEF Call
        <5>3. r.key # NoKey => /\ r.key.share = Id[p]
                               /\ Cn[p][starts[p]] = Id[p]
                               /\ Id[p] < Expected
          BY <5>2 DEF ReplyInv
        <5>4. keys' = [keys EXCEPT ![p][plugin[p]] = r.key]
          BY <5>1 DEF FinishSetup
        <5> QED
          BY <5>3, <5>4
      <4>2. CASE FetchRefused(p) \/ GiveUp(p)
        <5>1. keys' = [keys EXCEPT ![p][plugin[p]] = NoKey]
          BY <4>2 DEF FetchRefused, GiveUp, FinishSetup
        <5> QED
          BY <5>1
      <4> QED
        BY <2>3, <4>1, <4>2
    <3>3. \A q \in Procs, k \in PluginIds : keys'[q][k] = keys[q][k] \/ (q = p /\ keys'[q][k] = key)
      BY <3>2 DEF KeysTypeOK
    <3> QED
      BY <3>1, <3>2, <3>3 DEF ReplyInv, SharesAreTheOwners
  <2>4. CASE GetKeyShare
    <3>1. keys' = keys /\ starts' = starts
      BY <2>4 DEF GetKeyShare
    <3>2. PICK c \in calls : Deny(c) \/ Deliver(c)
      BY <2>4 DEF GetKeyShare
    <3>3. CASE Deny(c)
      BY <3>1, <3>3 DEF Deny, Reply, ReplyInv, SharesAreTheOwners
    <3>4. CASE Deliver(c)
      <4>1. Cn[c.proc][c.start] = Id[c.proc] /\ Id[c.proc] < Expected
        BY <3>4 DEF Deliver, Admissible
      <4> QED
        BY <3>1, <3>4, <4>1 DEF Deliver, Reply, ReplyInv, SharesAreTheOwners
    <3> QED
      BY <3>2, <3>3, <3>4
  <2>5. CASE DealerStep \/ Signal \/ Kill \/ NewDealer \/ UNCHANGED keysVars
    <3>1. replies' \subseteq replies /\ keys' = keys /\ starts' = starts
      BY <2>5 DEF DealerStep, AllServed, DealerShutdown, Drain, ClearSecrets, Signal, Kill, NewDealer,
                  partyVars, keysVars
    <3> QED
      BY <3>1 DEF ReplyInv, SharesAreTheOwners
  <2> QED
    BY <2>1, <2>2, <2>3, <2>4, <2>5 DEF KeysNext, SetupStep
<1> QED
  BY <1>1, <1>2, KeysTypeCorrect, PTL DEF KeysSpec
=============================================================================
