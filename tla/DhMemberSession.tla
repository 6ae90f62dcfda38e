-------------------------- MODULE DhMemberSession --------------------------
(***************************************************************************)
(* One call of runMember of the two-party DH plugin (dhpsi_protocol.cpp).  *)
(* It has the shape of MemberSession, with the two differences that        *)
(* matter: `connected` and `done` are written inside the mutex, and an     *)
(* exception out of member.run releases the handler before it leaves.      *)
(* A critical section is one step, taken while no thread holds the mutex.  *)
(***************************************************************************)
EXTENDS Naturals, Monitor, PartyServer

CONSTANTS
    Main,                  \* the thread of ComputeIntersection
    NoConn                 \* nullptr

ASSUME DhSessionAssumption ==
    /\ \E leader \in Parties : Peers = {leader}
    /\ Main \notin Conns
    /\ NoConn \notin Conns
    /\ NoThread \notin Conns \union {Main}

VARIABLES
    pc,                    \* where Main is in runMember
    leader_channel,
    connected,
    done

sessionVars == <<pc, leader_channel, connected, done>>
vars == <<mu, waiting, server, handlers, at, pc, leader_channel, connected, done>>

Init == /\ MonitorInit
        /\ ServerInit
        /\ pc = "expect"
        /\ leader_channel = NoConn
        /\ connected = FALSE
        /\ done = FALSE

Goto(from, to) == pc = from /\ pc' = to

CriticalSection == mu = NoThread /\ UNCHANGED monitorVars

-----------------------------------------------------------------------------
(* Main.                                                                   *)

Expect == /\ Goto("expect", "start")
          /\ ExpectParty(Peers)
          /\ UNCHANGED <<monitorVars, server, at, leader_channel, connected, done>>

StartServer == /\ Goto("start", "lock")
               /\ Start
               /\ UNCHANGED <<monitorVars, handlers, at, leader_channel, connected, done>>

MainLock == /\ pc \in {"lock", "parked"}
            /\ Lock(Main)
            /\ pc' = "test"
            /\ UNCHANGED <<serverVars, leader_channel, connected, done>>

MainTest == /\ \/ ~ connected /\ Goto("test", "block") /\ UNCHANGED monitorVars
               \/ connected /\ Goto("test", "run") /\ Unlock(Main)
            /\ UNCHANGED <<serverVars, leader_channel, connected, done>>

MainBlock == /\ Goto("block", "parked")
             /\ Block(Main)
             /\ UNCHANGED <<serverVars, leader_channel, connected, done>>

(* DhPsiMember().run returns or throws (DhPsi has its steps); the catch    *)
(* clause and the normal path then do the same three things, and the first *)
(* rethrows.                                                               *)
Run == /\ \/ Goto("run", "release")
          \/ Goto("run", "catch")
       /\ UNCHANGED <<monitorVars, serverVars, leader_channel, connected, done>>

(* Mutant: the catch clause is missing, as in the other plugins.           *)
SetDoneOnReturn == /\ Goto("release", "notify")
                   /\ CriticalSection
                   /\ done' = TRUE
                   /\ UNCHANGED <<serverVars, leader_channel, connected>>

SetDone == /\ \/ Goto("release", "notify")
              \/ Goto("catch", "notifyThrow")
           /\ CriticalSection
           /\ done' = TRUE
           /\ UNCHANGED <<serverVars, leader_channel, connected>>

NotifyDone == /\ \/ Goto("notify", "shutdown")
                 \/ Goto("notifyThrow", "shutdownThrow")
              /\ NotifyAll
              /\ UNCHANGED <<serverVars, leader_channel, connected, done>>

Shutdown == /\ \/ Goto("shutdown", "drain")
               \/ Goto("shutdownThrow", "drainThrow")
            /\ BeginShutdown
            /\ UNCHANGED <<monitorVars, handlers, at, leader_channel, connected, done>>

(* Mutant: the server is told to stop and not waited for.                  *)
ReturnAtOnce == /\ \/ Goto("drain", "returned")
                   \/ Goto("drainThrow", "thrown")
                /\ UNCHANGED <<monitorVars, serverVars, leader_channel, connected, done>>

Return == /\ \/ Goto("drain", "returned")
             \/ Goto("drainThrow", "thrown")
          /\ Drained
          /\ UNCHANGED <<monitorVars, serverVars, leader_channel, connected, done>>

-----------------------------------------------------------------------------
(* The handler of the leader's stream.                                     *)

(* Mutant: the flag is set outside the mutex, as in the other plugins.     *)
PublishUnlocked(c) == /\ Move(c, "entered", "published")
                      /\ leader_channel' = c
                      /\ connected' = TRUE
                      /\ UNCHANGED <<monitorVars, server, handlers, pc, done>>

Publish(c) == /\ Move(c, "entered", "published")
              /\ CriticalSection
              /\ leader_channel' = c
              /\ connected' = TRUE
              /\ UNCHANGED <<server, handlers, pc, done>>

Notify(c) == /\ Move(c, "published", "lock")
             /\ NotifyAll
             /\ UNCHANGED <<server, handlers, sessionVars>>

HandlerLock(c) == /\ \/ Move(c, "lock", "test")
                     \/ Move(c, "parked", "test")
                  /\ Lock(c)
                  /\ UNCHANGED <<server, handlers, sessionVars>>

(* Mutant: the handler waits for the wrong flag.                           *)
HandlerTestConnected(c) ==
    /\ \/ ~ connected /\ Move(c, "test", "block") /\ UNCHANGED monitorVars
       \/ connected /\ Move(c, "test", "finished") /\ Unlock(c)
    /\ UNCHANGED <<server, handlers, sessionVars>>

HandlerTest(c) == /\ \/ ~ done /\ Move(c, "test", "block") /\ UNCHANGED monitorVars
                     \/ done /\ Move(c, "test", "finished") /\ Unlock(c)
                  /\ UNCHANGED <<server, handlers, sessionVars>>

HandlerBlock(c) == /\ Move(c, "block", "parked")
                   /\ Block(c)
                   /\ UNCHANGED <<server, handlers, sessionVars>>

-----------------------------------------------------------------------------
MainStep == \/ Expect \/ StartServer \/ MainLock \/ MainTest \/ MainBlock
            \/ Run \/ SetDone \/ NotifyDone \/ Shutdown \/ Return

HandlerStep(c) == \/ Publish(c) \/ Notify(c)
                  \/ HandlerLock(c) \/ HandlerTest(c) \/ HandlerBlock(c)

RouteStep(c) == (Refuse(c) \/ Accept(c)) /\ UNCHANGED <<monitorVars, sessionVars>>

PeerStep(c) == (Connect(c) \/ Greet(c) \/ Break(c)) /\ UNCHANGED <<monitorVars, sessionVars>>

Wake == SpuriousWake /\ UNCHANGED <<serverVars, sessionVars>>

Answered == pc \in {"returned", "thrown"}
Idle == Answered /\ UNCHANGED vars

Next == \/ MainStep
        \/ \E c \in Conns : HandlerStep(c) \/ RouteStep(c) \/ PeerStep(c)
        \/ Wake
        \/ Idle

Spec == Init /\ [][Next]_vars

-----------------------------------------------------------------------------
attached == IF leader_channel = NoConn THEN {} ELSE Peers

Awaiting == pc \in {"expect", "start", "lock", "test", "block", "parked"}

stage == IF Awaiting THEN "awaiting"
         ELSE IF pc = "run" THEN "running"
         ELSE IF Answered THEN "answered" ELSE "releasing"

R == INSTANCE Rendezvous WITH Peers <- Peers, stage <- stage, attached <- attached

-----------------------------------------------------------------------------
InHandler == {"entered", "published", "lock", "test", "block", "parked"}

TypeOK == /\ mu \in Conns \union {Main, NoThread}
          /\ waiting \subseteq Conns \union {Main}
          /\ server \in {"off", "listening", "draining", "unbound"}
          /\ handlers \subseteq Peers
          /\ at \in [Conns -> Outside \union InHandler]
          /\ pc \in {"expect", "start", "lock", "test", "block", "parked", "run",
                     "release", "notify", "shutdown", "drain", "returned",
                     "catch", "notifyThrow", "shutdownThrow", "drainThrow", "thrown"}
          /\ leader_channel \in Conns \union {NoConn}
          /\ connected \in BOOLEAN
          /\ done \in BOOLEAN

(* The thread of the call and those of the handlers use each other's       *)
(* locals, and none that is gone: from the call of member.run until `done` *)
(* is set, on the normal path and in the catch clause, the frame of the    *)
(* handler that owns leader_channel exists, and it is the leader's stream; *)
(* and when runMember has left, by return or by exception, no handler      *)
(* thread can still touch mu, cv or done.                                  *)
LocalsOutliveUse ==
    /\ pc \in {"run", "release", "catch"} =>
          /\ leader_channel \in Open
          /\ Claim[leader_channel] \in Peers
          /\ CertMatches(leader_channel)
    /\ Answered => Open = {}

(* The session implements Rendezvous, its liveness included: writing the   *)
(* flags inside the mutex loses no wake-up, and an exception is answered.  *)
ImplementsFairRendezvous == R!FairSpec

(* A thread that waits for a flag already set is about to be notified: no  *)
(* thread relies on a spurious wake-up.                                    *)
NoLostWakeup ==
    /\ Main \in waiting /\ connected => \E c \in Conns : at[c] = "published"
    /\ done /\ (\E c \in Conns : c \in waiting) => pc \in {"notify", "notifyThrow"}
=============================================================================
