--------------------------- MODULE MemberSession ---------------------------
(***************************************************************************)
(* One call of runMember of the KS05 plugin (ks05_plugin.cpp; the BEH21    *)
(* plugin has the same text).  The thread of the request, Main, starts the *)
(* inter-party server, waits for a stream of every expected peer, runs the *)
(* protocol on those streams, then releases the handler threads and shuts  *)
(* the server down.  A handler publishes its stream, counts itself in,     *)
(* notifies, and stays until `done`.                                       *)
(*                                                                         *)
(* `incoming_count` and `done` are atomics written WITHOUT the mutex: a    *)
(* notification may fall between a waiter's test of its predicate and the  *)
(* moment the waiter blocks.                                               *)
(***************************************************************************)
EXTENDS Naturals, FiniteSets, Monitor, PartyServer

CONSTANTS
    Main,                  \* the thread of ComputeIntersection
    NoConn                 \* nullptr

ASSUME SessionAssumption ==
    /\ IsFiniteSet(Peers)
    /\ Peers # {}                 \* the leader's stream is always expected
    /\ Main \notin Conns
    /\ NoConn \notin Conns
    /\ NoThread \notin Conns \union {Main}

VARIABLES
    pc,                    \* where Main is in runMember
    channel,               \* ch_from_leader and ch_from_prev, by peer id
    incoming,              \* incoming_count
    done

sessionVars == <<pc, channel, incoming, done>>
vars == <<mu, waiting, server, handlers, at, pc, channel, incoming, done>>

Init == /\ MonitorInit
        /\ ServerInit
        /\ pc = "expect"
        /\ channel = [p \in Peers |-> NoConn]
        /\ incoming = 0
        /\ done = FALSE

Goto(from, to) == pc = from /\ pc' = to

-----------------------------------------------------------------------------
(* Main.                                                                   *)

Expect == /\ Goto("expect", "start")
          /\ ExpectParty(Peers)
          /\ UNCHANGED <<monitorVars, server, at, channel, incoming, done>>

StartServer == /\ Goto("start", "lock")
               /\ Start
               /\ UNCHANGED <<monitorVars, handlers, at, channel, incoming, done>>

(* Mutants: expected_incoming is not raised for the previous member; the   *)
(* comparison is strict.                                                   *)
AllInWithoutPrev == incoming >= 1
AllInStrict == incoming > Cardinality(Peers)

AllIn == incoming >= Cardinality(Peers)

(* cv.wait(lk, [&]{ return incoming_count >= expected_incoming; }) takes   *)
(* the mutex, tests, and either leaves or blocks: three separate steps.    *)
MainLock == /\ pc \in {"lock", "parked"}
            /\ Lock(Main)
            /\ pc' = "test"
            /\ UNCHANGED <<serverVars, channel, incoming, done>>

(* Mutant: wait_for, whose result is not looked at.                        *)
MainTestTimed == /\ \/ ~ AllIn /\ Goto("test", "block") /\ UNCHANGED monitorVars
                    \/ Goto("test", "run") /\ Unlock(Main)
                 /\ UNCHANGED <<serverVars, channel, incoming, done>>

MainTest == /\ \/ ~ AllIn /\ Goto("test", "block") /\ UNCHANGED monitorVars
               \/ AllIn /\ Goto("test", "run") /\ Unlock(Main)
            /\ UNCHANGED <<serverVars, channel, incoming, done>>

MainBlock == /\ Goto("block", "parked")
             /\ Block(Main)
             /\ UNCHANGED <<serverVars, channel, incoming, done>>

(* Connecting to the next member and member.run: either may throw, and no  *)
(* handler in runMember catches it.  Unwinding destroys the condition      *)
(* variable and then the server, whose destructor is a Shutdown.  `done`   *)
(* stays false, so a handler inside its wait has nothing to wake it.       *)
Run == /\ \/ Goto("run", "release")
          \/ Goto("run", "unwind")
       /\ UNCHANGED <<monitorVars, serverVars, channel, incoming, done>>

SetDone == /\ Goto("release", "notify")
           /\ done' = TRUE
           /\ UNCHANGED <<monitorVars, serverVars, channel, incoming>>

NotifyDone == /\ Goto("notify", "shutdown")
              /\ NotifyAll
              /\ UNCHANGED <<serverVars, channel, incoming, done>>

Shutdown == /\ \/ Goto("shutdown", "drain")
               \/ Goto("unwind", "drainThrow")
            /\ BeginShutdown
            /\ UNCHANGED <<monitorVars, handlers, at, channel, incoming, done>>

Return == /\ pc \in {"drain", "drainThrow"}
          /\ Drained
          /\ pc' = (IF pc = "drain" THEN "returned" ELSE "thrown")
          /\ UNCHANGED <<monitorVars, serverVars, channel, incoming, done>>

-----------------------------------------------------------------------------
(* The handler given to expectParty, run by the thread that serves c.      *)

Publish(c) == /\ Move(c, "entered", "published")
              /\ channel' = [channel EXCEPT ![Claim[c]] = c]
              /\ UNCHANGED <<monitorVars, server, handlers, pc, incoming, done>>

Count(c) == /\ Move(c, "published", "counted")
            /\ incoming' = incoming + 1
            /\ UNCHANGED <<monitorVars, server, handlers, pc, channel, done>>

Notify(c) == /\ Move(c, "counted", "lock")
             /\ NotifyAll
             /\ UNCHANGED <<server, handlers, sessionVars>>

HandlerLock(c) == /\ \/ Move(c, "lock", "test")
                     \/ Move(c, "parked", "test")
                  /\ Lock(c)
                  /\ UNCHANGED <<server, handlers, sessionVars>>

(* Mutant: cv.wait without a predicate, so that any notification ends it.  *)
HandlerTestNoPredicate(c) ==
    /\ \/ Move(c, "test", "block") /\ UNCHANGED monitorVars
       \/ Move(c, "test", "finished") /\ Unlock(c)
    /\ UNCHANGED <<server, handlers, sessionVars>>

HandlerTest(c) == /\ \/ ~ done /\ Move(c, "test", "block") /\ UNCHANGED monitorVars
                     \/ done /\ Move(c, "test", "finished") /\ Unlock(c)
                  /\ UNCHANGED <<server, handlers, sessionVars>>

HandlerBlock(c) == /\ Move(c, "block", "parked")
                   /\ Block(c)
                   /\ UNCHANGED <<server, handlers, sessionVars>>

-----------------------------------------------------------------------------
MainStep == \/ Expect \/ StartServer \/ MainLock \/ MainTest \/ MainBlock
            \/ Run \/ SetDone \/ NotifyDone \/ Shutdown \/ Return

HandlerStep(c) == \/ Publish(c) \/ Count(c) \/ Notify(c)
                  \/ HandlerLock(c) \/ HandlerTest(c) \/ HandlerBlock(c)

RouteStep(c) == (Refuse(c) \/ Accept(c)) /\ UNCHANGED <<monitorVars, sessionVars>>

PeerStep(c) == (Connect(c) \/ Greet(c) \/ Break(c)) /\ UNCHANGED <<monitorVars, sessionVars>>

Wake == SpuriousWake /\ UNCHANGED <<serverVars, sessionVars>>

(* The session is over; the process serves the next request elsewhere.     *)
Answered == pc \in {"returned", "thrown"}
Idle == Answered /\ UNCHANGED vars

Next == \/ MainStep
        \/ \E c \in Conns : HandlerStep(c) \/ RouteStep(c) \/ PeerStep(c)
        \/ Wake
        \/ Idle

Spec == Init /\ [][Next]_vars

(* Threads that can run do run, a thread that competes for the mutex       *)
(* again and again gets it, and the peers keep their side of a session     *)
(* (every submitted request connects and says who it is).  The Silent      *)
(* streams promise nothing, and spurious wake-ups are not promised.        *)
Fairness == /\ WF_vars(MainStep) /\ SF_vars(MainLock)
            /\ \A c \in Conns : /\ WF_vars(HandlerStep(c)) /\ SF_vars(HandlerLock(c))
                                /\ WF_vars(RouteStep(c))
            /\ \A c \in Conns \ Silent : WF_vars(PeerStep(c))

FairSpec == Spec /\ Fairness

-----------------------------------------------------------------------------
(* What the abstract session of Rendezvous sees.                           *)
attached == {p \in Peers : channel[p] # NoConn}

Awaiting == pc \in {"expect", "start", "lock", "test", "block", "parked"}

stage == IF Awaiting THEN "awaiting"
         ELSE IF pc = "run" THEN "running"
         ELSE IF Answered THEN "answered" ELSE "releasing"

R == INSTANCE Rendezvous WITH Peers <- Peers, stage <- stage, attached <- attached

-----------------------------------------------------------------------------
(* Properties.                                                             *)

InHandler == {"entered", "published", "counted", "lock", "test", "block", "parked"}

TypeOK == /\ mu \in Conns \union {Main, NoThread}
          /\ waiting \subseteq Conns \union {Main}
          /\ server \in {"off", "listening", "draining", "unbound"}
          /\ handlers \subseteq Peers
          /\ at \in [Conns -> Outside \union InHandler]
          /\ pc \in {"expect", "start", "lock", "test", "block", "parked", "run",
                     "release", "notify", "shutdown", "drain", "returned",
                     "unwind", "drainThrow", "thrown"}
          /\ channel \in [Peers -> Conns \union {NoConn}]
          /\ incoming \in Nat
          /\ done \in BOOLEAN

(* The pointers member.run is given (channels[0], channels[1]) are the     *)
(* streams of the very peers they stand for, with certificates that say    *)
(* so, and the handler frames that own those streams are still on their    *)
(* threads' stacks.                                                        *)
StreamsUsable ==
    pc = "run" => \A p \in Peers : /\ channel[p] \in Open
                                   /\ Claim[channel[p]] = p
                                   /\ CertMatches(channel[p])

(* A peer that opens a second stream never gets a second handler, so it    *)
(* cannot be counted twice toward expected_incoming or replace a stream.   *)
OneStreamPerPeer ==
    \A c, d \in Conns : at[c] \in InHandler \union {"finished"}
                       /\ at[d] \in InHandler \union {"finished"}
                       /\ Claim[c] = Claim[d] => c = d

(* An exception out of member.run never becomes the STATUS_ERROR of        *)
(* ComputeIntersection: the handlers wait for `done`, which unwinding does *)
(* not set, and the server's destructor waits for the handlers.            *)
ErrorNeverReported == pc # "thrown"

(* The session promises what Rendezvous says, as far as safety goes.       *)
ImplementsRendezvous == R!Spec

(* A wake-up is lost when a waiter whose predicate holds is blocked and    *)
(* every notification meant for it has been sent.                          *)
LostWakeup == \/ /\ Main \in waiting
                 /\ AllIn
                 /\ \A c \in Conns : at[c] # "counted"
              \/ /\ \E c \in Conns : c \in waiting
                 /\ done
                 /\ pc # "notify"

(* The only ways for a member all of whose peers attached to leave its     *)
(* client without an answer: a lost wake-up, an exception, or a stream     *)
(* that some client opened and never says anything on.                     *)
HangsOnlyFor ==
    (attached = Peers) ~> \/ Answered
                          \/ LostWakeup
                          \/ pc = "drainThrow"
                          \/ [](\E c \in Silent : at[c] = "opened")

(* psi_service.proto: the call blocks until all parties have submitted and *)
(* the protocol finishes; here, a run that has finished returns.           *)
ReturnsOnceFinished == (pc = "release") ~> (pc = "returned")
=============================================================================
