---------------------------- MODULE PartyServer ----------------------------
(***************************************************************************)
(* The inter-party gRPC server a member starts for one session             *)
(* (core/transport/party_server.h): it reads the party id a client claims  *)
(* in its first message, checks it against the certificate, and hands the  *)
(* stream to the handler registered for that id.  A handler is moved out   *)
(* of the table, so it serves one stream at most.  The thread that serves  *)
(* stream c is at[c]; what a handler does once it has the stream belongs   *)
(* to the plugin, in the modules that extend this one.                     *)
(*                                                                         *)
(* A stream can stay without its first message: its thread then waits in   *)
(* the Read of the handshake, which has no deadline.                       *)
(***************************************************************************)
CONSTANTS
    Parties,               \* the party ids
    Peers,                 \* the ids the session registers: leader, or leader and prev
    Conns,                 \* the streams clients open during the session
    Claim,                 \* Claim[c]: the id sent in the handshake of c
    Cert,                  \* Cert[c]: the id in the certificate's CN, or NoCert
    NoCert,
    Silent                 \* the streams whose handshake may never come

ASSUME ServerAssumption ==
    /\ Peers \subseteq Parties
    /\ Claim \in [Conns -> Parties]
    /\ Cert \in [Conns -> Parties \union {NoCert}]
    /\ Silent \subseteq Conns

VARIABLES
    server,                \* "off", "listening", "draining" (in Shutdown) or "unbound"
    handlers,              \* handlers_: the ids with a handler not yet taken
    at                     \* at[c]: where the thread serving c is

serverVars == <<server, handlers, at>>

(* Stages of a stream outside the handler; the others are inside it.       *)
Outside == {"away", "opened", "greeted", "refused", "finished"}

ServerInit == /\ server = "off"
              /\ handlers = {}
              /\ at = [c \in Conns |-> "away"]

Move(c, from, to) == at[c] = from /\ at' = [at EXCEPT ![c] = to]

ExpectParty(ids) == handlers' = handlers \union ids

(* start(): BuildAndStart returns null when the port cannot be bound, and  *)
(* start() does not look at what it returned.                              *)
Start == server = "off" /\ server' \in {"listening", "unbound"}

(* A client's stream reaches the server, which waits for its handshake.    *)
Connect(c) == /\ server = "listening"
              /\ Move(c, "away", "opened")
              /\ UNCHANGED <<server, handlers>>

Greet(c) == Move(c, "opened", "greeted") /\ UNCHANGED <<server, handlers>>

(* The stream ends before its handshake: INVALID_ARGUMENT.                 *)
Break(c) == /\ c \in Silent
            /\ Move(c, "opened", "refused")
            /\ UNCHANGED <<server, handlers>>

CertMatches(c) == Cert[c] \in {NoCert, Claim[c]}

(* ProtocolChannel up to the call of the handler: PERMISSION_DENIED,       *)
(* NOT_FOUND, or the handler is taken under the table's own mutex.         *)
Refuse(c) == /\ ~ CertMatches(c) \/ Claim[c] \notin handlers
             /\ Move(c, "greeted", "refused")
             /\ UNCHANGED <<server, handlers>>

Accept(c) == /\ CertMatches(c)
             /\ Claim[c] \in handlers
             /\ handlers' = handlers \ {Claim[c]}
             /\ Move(c, "greeted", "entered")
             /\ UNCHANGED server

(* Server::Shutdown(): no new stream, then wait until every call returned. *)
BeginShutdown == server' = (IF server = "listening" THEN "draining" ELSE server)

(* A stream that has sent nothing yet is a call like any other.            *)
Drained == \A c \in Conns : at[c] \in {"away", "refused", "finished"}

(* The streams that are inside their handler, and so still usable.         *)
Open == {c \in Conns : at[c] \notin Outside}
=============================================================================
