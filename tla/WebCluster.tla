----------------------------- MODULE WebCluster -----------------------------
(***************************************************************************)
(* The web server's one cluster of local processes (webapp/cluster.py) and *)
(* the requests that start, use and stop it (webapp/server.py), each in a  *)
(* thread of its own.                                                      *)
(*                                                                         *)
(* start() and stop() hold _LOCK from their first look at the globals to   *)
(* their end, status() while it looks; handle_demo calls the three one     *)
(* after the other.  While the lock is held only processes move: they come *)
(* to listen, and they end, by themselves (the dealer when it has served   *)
(* everybody) or by a crash.  A process is named by its role and by the    *)
(* request that spawned it.                                                *)
(***************************************************************************)
EXTENDS Naturals

CONSTANTS
    Threads,               \* the threads of the web server
    Kind,                  \* Kind[r]: "demo", "start", "stop", or "exit" (atexit)
    NumParties,            \* NumParties[r], of a demo or a start
    Dealerless,            \* the requests whose protocol has no dealer
    Dealer,                \* the dealer's role; a party's is its index
    Stubborn,              \* bound: the processes that may outlive SIGKILL
    NoRequest              \* the value of `lock` while it is free

ASSUME ClusterAssumption ==
    /\ Kind \in [Threads -> {"demo", "start", "stop", "exit"}]
    /\ NumParties \in [Threads -> 2..16]
    /\ Dealerless \subseteq Threads
    /\ Dealer \notin Nat
    /\ NoRequest \notin Threads

VARIABLES
    at,                    \* at[r]: where the thread of r is
    lock,                  \* the request that holds _LOCK, or NoRequest
    stage,                 \* where the holder is in start() or stop()
    next,                  \* the party that start() spawns, or waits for, next
    handles,               \* the processes in _DEALER and _PARTIES
    num_parties,           \* len(_PARTIES)
    alive, listening,      \* the processes that run; that accept connections
    survivors,             \* those that stop() has given up on
    broken                 \* the requests whose Popen raised

processVars == <<alive, listening, survivors>>
globals == <<handles, num_parties>>
clusterVars == <<at, lock, stage, next, handles, num_parties, alive, listening,
                survivors, broken>>

Proc(role, r) == [role |-> role, by |-> r]
IsListening(role) == \E p \in listening : p.role = role
Alive(roles) == {p \in handles \intersect alive : p.role \in roles}

First == [demo |-> "status", start |-> "start", stop |-> "stop", exit |-> "exit"]

ClusterInit == /\ at = [r \in Threads |-> "idle"]
               /\ lock = NoRequest
               /\ stage = "none"
               /\ next = 0
               /\ handles = {}
               /\ num_parties = 0
               /\ alive = {}
               /\ listening = {}
               /\ survivors = {}
               /\ broken = {}

Move(r, from, to) == at[r] = from /\ at' = [at EXCEPT ![r] = to]

Release == lock' = NoRequest /\ stage' = "none"

-----------------------------------------------------------------------------
(* handle_demo outside the cluster's functions.                            *)

Arrive(r) == /\ Move(r, "idle", First[Kind[r]])
             /\ UNCHANGED <<lock, stage, next, globals, processVars, broken>>

(* already_matches.  status() has no entry "protocol", so the comparison   *)
(* with the protocol that is wanted fails.                                 *)
StatusProtocolIs(r) == FALSE

Matches(r) == /\ r \in Dealerless \/ Alive({Dealer}) # {}
              /\ num_parties = NumParties[r]
              /\ StatusProtocolIs(r)
              /\ \A i \in 0..(num_parties - 1) : Alive({i}) # {} /\ IsListening(i)

(* What the demo does next is decided here, and done without the lock.     *)
Status(r) ==
    /\ lock = NoRequest
    /\ Move(r, "status", IF Matches(r) THEN "reuse"
                         ELSE IF num_parties > 0 \/ Alive({Dealer}) # {} THEN "clear"
                         ELSE "start")
    /\ UNCHANGED <<lock, stage, next, globals, processVars, broken>>

(* Mutant: the cluster is torn down only after a run without exception.    *)
RunWithoutFinally(r) ==
    /\ \/ Move(r, "run", "teardown")
       \/ Move(r, "run", "done")
    /\ UNCHANGED <<lock, stage, next, globals, processVars, broken>>

(* The clients of all parties, with their timeouts; `finally`.             *)
Run(r) == /\ at[r] \in {"run", "reuse"}
          /\ at' = [at EXCEPT ![r] = IF at[r] = "run" THEN "teardown" ELSE "done"]
          /\ UNCHANGED <<lock, stage, next, globals, processVars, broken>>

-----------------------------------------------------------------------------
(* stop() and _stop_unlocked().                                            *)

(* SIGTERM to every process in the globals.                                *)
Stop(r) == /\ at[r] \in {"clear", "stop", "teardown"}
           /\ lock = NoRequest
           /\ lock' = r
           /\ stage' = "signalled"
           /\ UNCHANGED <<at, next, globals, processVars, broken>>

(* _cleanup_at_exit stops only what still runs.                            *)
CleanupAtExit(r) ==
    /\ at[r] = "exit"
    /\ lock = NoRequest
    /\ \/ /\ handles \intersect alive # {}
          /\ lock' = r /\ stage' = "signalled"
          /\ UNCHANGED at
       \/ /\ handles \intersect alive = {}
          /\ Move(r, "exit", "done")
          /\ UNCHANGED <<lock, stage>>
    /\ UNCHANGED <<next, globals, processVars, broken>>

AfterStop == [clear |-> "start", stop |-> "done", teardown |-> "done", exit |-> "done", start |-> "failed"]

(* What does not end in its time after SIGTERM gets SIGKILL and two more   *)
(* seconds.  If that fails or does not help, the handle is dropped all the *)
(* same.                                                                   *)
Reap(r) == /\ lock = r /\ stage = "signalled"
           /\ \E left \in SUBSET (handles \intersect alive \intersect Stubborn) :
                 /\ alive' = alive \ (handles \ left)
                 /\ listening' = listening \ (handles \ left)
                 /\ survivors' = (survivors \ handles) \union left
           /\ handles' = {}
           /\ num_parties' = 0
           /\ at' = [at EXCEPT ![r] = AfterStop[at[r]]]
           /\ Release
           /\ UNCHANGED <<next, broken>>

-----------------------------------------------------------------------------
(* start().                                                                *)

(* Mutant: a cluster without its dealer counts as stopped.                 *)
RunningDealer == Alive({Dealer}) # {}

Running == handles \intersect alive # {}

(* "cluster already running; stop it first".                               *)
StartRefused(r) == /\ lock = NoRequest
                   /\ Running
                   /\ Move(r, "start", "failed")
                   /\ UNCHANGED <<lock, stage, next, globals, processVars, broken>>

(* _DEALER keeps the handle of a dealer that has ended.                    *)
StartBegins(r) == /\ at[r] = "start"
                  /\ lock = NoRequest
                  /\ ~ Running
                  /\ lock' = r
                  /\ stage' = (IF r \in Dealerless THEN "spawnParties" ELSE "spawnDealer")
                  /\ next' = 0
                  /\ handles' = {p \in handles : p.role = Dealer}
                  /\ num_parties' = NumParties[r]
                  /\ UNCHANGED <<at, processVars, broken>>

Holds(r, s) == lock = r /\ stage = s

SpawnDealer(r) == /\ Holds(r, "spawnDealer")
                  /\ handles' = {p \in handles : p.role # Dealer} \union {Proc(Dealer, r)}
                  /\ alive' = alive \union {Proc(Dealer, r)}
                  /\ stage' = "awaitDealer"
                  /\ UNCHANGED <<at, lock, next, num_parties, listening, survivors, broken>>

DealerIsUp(r) == /\ Holds(r, "awaitDealer")
                 /\ IsListening(Dealer)
                 /\ stage' = "spawnParties"
                 /\ UNCHANGED <<at, lock, next, globals, processVars, broken>>

SpawnParty(r) == /\ Holds(r, "spawnParties")
                 /\ handles' = handles \union {Proc(next, r)}
                 /\ alive' = alive \union {Proc(next, r)}
                 /\ \/ /\ next + 1 < NumParties[r]
                       /\ next' = next + 1
                       /\ UNCHANGED stage
                    \/ /\ next + 1 = NumParties[r]
                       /\ next' = 0
                       /\ stage' = "awaitParties"
                 /\ UNCHANGED <<at, lock, num_parties, listening, survivors, broken>>

(* An exception out of Popen leaves start() as it is; the lock is released.*)
SpawnFails(r) == /\ Holds(r, "spawnDealer") \/ Holds(r, "spawnParties")
                 /\ at' = [at EXCEPT ![r] = "failed"]
                 /\ broken' = broken \union {r}
                 /\ Release
                 /\ UNCHANGED <<next, globals, processVars>>

PartyIsUp(r) ==
    /\ Holds(r, "awaitParties")
    /\ IsListening(next)
    /\ \/ /\ next + 1 < NumParties[r]
          /\ next' = next + 1
          /\ UNCHANGED <<at, lock, stage>>
       \/ /\ next + 1 = NumParties[r]
          /\ at' = [at EXCEPT ![r] = IF Kind[r] = "demo" THEN "run" ELSE "done"]
          /\ Release
          /\ UNCHANGED next
    /\ UNCHANGED <<globals, processVars, broken>>

(* Mutant: stop() instead of _stop_unlocked(): it waits for the lock.      *)
TimeOutStops(r) == /\ Holds(r, "awaitDealer") \/ Holds(r, "awaitParties")
                   /\ lock # r
                   /\ stage' = "signalled"
                   /\ UNCHANGED <<at, lock, next, globals, processVars, broken>>

(* The startup deadline passes, for the dealer or for a party, or a party  *)
(* turns out to lack the protocol.                                         *)
TimeOut(r) == /\ Holds(r, "awaitDealer") \/ Holds(r, "awaitParties")
              /\ stage' = "signalled"
              /\ UNCHANGED <<at, lock, next, globals, processVars, broken>>

-----------------------------------------------------------------------------
(* The processes.                                                          *)

Listen(p) == /\ p \in alive \ listening
             /\ listening' = listening \union {p}
             /\ UNCHANGED <<at, lock, stage, next, globals, alive, survivors, broken>>

End(p) == /\ p \in alive
          /\ alive' = alive \ {p}
          /\ listening' = listening \ {p}
          /\ survivors' = survivors \ {p}
          /\ UNCHANGED <<at, lock, stage, next, globals, broken>>

-----------------------------------------------------------------------------
Step(r) == \/ Status(r) \/ Run(r)
           \/ Stop(r) \/ CleanupAtExit(r) \/ Reap(r)
           \/ StartRefused(r) \/ StartBegins(r)
           \/ SpawnDealer(r) \/ DealerIsUp(r) \/ SpawnParty(r) \/ SpawnFails(r)
           \/ PartyIsUp(r) \/ TimeOut(r)

ClusterNext == \/ \E r \in Threads : Arrive(r) \/ Step(r)
               \/ \E p \in alive : Listen(p) \/ End(p)

ClusterSpec == ClusterInit /\ [][ClusterNext]_clusterVars

(* Threads run.  No thread has more than a few steps, so it is enough that *)
(* one that can run does; one that waits for the lock gets it in the end.  *)
ClusterFairness == WF_clusterVars(\E r \in Threads : Step(r))

-----------------------------------------------------------------------------
Over(r) == at[r] \in {"done", "failed"}

Procs == [role : {Dealer} \union Nat, by : Threads]

TypeOK == /\ at \in [Threads -> {"idle", "status", "clear", "start", "run", "reuse",
                                 "teardown", "stop", "exit", "done", "failed"}]
          /\ lock \in Threads \union {NoRequest}
          /\ stage \in {"none", "spawnDealer", "awaitDealer", "spawnParties",
                        "awaitParties", "signalled"}
          /\ next \in Nat
          /\ handles \subseteq Procs
          /\ num_parties \in Nat
          /\ alive \subseteq Procs
          /\ listening \subseteq alive
          /\ survivors \subseteq alive
          /\ broken \subseteq Threads

(* No process escapes: what runs is in the globals, where the next stop()  *)
(* finds it, however starts, stops, failures and exits interleave; but for *)
(* one that has outlived a SIGKILL.                                        *)
NoStrayProcess == alive \subseteq handles \union survivors

(* A request that is over leaves no process of its own behind, unless it   *)
(* was a start that succeeded, or Popen raised, or SIGKILL did not help: a *)
(* demo tears its cluster down, or somebody else has, whatever ran at the  *)
(* same time.                                                              *)
LeavesNothingBehind ==
    \A p \in alive \ survivors : Over(p.by) => \/ Kind[p.by] = "start" /\ at[p.by] = "done"
                                   \/ p.by \in broken

(* Every request is answered: no path through the module keeps the lock,   *)
(* or wants it twice.                                                      *)
EveryRequestEnds == <>[](\A r \in Threads : at[r] = "idle" \/ Over(r))
=============================================================================
