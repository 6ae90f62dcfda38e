-------------------------- MODULE KeyDistribution --------------------------
(***************************************************************************)
(* How parties get their Paillier key shares: the dealer process           *)
(* (dealer/main.cpp around KeyDealerImpl) and the start-up of the party    *)
(* processes, in which every dealer-backed plugin in turn fetches a share  *)
(* with a deadline (PsiServiceImpl's constructor, fetchKeyShareFromDealer).*)
(*                                                                         *)
(* GetKeyShare runs under the dealer's mutex from its first line to its    *)
(* last, so it is one step; what interleaves is requests that queue for    *)
(* the mutex, answers under way, deadlines, the dealer's main thread, and  *)
(* processes that are killed and started again.                            *)
(***************************************************************************)
EXTENDS Naturals

CONSTANTS
    Procs,                 \* party processes
    Id,                    \* Id[p]: config_.party_id, from the sorted addresses
    NumParties,            \* NumParties[p]: config_.num_parties, the addresses p was given
    Cn,                    \* Cn[p][i]: the id in the certificate of p's i-th start
    Expected,              \* --parties of the dealer
    Plugins,               \* how many plugins fetch a share: BEH21, then KS05
    Faults,                \* a subset of {"deadline", "signal", "kill", "restart"}
    MaxDealers,            \* bound: dealer processes started, one after the other
    MaxStarts              \* bound: starts of one party process

ASSUME DistributionAssumption ==
    /\ Id \in [Procs -> Nat]
    /\ NumParties \in [Procs -> Nat]
    /\ Cn \in [Procs -> [1..MaxStarts -> Nat]]
    /\ Expected \in Nat
    /\ Plugins \in Nat \ {0}
    /\ MaxDealers \in Nat \ {0}
    /\ MaxStarts \in Nat \ {0}

VARIABLES
    dealer,                \* number of the dealer process, from 1
    main,                  \* its main thread: "waiting", "grace", "shutdown",
                           \* "clear", "exited", or "killed" with the process
    accepting,             \* its server takes new calls
    keyset,                \* pub_key_ and secret_keys_, as the number of their
                           \* generation; 0 when keys_generated_ is false
    generation,            \* generations made so far, by any dealer
    collected,             \* collected_
    all_collected,
    calls,                 \* calls inside the dealer's server, waiting for mu_
    replies,               \* answers not yet seen by the party
    plugin,                \* plugin[p]: the one p sets up; Plugins + 1 when p serves
    calling,               \* calling[p]: the fetch of that plugin is outstanding
    starts,                \* starts[p]: how often p was started
    keys                   \* keys[p][k]: the share plugin k of p holds, or NoKey

dealerVars == <<dealer, main, accepting, keyset, generation, collected, all_collected>>
keysVars == <<dealerVars, calls, replies, plugin, calling, starts, keys>>

PluginIds == 1..Plugins

NoKey == [dealer |-> 0, generation |-> 0, share |-> 0]

Keys == [dealer : 0..MaxDealers, generation : Nat, share : Nat]

Calls == [proc : Procs, plugin : PluginIds, start : 1..MaxStarts]

KeysInit == /\ dealer = 1
            /\ main = "waiting"
            /\ accepting = TRUE
            /\ keyset = 0
            /\ generation = 0
            /\ collected = {}
            /\ all_collected = FALSE
            /\ calls = {}
            /\ replies = {}
            /\ plugin = [p \in Procs |-> 1]
            /\ calling = [p \in Procs |-> FALSE]
            /\ starts = [p \in Procs |-> 1]
            /\ keys = [p \in Procs |-> [k \in PluginIds |-> NoKey]]

-----------------------------------------------------------------------------
(* A party's start-up.                                                     *)

Ready(p) == plugin[p] = Plugins + 1

Call(p) == [proc |-> p, plugin |-> plugin[p], start |-> starts[p]]

(* setup() of the current plugin returned; on failure it has no key and is *)
(* left out of protocols_.                                                 *)
FinishSetup(p, key) ==
    /\ keys' = [keys EXCEPT ![p][plugin[p]] = key]
    /\ plugin' = [plugin EXCEPT ![p] = @ + 1]
    /\ calling' = [calling EXCEPT ![p] = FALSE]
    /\ UNCHANGED starts

(* Answers to a call that p has abandoned reach nobody.                    *)
Forget(p) == replies' = {r \in replies : r.call.proc # p}

Fetch(p) == /\ ~ Ready(p) /\ ~ calling[p]
            /\ accepting
            /\ calls' = calls \union {Call(p)}
            /\ calling' = [calling EXCEPT ![p] = TRUE]
            /\ UNCHANGED <<dealerVars, replies, plugin, starts, keys>>

(* Mutant: the party tries until a dealer answers.                         *)
FetchRetried(p) == ~ Ready(p) /\ ~ calling[p] /\ ~ accepting /\ UNCHANGED keysVars

(* The dealer does not answer the connection: UNAVAILABLE.                 *)
FetchRefused(p) == /\ ~ Ready(p) /\ ~ calling[p]
                   /\ ~ accepting
                   /\ FinishSetup(p, NoKey)
                   /\ UNCHANGED <<dealerVars, calls, replies>>

Receive(p) == /\ calling[p]
              /\ \E r \in replies : /\ r.call = Call(p)
                                    /\ replies' = replies \ {r}
                                    /\ FinishSetup(p, r.key)
              /\ UNCHANGED <<dealerVars, calls>>

(* 120 seconds passed, or the connection to a killed dealer broke.  The    *)
(* deadline does not withdraw the call from the dealer.                    *)
GiveUp(p) == /\ calling[p]
             /\ \/ "deadline" \in Faults
                \/ Call(p) \notin calls \union {r.call : r \in replies}
             /\ Forget(p)
             /\ FinishSetup(p, NoKey)
             /\ UNCHANGED <<dealerVars, calls>>

Restart(p) == /\ "restart" \in Faults
              /\ starts[p] < MaxStarts
              /\ starts' = [starts EXCEPT ![p] = @ + 1]
              /\ plugin' = [plugin EXCEPT ![p] = 1]
              /\ calling' = [calling EXCEPT ![p] = FALSE]
              /\ keys' = [keys EXCEPT ![p] = [k \in PluginIds |-> NoKey]]
              /\ Forget(p)
              /\ UNCHANGED <<dealerVars, calls>>

-----------------------------------------------------------------------------
(* KeyDealerImpl::GetKeyShare.                                             *)

(* Mutant: the certificate is not compared with the claimed id.            *)
AdmissibleByClaim(p, start) == /\ Id[p] < NumParties[p]
                               /\ NumParties[p] <= 100
                               /\ NumParties[p] = Expected

Admissible(p, start) == /\ Cn[p][start] = Id[p]
                        /\ Id[p] < NumParties[p]
                        /\ NumParties[p] <= 100
                        /\ NumParties[p] = Expected

Waits(c) == calling[c.proc] /\ Call(c.proc) = c

Reply(c, key) ==
    /\ calls' = calls \ {c}
    /\ replies' = IF Waits(c) THEN replies \union {[call |-> c, key |-> key]} ELSE replies

Deny(c) == /\ ~ Admissible(c.proc, c.start)
           /\ Reply(c, NoKey)
           /\ UNCHANGED dealerVars

(* Keys are generated on the first request.                                *)
GenerateKeys == IF keyset = 0
                THEN keyset' = generation + 1 /\ generation' = generation + 1
                ELSE UNCHANGED <<keyset, generation>>

(* Mutant: completion asks for the ids 1..Expected.                         *)
CollectFromOne(id) == /\ collected' = collected \union {id}
                      /\ all_collected' = (all_collected \/ collected' = 1..Expected)

Collect(id) == /\ collected' = collected \union {id}
               /\ all_collected' = (all_collected \/ collected' = 0..(Expected - 1))

Deliver(c) == /\ Admissible(c.proc, c.start)
              /\ GenerateKeys
              /\ Reply(c, [dealer |-> dealer, generation |-> keyset', share |-> Id[c.proc]])
              /\ Collect(Id[c.proc])
              /\ UNCHANGED <<dealer, main, accepting>>

GetKeyShare == /\ main \notin {"exited", "killed"}
               /\ \E c \in calls : Deny(c) \/ Deliver(c)
               /\ UNCHANGED <<plugin, calling, starts, keys>>

-----------------------------------------------------------------------------
(* The dealer's main thread and its signal handler.                        *)

partyVars == <<calls, replies, plugin, calling, starts, keys>>

(* waitUntilDone() returns.                                                *)
AllServed == /\ main = "waiting"
             /\ all_collected
             /\ main' = "grace"
             /\ UNCHANGED <<dealer, accepting, keyset, generation, collected,
                            all_collected, partyVars>>

(* Five seconds later, Shutdown() refuses new calls...                     *)
DealerShutdown == /\ main = "grace"
                  /\ main' = "shutdown"
                  /\ accepting' = FALSE
                  /\ UNCHANGED <<dealer, keyset, generation, collected, all_collected, partyVars>>

(* ... and returns when the calls inside the server have.                  *)
Drain == /\ main = "shutdown"
         /\ calls = {}
         /\ main' = "clear"
         /\ UNCHANGED <<dealer, accepting, keyset, generation, collected,
                        all_collected, partyVars>>

(* Mutant: the secrets are cleared when waitUntilDone returns, before the  *)
(* server stops, and once more at the end.                                 *)
ClearSecretsEarly ==
    /\ main \in {"grace", "clear"}
    /\ main' = (IF main = "clear" THEN "exited" ELSE main)
    /\ keyset' = 0
    /\ UNCHANGED <<dealer, accepting, generation, collected, all_collected, partyVars>>

ClearSecrets == /\ main = "clear"
                /\ main' = "exited"
                /\ keyset' = 0
                /\ UNCHANGED <<dealer, accepting, generation, collected,
                               all_collected, partyVars>>

(* Mutant: the signal handler also releases waitUntilDone.                 *)
SignalReleases == /\ "signal" \in Faults
                  /\ main \notin {"exited", "killed"}
                  /\ accepting
                  /\ accepting' = FALSE
                  /\ all_collected' = TRUE
                  /\ UNCHANGED <<dealer, main, keyset, generation, collected, partyVars>>

(* SIGTERM shuts the server down and nothing else: main stays where it is. *)
Signal == /\ "signal" \in Faults
          /\ main \notin {"exited", "killed"}
          /\ accepting
          /\ accepting' = FALSE
          /\ UNCHANGED <<dealer, main, keyset, generation, collected,
                         all_collected, partyVars>>

(* SIGKILL or a crash: the calls inside the server and the answers not yet *)
(* sent are gone with the process.                                         *)
Kill == /\ "kill" \in Faults
        /\ main \notin {"exited", "killed"}
        /\ main' = "killed"
        /\ accepting' = FALSE
        /\ keyset' = 0
        /\ calls' = {}
        /\ replies' \in {{}, replies}
        /\ UNCHANGED <<dealer, generation, collected, all_collected,
                       plugin, calling, starts, keys>>

(* The operator starts a dealer again.                                     *)
NewDealer == /\ main \in {"exited", "killed"}
             /\ dealer < MaxDealers
             /\ dealer' = dealer + 1
             /\ main' = "waiting"
             /\ accepting' = TRUE
             /\ collected' = {}
             /\ all_collected' = FALSE
             /\ UNCHANGED <<keyset, generation, partyVars>>

-----------------------------------------------------------------------------
SetupStep(p) == Fetch(p) \/ FetchRefused(p) \/ Receive(p) \/ GiveUp(p)

DealerStep == AllServed \/ DealerShutdown \/ Drain \/ ClearSecrets

KeysNext == \/ \E p \in Procs : SetupStep(p) \/ Restart(p)
            \/ GetKeyShare
            \/ DealerStep
            \/ Signal \/ Kill \/ NewDealer

KeysSpec == KeysInit /\ [][KeysNext]_keysVars

(* Threads that can run do; the dealer's handlers get its mutex.           *)
FairKeysSpec == /\ KeysSpec
                /\ \A p \in Procs : WF_keysVars(SetupStep(p))
                /\ WF_keysVars(GetKeyShare)
                /\ WF_keysVars(DealerStep)

-----------------------------------------------------------------------------
KeysTypeOK ==
    /\ dealer \in 1..MaxDealers
    /\ main \in {"waiting", "grace", "shutdown", "clear", "exited", "killed"}
    /\ accepting \in BOOLEAN
    /\ keyset \in 0..generation
    /\ generation \in Nat
    /\ collected \subseteq 0..(Expected - 1)
    /\ all_collected \in BOOLEAN
    /\ calls \subseteq Calls
    /\ replies \subseteq [call : Calls, key : Keys]
    /\ plugin \in [Procs -> 1..(Plugins + 1)]
    /\ calling \in [Procs -> BOOLEAN]
    /\ starts \in [Procs -> 1..MaxStarts]
    /\ keys \in [Procs -> [PluginIds -> Keys]]

Held == {keys[p][k] : p \in Procs, k \in PluginIds} \union {r.key : r \in replies}

(* dealer.proto: "The dealer generates keys on the first request and       *)
(* caches them".  All the shares that one dealer process ever gives out,   *)
(* late fetches after a deadline and fetches in its shutdown included,     *)
(* belong to one generation.                                               *)
OneKeySetPerDealer ==
    \A a, b \in Held : a.dealer = b.dealer => a.generation = b.generation

(* A process holds the share of its own party id, and one that was started *)
(* with another party's certificate holds none, however often and with     *)
(* whatever certificate it was started before.                             *)
SharesAreTheOwners ==
    \A p \in Procs, k \in PluginIds :
        keys[p][k] # NoKey => /\ keys[p][k].share = Id[p]
                              /\ Cn[p][starts[p]] = Id[p]
                              /\ Id[p] < Expected

(* The dealer leaves only by having answered every party at least once:    *)
(* neither SIGTERM nor requests it denied end it.                          *)
LeavesOnlyServed ==
    main \in {"grace", "shutdown", "clear", "exited"} => collected = 0..(Expected - 1)

(* Whatever becomes of the dealer, and however it was restarted, a party   *)
(* ends its start-up.                                                      *)
StartupEnds == \A p \in Procs : []<>Ready(p)

(* A dealer that is neither signalled nor killed serves its parties and    *)
(* leaves, however often parties restart, unless a party's first fetch was *)
(* denied or ran into its deadline, and that party is not started again.   *)
Interrupted == main = "killed" \/ (main \in {"waiting", "grace"} /\ ~ accepting)

WithoutKey(p) == plugin[p] > 1 /\ keys[p][1] = NoKey

DealerLeaves == \/ <>(main = "exited" \/ Interrupted)
                \/ \E p \in Procs : <>[]WithoutKey(p)
=============================================================================
