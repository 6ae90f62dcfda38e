# Formal models of psinsieme's PSI service

psinsieme runs multiparty private set intersection: N parties, each with a set,
learn (through a leader) which of the leader's elements at least *t* parties
have. `service/` holds the C++ server each party runs, with one plugin per
protocol; `service/dealer` hands out threshold Paillier keys; `webapp/` starts
and drives local clusters of parties. This directory models the service's
concurrency, its key distribution and its protocols in TLA+, model-checks them
with TLC on small instances and proves the main safety facts with TLAPS.

```
tlc -workers 2 -config MemberSession.cfg MCMemberSession      # any cfg, with its MC module
tlapm MemberSessionProofs.tla
```

`PROJECT.json` lists, for every definition, the source lines it translates; the
runs; the mutants (a changed definition that must break a property); the
hazards; the theorems.

## Inventory

| Part | State | Operations | Interacts with | Hard behaviour | What makes it correct |
|---|---|---|---|---|---|
| Inter-party transport, `core/transport/` | table of handlers by party id, the gRPC server, one queue per stream | expect, start, handshake, dispatch, shutdown; connect, read, write, close | member and leader plugins | duplicate streams, streams that never send their handshake, wrong certificates, a port in use, shutdown that waits for handlers | one handler per peer, only for its certificate, none after shutdown |
| Member session, `ks05_plugin.cpp`, `beh21_plugin.cpp` (`runMember`) | mutex, condition variable, `incoming_count`, `done`, the channel pointers | wait for the peers, run, release, shut down | transport, protocol | flags written outside the mutex; pointers into other threads' stacks; exceptions | the run gets live streams of the right peers; an exception of the run is never reported as a result; a finished run answers |
| Member session of DH PSI, `dhpsi_protocol.cpp` | as above with `connected` | as above, with a catch clause | as above | as above, flags under the mutex | also: no locals of the call are used after it, no lost wake-up, an exception is answered |
| Key dealer, `dealer_service.h`, `dealer/main.cpp` | key pair and shares, `collected_`, `all_collected_` | GetKeyShare, waitUntilDone, clearSecrets, signal, shutdown | every party's start-up | deadlines, retries, restarts, kill, signal while waiting | one key set per process, shares only to owners, leaves only when all are served |
| Party start-up, `psi_service_impl.h` constructor, `fetchKeyShareFromDealer` | the plugins that are available | fetch a share per dealer-backed plugin, with a deadline | dealer | dealer absent, slow or gone | start-up always ends |
| Request handling, `psi_service_impl.h` `ComputeIntersection` | none shared; a session per request | validate, pick protocol, run as leader or member, map exceptions to a status | everything above | order of submissions, leader that fails fast, retries against an old session | every accepted request is answered |
| KS05, `t_mpsi.cpp` | per party: polynomial, negotiated size, channels | negotiate, aggregate round the ring, broadcast, blind, sum, decrypt jointly | transport streams | choice of neighbours, degrees and bounds, failing peers, threads of the leader | the result is the threshold intersection; the leader finishes |
| BEH21, `ot_mpsi.cpp` | Bloom filters, counters, blinding factors | negotiate, send filters, two rounds of secure comparison hop by hop, three joint decryptions | transport streams | blinding factor at its boundary; hops among members | the result is the over-threshold intersection |
| XZH26, `xzh26_plugin.cpp`, `ec_mpsi.cpp` | EC-ElGamal keys, Bloom filter, tables of the OPPRF | star of exchanges with the leader | transport streams | no size negotiation, unsynchronised pointer, small sets | the result is over the threshold; no frame is taken for another |
| OPPRF hashing of XZH26, `CuckooHasher1.cpp`, `SimpleHasher1.cpp`, `BitPosition.cpp`, `OPPRFSender.cpp`, `OPPRFReceiver.cpp` | bins, stash, bit positions of a row | insert with eviction, stash, choose positions, write and read a row | XZH26 | evictions, repeats, empty stash | every item in exactly one place; the leader's slot is the member's for a common element |
| DH PSI protocol, `dh_psi.cpp` | two lists of points | points to the member, points and tokens back, the leader's close | one stream | repeats, counts that are refused, streams that break, a close that waits for the other side's status | the intersection, without repeats; no leader waits for ever |
| YYH26, `tt_mpsi.cpp`, `shamir_ss.h`, `crt_utils.h` | shares, updates, results of oblivious evaluations per bin and prime | share, update, evaluate among all pairs, answer, interpolate | sockets, vendored OPRF library | order of the pairwise evaluations; which party leads; table sizes that each party takes from its own set | found exactly if enough parties have it; all parties finish |
| Paillier and polynomials | – | pure arithmetic | KS05, BEH21 | big integers | – |
| Web cluster, `webapp/cluster.py` | process handles, one lock | start, stop, status, exit handler | parties, dealer | processes that end, hang, outlive a kill or cannot be spawned | one cluster at a time; no process out of reach |
| Web demo, `webapp/server.py` | a thread per request | requests that start, reuse, stop the cluster | cluster | check then act between requests | a finished demo leaves nothing behind; every request ends |
| Client, front end, `experiments/` | – | thin callers, UI, benchmarks | – | – | – |

How a computation goes: a client of each party calls `ComputeIntersection`. A
member starts a server for this one session and waits for streams from the
leader (and, in a chain, from the previous member); the leader, and the
previous member, open them. Each stream is served by a gRPC thread that
publishes the stream's pointer to the thread of the request and waits until the
request is done with it. The protocol then runs on those streams. Before any
of this, each party's plugins have fetched key shares from the dealer.

The full list of hazards, with the lines where they bite and the properties
aimed at them, is `hazards` in `PROJECT.json`.

## Modules

| Module | Models | State against the code |
|---|---|---|
| `Monitor` | `std::mutex` and `std::condition_variable` (external) | `mu` the owner, `waiting` the threads inside `cv.wait`. Testing a predicate and blocking are separate steps; "unlock and block" is one |
| `PartyServer` | `party_server.h`, with the handshake of `grpc_channel.h` | `server` its stage, `handlers` = `handlers_`, `at[c]` the thread of stream `c`, from its wait for the handshake on; a stream of `Silent` may never send one, or break |
| `MemberSession` | `runMember` of KS05 (BEH21 has the same text), on `Monitor` and `PartyServer` | `pc` the line the request's thread is at, `channel` the pointers, `incoming` = `incoming_count`, `done` |
| `DhMemberSession` | `runMember` of DH PSI | `leader_channel`, `connected`, `done`; a critical section is one step |
| `Rendezvous` | abstract: attach each peer once, run when all are attached, answer after the run | refined by both sessions |
| `DhPsi` | `dh_psi.cpp` inside `DhMemberSession`, which it extends: the step `Run` of the session ends as `DhPsiMember::run` does | `leaderAt[c]` the call of `runLeader` behind stream `c`, up to the return of `channel.close()`, `toMember`, `toLeader` the messages under way, `received` = `member_blinded`, `result` the positions that are returned |
| `KeyDistribution` | dealer process, its `main`, and the start-up of the parties | `keyset` = keys in memory by generation number, `collected`, `all_collected`, `calls` queued on `mu_`, `replies` under way, `plugin`/`keys` of the parties |
| `Ks05Protocol` | `TMpsiLeader::run`, `TMpsiMember::run` | `pc[p]` the phase, `net[p][q]` the stream, `agreed` = `mNegotiatedSetSize`, `product` = `encPoly`, `served` the joined threads of a phase |
| `Ks05Ring` | the pipelined multiplication of KS05, frame by frame | `wrote[i]`, `read[i]` the frames a party has written and read; what it has to write next follows from them as from its loop counters |
| `Chain` | the chain of members and how a member finds its neighbours (`Prev`, `NextHop`), shared by both protocols | `leader` |
| `SecureComparison` | BEH21's blinded comparison as pure operators | a triple `[c, a]` for `c_encrypted`, `a_1` (`a_2` is `1 - a_1`) |
| `Beh21Protocol` | `OtMpsiLeader::run`, `OtMpsiMember::run`, on `Chain` and `SecureComparison` | `bits` the Bloom filters, `net` bounded streams, `sent`/`scp` the leader's two sides of the ring, `counts` = `aggregatedResults`, `passed[m]` the loop counters of a member |
| `Xzh26Protocol` | `EcMpsiLeader::run`, `EcMpsiMember::run` and the session around them | `at[p]` the exchange, member and frame a party is at, `down`, `up` bounded streams, `table[m]` what the member's tables answer for, `hand[m]` the handler's thread; `Threshold` that of the request |
| `CuckooParams` | the numbers of bins and of table frames for up to 128 elements | – |
| `OpprfHashing` | how leader and member hash, and how a row is written and read | `bins` = `mBins`, `stash` = `mStashIdxs`, `cur`/`next` the items of a round before and after the exchange, `pos` = `mPos` |
| `Yyh26Protocol` | `tt_mpsi.cpp` for one element of the leader and its bin | `sizes[p]` how many elements a party submits, `setSize(p)` = `setSize`, `at[p]` the place in the party's program of meetings, `payload` = `recvSSPayLoads`, `serverShare`, `leaderOle`/`memberOle` = `oleResult`, `endPayload` = `endPayLoadsDivide` |
| `WebCluster` | `cluster.py` and the requests of `server.py` that use it | `handles` = `_DEALER` and `_PARTIES`, `lock` = `_LOCK`, `stage` where its holder is, `alive` and `listening` the processes, `survivors` those that `_terminate_all` has given up on |
| `PsiRequest` | the requests of all parties: `ComputeIntersection` and what `run` of the ring protocols does around the protocol | a session is a party and the number of its request; `pc` where the call is, `stream[s][q]` the stream that session `s` opened to party `q`, the session it reached and whether a handler took it, `product[s]` whose polynomials are in what `s` has sent on, `overlapped` (history) whether two computations have been under way at one moment |
| `MC…` | instances; `MCKs05`, `MCXzh26` and `MCClients` put two components beside each other | – |
| `ChainProofs` | lemmas that both ring protocols use: positions and neighbours in the chain, sums over sets, extremes, short streams | – |
| `MemberSessionProofs` (with `KeyDistribution`), `DhPsiProofs` (with `DhMemberSession`), `Ks05ProtocolProofs` (with `Ks05Ring`), `Beh21ProtocolProofs` (with `SecureComparison`), `Xzh26ProtocolProofs` (with `OpprfHashing`), `PsiRequestProofs` (with `WebCluster`), `Yyh26ProtocolProofs` | theorems | – |

Choices of abstraction:

* `GetKeyShare` holds the dealer's mutex from its first to its last line, so it
  is one step; what interleaves is the queue for the mutex.
* A polynomial is the multiset of its roots among the elements and its degree.
  Random padding roots add to the degree only, and random coefficients are
  assumed not to vanish by accident (probability about |elements| / n).
* In `Ks05Protocol` a count and the coefficients after it are one frame, and
  streams are unbounded; `Ks05Ring` counts every frame and bounds the streams.
  In `Beh21Protocol` streams are bounded and a triple, a filter and a batch are
  one frame each. Streams are reliable and ordered (gRPC).
* A Bloom filter is the number of an element's positions that are set in it:
  all of them for an element of the set, any number for another. Distinct
  elements are thus independent, which allows more than real filters do.
* A null `std::unique_ptr`, an exception in a leader's thread
  (`std::terminate`) and a failed `BuildAndStart` are outcomes, not assumed away.
* In `DhPsi` a point is its element and the set of scalars applied to it, and a
  count with its frames is one message. Hashes of distinct points differ.
* `Xzh26Protocol` counts every frame, because the sizes that the parties count
  by may differ; of a frame it keeps the exchange it belongs to. Its mutex
  guards no write, so it is left out: test and block are separate steps.
* `OpprfHashing` takes any hash functions out of a set. An OPRF value is its
  element's codeword; values of distinct points are independent, so only the
  masks of the item itself come off. `CodewordAssumption` says what the values'
  256 bits make all but certain: two are different, and of three there is a bit
  that only the third differs in.
* `Yyh26Protocol` follows one element and the bin it lies in, because no value
  of a bin enters another bin's. An OPPRF or OLE is a meeting of two parties
  that have both come to it; this is the worst case for waiting. What an OPPRF
  returns at a point it was not programmed at is `Junk`, which is no number: that
  random values pass for shares of x in every prime by chance is left out.
* The lengths of YYH26's tables and loops follow from each party's own set,
  padded to 32, and no size is sent or compared (`tt_mpsi.cpp:324`, `:403`). The
  module keeps the sizes and lets two parties meet only if theirs agree
  (`Fits`). What parties that expect other frames read of each other is not
  followed: they misread, throw in a thread or wait, and in the model they are
  `Derail`ed, which no answer follows; the same happens to whoever waits for
  them. Properties about results and ends are therefore about sets that are
  `Alike`, of one size or all small enough to be padded; no property says
  anything about the others.
* In `WebCluster` a process is its role and the request that spawned it. A
  process of `Stubborn` may outlive SIGKILL and the two seconds of the last wait
  (`cluster.py:338-361`), after which its handle is dropped all the same.
* TLS is what the code sees of it: the id in the peer's certificate, or none.

## Runs

| Run | Question | Answer |
|---|---|---|
| `member` | A middle member, leader and previous member connect, one of them twice, and a third party lies about its id or never says it: what does `runMember` guarantee? | The right, live streams; one per peer; it refines `Rendezvous`; it answers unless a wake-up was lost, the run threw or a stream without a handshake holds up the server; an exception is never answered |
| `member_lost` | Does a finished run return? | **No**: `done` is set without the mutex (finding) |
| `dh_member` | DH PSI with two streams of one leader and an impostor; repeated elements, more than `MaxElements`, a leader that breaks off, streams that break before their handshake | The thread of the call and those of the handlers use no locals that are gone; the result is the intersection, each element once; the session refines `Rendezvous` with its fairness, so no wake-up is lost and an exception is answered; every leader's call ends, with its `close()`, which waits for the status of the member's handler |
| `keys` | Two parties, two starts each, one with a wrong certificate; two dealers, signalled or killed; deadlines | One dealer gives out one generation, to owners only; leaves only when all are served, and then surely; every start-up ends |
| `ks05` | Three parties, any leader, all non-empty sets over two elements, lists that repeat an element and three inputs that are too large, all thresholds, one crash anywhere | The result lies between the thresholds, where an element that a request repeats counts as often as it is repeated; zeros suffice; nothing is left unread; where the code's envelope holds the leader finishes, otherwise it hangs only behind a member that threw |
| `ks05`, its ring | Leader and members write whole polynomials before they read: who may block whom when streams are bounded? | The leader receives the product if its polynomial fits into the streams of the ring, and otherwise never reads a frame: all wait to write. BEH21, whose leader reads while a thread writes, has no such limit (`beh21`) |
| `ks05_leader` | Can any party lead? | **No**: only the last one (finding) |
| `beh21` | Three parties, any leader, two elements, a crash of the first party anywhere, factors 1 and 2, streams that hold one triple | The result is exact (up to false positives) unless a member drew the factor 1; every frame read is of the expected kind; when the last party leads and nobody dies, the leader finishes |
| `clients`, of the parties | Clients submit in any order, disagree about roles and leader, submit again while earlier calls go on, repair an invalid request: what may a caller rely on? | STATUS_OK comes only out of one computation that every party takes part in once and whose leader all of them named, unless two computations have been under way at the same moment (below), however many came before it or were tried again; a leader that comes when every member waits is answered |
| `clients`, of the web server | Demos, a start, a stop and the exit handler at once; processes that hang, crash, outlive SIGKILL, cannot be spawned | What runs is always where `stop()` finds it, but for processes that it tried to kill in vain; a finished demo leaves nothing else behind; every request ends |
| `xzh26` | Leader and two members with equal, larger and smaller sets, a threshold of three, streams of three frames, a member that dies | The answer is what at least three submitted, and is given only if all sets have one size and everybody is through; only a member of another size takes a frame for another; the leader ends unless sizes differ or a wake-up is lost; then its members return |
| `xzh26`, its hashing | Six elements, colliding hashes, small batches and few rounds; a member with and without a repeated element | Every item is in exactly one place, in a bin its hash names; the leader reads the member's value exactly for common elements; only repeats make a member loop or read masks that are not there |
| `xzh26_two` | The same with a threshold of two: is the result over the threshold? | **No**: the threshold is stored and not read (finding) |
| `yyh26` | Four parties, every distribution of an element over slots, thresholds 1 to 4, leader last or not, sets of equal and of different sizes | In sets that are alike: found exactly if enough parties hold its first 16 bytes; all parties finish if the last one leads |
| `yyh26_leader` | Can any party lead? | **No**: the phases take the last party for the leader (finding) |

Three runs check two parts each, on one instance (`MCKs05`, `MCXzh26`,
`MCClients`). The parts share no state, and in a behaviour one of them goes on
while the other is at rest, in a state that it cannot leave and in which its
properties say nothing that is not already true: so what is checked of each is
what a run of its own would check.

What the behaviours of `PsiRequest` make plain, and no single component shows:

* A member's call that was reached by a leader whose attempt then failed holds a
  dead stream, and never returns; the leader's next attempt finds no handler
  for its stream. Only an attempt that reached nobody can simply be repeated.
* A member that is asked twice has two servers on one port (gRPC shares it), and
  the streams of one computation can be split between them; both then wait.
* The streams carry the id of a party and nothing that tells computations
  apart. If clients start two at once, the first member of one can pass its
  polynomial into a session of the other, and both may be answered STATUS_OK.
  This is why `OkOnlyTogether` says nothing once two leaders have been past the
  negotiation at the same moment, which the history variable `overlapped`
  records. Computations that follow each other are not an exception.

### Bounds, and why they are enough

* Sessions: two expected peers, so that the wait has a middle state, and four
  streams: one good per peer, a duplicate, and an impostor. Nothing in the code
  depends on more than one predecessor. The impostor's stream is the one that may
  stay silent: a silent stream of a peer would only be one more duplicate.
* Keys: two parties are enough for "some but not all collected"; two starts for
  a retry after failure; two dealers for mixing generations. Two plugins fetch
  one after the other, as BEH21 and KS05 do.
* KS05: three parties are the smallest chain with a member whose two neighbours
  differ and with a leader that can be first, middle or last. Two elements give
  every pattern of membership. `MaxCoefficients = 18` stands for the code's
  1000000: ordinary inputs stay within it, two copies of each element overflow
  the blinded product, three the product itself, nine the first polynomial, so
  that each of the checks refuses once. One process may crash.
* The envelope `3 * N * size <= MAX_COEFFICIENTS` means, with the 100000
  elements that the service accepts, at most three parties.
* `Ks05Ring`: windows of two frames. gRPC's windows are in bytes and adapt, so
  the model takes the window as its parameter. Set sizes 1 to 8 lie on both
  sides of what such a ring holds (8 frames, so size 6): up to there the leader
  receives the product, above it every party waits to write. Whether real
  windows are large enough for 100000 elements is outside the source.
* BEH21: `NumHash = 1`, since only "all positions set" and "not all" differ;
  `RandomBound = 3` gives the factors 1 and 2, the boundary and one above it
  (the proofs cover every larger bound); threshold 2 of 3, so
  that the count is compared at, above and below it; `Window = 1`, the
  smallest stream, where any missing concurrency shows as a deadlock. A larger
  window only removes waiting. One of the inputs is that of a leader that
  submits nothing: the loops of both rounds are then empty, and all parties are
  done after the filters.
* DH PSI: two streams of one leader are a retry; four pairs of requests repeat
  elements on either side and exceed `MaxElements = 3` on either side. One
  leader may break off, and two streams may break before their handshake. The
  proofs cover everything else.
* XZH26: six elements are the smallest set with a stash, seven and five are one
  more and one less. The filter has one position per element instead of fifteen,
  so that a run is some forty frames per member; only whether the number grows
  with the set matters. `Window = 3`: larger windows let a member run further
  ahead, they do not change what waits for what. With `Threshold = 3`, the
  number of parties, what all have is what the threshold asks for; with 2 it is
  not (`xzh26_two`).
* Hashing: six elements give nine bins and a stash of one. Hash values out of
  four triples for four elements crowd the bins, so that evictions go round in
  circles up to `MaxTries = 4` (100 in the code) and the stash fills up.
  `Batch = 4` (128) makes two batches. Seven bits stand for 128; any two
  codewords differ in four of them, as those of the OPRF differ in many.
* YYH26: four parties, so that three members evaluate among themselves, the
  smallest number for which an order of pairs could close a circle; two slots;
  two primes and two sets of random numbers. Arithmetic modulo 5 and 7 needs
  more than four indices, which `Yyh26Assumption` states. `MinSetSize = 2` stands
  for the code's 32, so that sets of one and two elements are padded to one size,
  sets of three are equal without padding, and one set of four among sets of
  three is misread.
* Web cluster: two demos, one start, one stop, one exit, clusters of two
  parties, one process of which may outlive SIGKILL. No thread takes the lock
  more than three times. The proofs cover every set of requests.
* Requests: three parties, so that a member has a member before or after it.
  Every assignment of roles and leader addresses with one request per party,
  and requests that agree on the last party as leader, with any of them
  repeated once (`Attempts = 2`) while the first is under way or over; one
  request that is refused and then repaired.

### Fairness

Weak fairness of every thread that can run, as an operating system scheduler
gives; strong fairness of taking the mutex and of critical sections, since
`std::mutex` promises no more but implementations do not starve one of two or
three threads for ever. Streams of submitted requests reach the server. Spurious
wake-ups, crashes, signals, restarts and deadlines are never promised. In
`DhPsi` a thread has one step to take at a time, and strong fairness of the
thread says both of these. `Xzh26Protocol` and `Yyh26Protocol` need weak
fairness only: nothing there is contended. In `WebCluster` and `PsiRequest` no
thread or session has more than finitely many steps, so that weak fairness of
all of them together says as much as one condition for each; processes of
`WebCluster` promise nothing, so a start ends by its deadline. A stream of
`Silent` promises nothing: in `member` it may stay without its handshake for
ever, and `HangsOnlyFor` names that; in `dh_member` it speaks or breaks, as
connections that are gone do. `KeyDistribution` counts a deadline as possible,
not certain, and lets a call end when its dealer is gone. In `PsiRequest` every
session goes on when it can, and no client has to submit: `LastLeaderIsAnswered`
starts where the leader's request has come. That a connection is refused when
nobody listens (gRPC fails fast by default) and that a second server may share
the port or fail to bind it are choices of gRPC that the model leaves open.

## Proofs

All theorems hold for every value of the constants under the named assumptions
in the modules (`ServerAssumption`, `SessionAssumption`, `DhSessionAssumption`:
a finite, non-empty set of peers, ids and thread names distinct;
`DhPsiAssumption`, `Ks05Assumption`, `Beh21Assumption`, `RingAssumption`,
`Xzh26Assumption`, `HashingAssumption`, `RequestAssumption`,
`ClusterAssumption`, `DistributionAssumption`, `Yyh26Assumption`: types and
bounds of the parameters; `FilterAssumption`: a filter has bits, and no fewer
for more elements; `CodewordAssumption`: see above). KS05's elements are
finitely many, because its polynomials are functions on them.

* `MemberSessionProofs`. `TypeOK` is inductive. `IInv` strengthens the safety
  invariants: `TakenInv` (a handler is taken once, by a stream whose certificate
  agrees), `CountInv` (`incoming` is the number of counted peers, and a counted
  peer's stream is published), `PassedInv` (the request's thread passes the wait
  only with every peer counted; this is where the cardinality argument lies: a
  subset of a finite set with as many members is the set), `DoneInv` (handlers
  leave only after `done`, which is set after the run) and `ServerInv` (no
  stream before start, none accepted after shutdown). From it:
  `StreamsAreUsable`, `StreamsAreDistinct`, `ErrorsAreNotReported` (in *no*
  interleaving does an exception reach the client) and `SessionIsRendezvous`,
  the refinement of `Rendezvous` step by step.
* `DhPsiProofs`, the session. The same argument with flags under the mutex, by
  return and by exception: `LocalsAreThere`. New is
  `NoWakeupIsLost`: a thread that is blocked waits for something that has not
  happened, or a notification is due; it is exactly what fails in
  `MemberSession`. `SessionIsRendezvous` is the refinement, and `PsiIsSession`
  says that `DhPsi` adds nothing to what the session does, so that the
  session's invariants hold in it.
* `DhPsiProofs`, the protocol. `LeaderReturnsIntersection`. The invariant
  follows the messages: which points can be on which stream at which point of
  both programs, and that only the stream handed over by the session carries
  any. That blinding commutes (a point's scalars are a set) then makes the
  tokens of equal elements equal.
* `MemberSessionProofs` on `KeyDistribution`. `KeysTypeCorrect` with
  `CallingInv` (an outstanding fetch belongs to a plugin not yet set up).
  `OneKeySet` rests on `HeldInv`: shares of a running dealer are of the key set
  in its memory, which is set once and cleared only with no call inside; no
  share is of a later dealer. `LeavesServed`: the event that main waits for is
  set only when the ids that collected are as many as expected.
  `SharesBelongToOwners`: a share under way is of the id that the caller's
  certificate proves, at the start of the process that called.
* `ChainProofs`. The sums of the community modules fold over a set in an order
  that `CHOOSE` fixes. That such a sum grows by one summand with one argument,
  whichever it is (`SumFacts`), and that a sum of zeros and ones is the number
  of the ones (`SumCounts`), is proved from the definition by taking a smallest
  set for which it fails, since induction theorems cannot be instantiated here.
* `Ks05ProtocolProofs`, for any number of parties, any inputs and thresholds,
  any leader, any number of crashes. `Ks05Invariant`: `InStep` says which phases
  of a member go with which of the leader; `Across` (member to member), `Down`
  (leader to member) and `Up` (back) say what is on a stream, from where its two
  ends are; `InOrder` that the ring has passed all members before the one it is
  at. A party that is gone takes no message with it, so these hold after crashes
  too, and `DownInStep` adds what holds as long as the leader lives. `Poly(Q)`
  is the product of the polynomials of the parties in `Q`; a member receives the
  one over `Upstream`, the leader and the members before it. A product reaches
  the leader only from party N - 2, whose next hop is picked by its id, and the
  leader waits for the last member: so nobody but party N - 1 finishes as the
  leader (`Ks05OnlyLastLeader`), and it collects the product over all parties.
  `Found` says that what is summed up vanishes where the blinded products of the
  members served so far all do. Hence `Ks05ResultBetweenThresholds`: with fewer
  copies than every threshold, the element would be a root of every party's own
  polynomial, which makes at least N copies, and no threshold is larger.
  `Ks05ZerosSuffice` compares degrees: member m multiplies the polynomials of at
  most m + 2 parties, and blinds a product of N. `Ks05NothingLeft` reads off the
  invariant what is on the streams when the leader is done.
* `Ks05ProtocolProofs` on `Ks05Ring`, for any number of stations, sizes and
  window. `TooLongStopsTheRing`: if the leader reads a frame, its polynomial
  fits into the streams. Each stream is at most a window behind, and each member
  has sent on what it read but for one message (`PassedOn`); round the ring,
  station by station, the leader is at most `Capacity` messages ahead of its own
  reading, which starts only after its last write.
* `Beh21ProtocolProofs`, for any number of parties, any inputs, filters and
  thresholds, streams of any length, any draws and any processes that die. The
  triples of both rounds are numbered in one sequence (`Numbering`: a triple of
  the first round is a pair of an element and a member), and `Answers` says what
  each will answer: a bit of a filter, or whether enough were counted.
  `Beh21Invariant`: members pass the triples in chain order (`InOrder`); the
  stream between two of them holds exactly the triples that one has passed and
  the other has not, each carrying its answer, as long as no member has drawn 1
  (`Flows`; on the leader's own stream also undecided ones, `Starts`); members
  and leader are at most one batch apart (`InStep`, `Down`, `Up`). So a round
  starts on empty streams although nobody waits for the others
  (`CollectingAll`), which gives `Beh21FramesAsExpected`; and the sum of the
  selected bits of an element is the number of filters that have it (`Counting`),
  which gives `Beh21ExactUnlessAMemberDrawsOne`.
* `Xzh26ProtocolProofs`, for any number of members, any sets of up to 128
  elements, any window and any processes that die. A party's place, its phase and
  the frames handled in it, says how many frames it has written and read and
  which frame is the j-th, all by the size of its own set (`UpTo`, `DownTo`,
  `UpFrame`, `DownFrame`). `Xzh26Invariant`: a stream holds what one end has
  written by its count and the other not read by its own (`DownHolds`, and
  `UpHolds` while the leader lives). The counts of two ends agree once the leader
  has all processed points of a member (`SameSize`, from the lemma `Accepted`): a
  member with fewer elements would send a frame of a table among them, which is
  no point; one with more would not have had its whole filter, since a filter is
  the longer the larger the set (`FilterAssumption`). From there on nothing is
  mistaken (`Xzh26OnlyUnequalAreMistaken`), and a leader that is through has
  members that are, of sets as large as its own, on empty streams
  (`Xzh26OnlyEqualSetsAreAnswered`). Its answer is then what all have, whatever
  the threshold (`Xzh26ResultIsUnanimous`); that this is what the threshold asks
  for (`Xzh26ResultIsOverThreshold`) is proved for a threshold that is the number
  of the parties, and holds for no smaller one (`xzh26_two`).
* `Xzh26ProtocolProofs` on `OpprfHashing`. `NoItemIsLost`, for every input of up
  to 128 elements, every hash function, batch size and number of rounds.
  `HashingInvariant`: what is in the bins, in this round, in the next one and in
  the stash is disjoint (`Apart`) and together the items fed so far
  (`AllThere`), no place holds an item twice (`NeverTwice`), and a bin's item is
  there by the hash it is marked with (`Marks`). `RowInvariant` adds that bins
  of the stash are filled by the first two hashes (`TwoHashes`), the ones the
  member uses there, and that the positions of a programmed row tell the
  member's items in it apart (`RowOK`). So an element that both have is in the
  member's bin, and alone in its slot: `LeaderGetsValue`.
  `UndefinedNeedsRepeats` is about `getPos1`, which does not look whether its
  positions work with two or three items (`SoughtTellApart`: they do, unless an
  element is repeated). Both are proved from `CodewordAssumption`.
* `PsiRequestProofs`, for any number of parties, any number of attempts of each
  and whatever the clients ask for. `PsiRequestInvariant`: when a leader's
  computation gets under way its streams, and with them its group, are settled
  (`Started`: one member of every party it called, all naming it as their
  leader), and whoever is in the ring or beyond is in the group of a computation
  under way (`Joined`). As long as no two have been under way at once
  (`overlapped` is still false), every polynomial a member multiplies comes from
  its group: by its place in the chain, from the member before it, so the
  product is the leader's up to that member (`Multiplied`, `ProductGrows`). A
  member multiplies only if the parties with its neighbours' ids are there
  (`Passed`); if all do, the last party leads and has named itself
  (`LastOrNobody`), so the group is everybody else and the product complete
  (`OneOfEach`). Hence `OkOnlyAsOne`. That two computations at once are an
  exception is not the proof's weakness: their rings do cross.
* `PsiRequestProofs` on `WebCluster`, for any set of concurrent requests.
  `NothingStrays`: what runs is in the globals; a dealer's handle is overwritten
  only when nothing runs (`FreshInv`), since a start begins only when neither
  the dealer nor a party of the globals does. `NothingIsLeftBehind`: a process
  whose request is over belongs to a start that succeeded or to a Popen that
  raised; `OwnerInv` says where the request of any other process still is. Both
  speak of the processes but `survivors`, those that a SIGKILL left alive.
* `Yyh26ProtocolProofs`, for any number of parties and of primes above it, any
  slots, thresholds and leaders, whatever is drawn, and every order of the
  meetings. A party passes each position of its program once, and
  `MemberProgramFacts` and `LeaderProgramFacts` say which meeting stands there;
  so the positions say which terms are in which sum, modulo each prime. That is
  `Yyh26Invariant`: the leader's share holds the updates of the members it has
  met (`LeaderUpdated`), its sum for a slot their masked terms (`LeaderMasked`),
  a member's sum the terms of those it has received from (`MembersUnmasked`),
  which is why the two passes must between them let every member receive from
  every other; an answer holds all of them (`Answered`), and a member that the
  leader is through with has named the slot it answered for (`Indexed`,
  `LeaderLast`). When the leader is done, of sets that are `Alike`, the masks
  cancel (`MasksCancel`): what it has of a member with x is its share and
  everybody's sharing of zero (`EndShareFacts`), and of any other member it has
  no number. The rest is algebra: Lagrange's weights at zero are built up by
  folding factors over a set; that they add up to one and annul the powers of
  the points below the number of shares is proved from two equations between the
  weights of a set and of the set without one point, taking a smallest set for
  which it fails (`WeightsAddToOne`, `InterpolatesAtZero`). That the primes are
  prime is used where a difference of two points is inverted, and that they
  exceed the number of parties where it is not zero. So any `threshold`
  refreshed shares interpolate to x (`RefreshedAtZero`), and
  `FoundExactlyIfEnough` follows: the leader tries every choice of that many.
* `Beh21ProtocolProofs` on `SecureComparison`, for every bound of the factors. A
  triple *carries* an answer when `c` is not zero and its sign selects that
  answer. `StartDecides`: the leader's triple carries "difference at most zero",
  except that a factor of 1 can leave a difference of 1 at `c = 0`;
  `PassDecides`: the next hop then decides it, and rightly. `PassKeeps`: a hop
  whose factor is at least two keeps what a triple carries, swapped or not,
  because the offset is smaller than the factor. `SelectReturns`: the selection
  returns what is carried. `FactorOneReverses` is the counterpart: with the
  factor 1 the answer for `c = -1` is reversed, so the condition of `PassKeeps`
  is needed, and the finding does not depend on the instance.

Only model-checked: everything temporal under fairness (`HangsOnlyFor`,
`ImplementsFairRendezvous`, the ends of leaders, members, start-ups, dealers and
requests), which is beyond the prover; and of `OpprfHashing`
`SpinsOnlyForRepeats`, which holds on the instance because its bins have no more
items than a row has slots: with more, no positions tell them apart.

## Where code and documents differ

Found while modelling, and shown by the models. Where a run is named, it checks
what the document says and TLC finds a behaviour of the code that contradicts it;
the others are behaviours that the properties of passing runs name as exceptions.

* A finished call may not return. `ks05_plugin.cpp:248` sets `done` and notifies
  without the mutex; `psi_service.proto:10` says that the call "Blocks until all
  parties have submitted and protocol finishes" (`member_lost`). BEH21 and XZH26
  share this.
* A leader that submits before its members does not block: its connection fails
  and it is answered STATUS_ERROR (`ks05_plugin.cpp:144`, the same sentence).
  `LastLeaderIsAnswered` is about a leader that comes last.
* "any party can be the leader" (`service/README.md:224`). In KS05 and BEH21 a
  member finds its neighbours by party id (`t_mpsi.cpp:157`, `ot_mpsi.cpp:175`):
  unless the last of the parties leads, some member uses a null channel
  (`ks05_leader`; for every number of parties `Ks05OnlyLastLeader`;
  `LastLeaderFinishes` of BEH21 is about the last party). In YYH26 the phases
  take the last party for the leader whatever the request says
  (`tt_mpsi.cpp:319`, `yyh26_leader`).
* "Threshold: elements in >= threshold parties are in the result"
  (`psi_service.proto:29`). In BEH21 a member that draws the factor 1 draws an
  offset of 1 with it (`ot_mpsi.cpp:200`), and a blinded difference of -1 loses
  its sign (`ExactUnlessAMemberDrawsOne`, `FactorOneReverses`). XZH26 stores its
  threshold and never reads it (`ec_mpsi.cpp:88`): the result is what all have
  (`xzh26_two`). YYH26 compares the first 16 bytes of an element
  (`tt_mpsi.cpp:104`, `FoundIfHeldByEnough`), so that it may find more.
* In YYH26 each party takes the lengths of tables and loops from its own set
  (`tt_mpsi.cpp:403`), padded to 32: with more elements and sets of different
  sizes the parties read what the other did not send, so the call does not end
  when "all parties have submitted and protocol finishes"
  (`psi_service.proto:10`; `Alike` in `FoundIfHeldByEnough` and
  `EverybodyFinishes`).
* `dealer_service.h:23` says that completion is signalled "once every party has
  collected at least once". A call whose deadline passes while it waits for the
  mutex counts as collected (`dealer_service.h:112`), though its caller has
  nothing.
* `server.py:396-399` says that a cluster with the right number of parties is
  reused. It never is: `already_matches` compares `cs.get("protocol")`, and what
  `status()` returns (`cluster.py:127-165`) has no such entry. `WebCluster` keeps
  the branch and the comparison (`StatusProtocolIs`).
* `server.py:144-146` says that XZH26 with unequal sizes fails with "size not
  expected". What happens depends on which party is larger: `recvPoint` throws,
  a process ends, or everybody waits (`xzh26`). BEH21, named there too,
  negotiates its sizes and takes any (`ot_mpsi.cpp:82`).

## Not modelled

Paillier, EC and OPRF arithmetic (large integers); TLS and byte formats; flags
and logging of the `main` programs; front end and Python client.

`experiments/` is most of the repository's C++ by size and no part of the
service: research prototypes and benchmarks of the same protocols, among them
several copies of the hashing and OPRF code that `OpprfHashing` models in the
form the service compiles. Their differences from the service are the
transport, generated inputs and timing. A module for each copy would state the
same definitions again. The same holds of the OPRF library vendored under
`protocols/yyh26/vendor`, which YYH26 uses as a black box.

The web server's processes that outlive a killed server, and the short time in
which an exiting server still accepts requests, are left out of `WebCluster`.
That the dummies by which YYH26 pads a small set could be common to two parties
is left out: they are distinct and belong to one party. What two parties of YYH26
do with frames of a length that they do not expect, before they end, is not
followed. KS05 members are modelled with their sessions already established:
that a throwing member keeps its handlers waiting is what `MemberSession` shows
and is taken over as the state `"stuck"`.
