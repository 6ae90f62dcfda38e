---------------------------- MODULE OpprfHashing ----------------------------
(***************************************************************************)
(* How the leader of XZH26 finds, for each of its elements, the one entry  *)
(* of a member's table that a common element would have (binSet.cpp,       *)
(* CuckooHasher1.cpp, SimpleHasher1.cpp, BitPosition.cpp, OPPRFSender.cpp, *)
(* OPPRFReceiver.cpp).  The leader puts each element into one bin, evicting*)
(* others, and what it cannot place into the bins of a stash.  A member    *)
(* puts each element into all the bins the leader may have chosen, looks   *)
(* for bit positions that tell the elements of a bin apart, and writes the *)
(* value of each element to the slot that its bits name.                   *)
(*                                                                         *)
(* Everybody hashes with one thread (hashing2Bins(setBlock, 1)).  The      *)
(* order of the items within a round is left open.  Hash values are        *)
(* numbers below HashBound; an OPRF value is its element's codeword.       *)
(***************************************************************************)
EXTENDS CuckooParams, FiniteSets, Sequences

CONSTANTS
    Elements,
    Hashes,                \* the hash functions: [Elements -> triples of numbers]
    Inputs,                \* records of the leader's and a member's elements
    HashBound,
    Batch,                 \* items inserted at once; 128 in hashing2Bins
    MaxTries,              \* rounds per batch; 100 in insertBatch
    Codeword,              \* Codeword[e]: the set bits of e's OPRF value
    Bits,                  \* their positions
    NumBits,               \* mNumBits; a row has 2^NumBits slots
    Empty                  \* mVal of a bin without an item: -1

ASSUME HashingAssumption ==
    /\ Hashes \subseteq [Elements -> [0..2 -> 0..HashBound]]
    /\ HashBound \in Nat
    /\ \A in \in Inputs : /\ in.leader \in Seq(Elements)
                          /\ in.member \in Seq(Elements)
                          /\ Len(in.leader) = Len(in.member)
                          /\ Len(in.leader) \in 1..128
    /\ Batch \in Nat \ {0}
    /\ MaxTries \in Nat \ {0}
    /\ Codeword \in [Elements -> SUBSET Bits]
    /\ Empty \notin [idx : 1..128, h : 0..2]

(* Two elements have different codewords, and of three there is a bit that *)
(* only the third differs in.  The codewords of the code are 32 bytes that *)
(* are as good as random: that they do otherwise is left out.              *)
ASSUME CodewordAssumption ==
    /\ Bits \subseteq Nat
    /\ \A c, d \in Elements : Codeword[c] = Codeword[d] => c = d
    /\ \A c, d, e \in Elements : c # d /\ c # e /\ d # e =>
          \E x \in Bits : /\ x \in Codeword[c] <=> x \in Codeword[d]
                          /\ x \in Codeword[c] <=> x \notin Codeword[e]

VARIABLES
    leader, member,        \* the inputs, item idx being leader[idx]
    hash,                  \* hash[e][k]: the k-th hash of e
    stage,
    fed,                   \* the items that insertBatch has been given
    cur, next,             \* items of this round, and of the next one: an
                           \* index and the number of the hash to use
    tries,                 \* tryCount
    bins,                  \* mBins of the leader
    stash,                 \* mStashIdxs
    bin,                   \* the bin whose answer is followed
    pos,                   \* mPos of the member's row for it
    answer                 \* the member's item in the slot the leader reads

inputs == <<leader, member, hash>>
hashing == <<fed, cur, next, tries, bins, stash>>
reply == <<bin, pos, answer>>
hashVars == <<inputs, stage, hashing, reply>>

N == Len(leader)
Items == 1..N
AllBins == 0..(MainBins(N) + StashBins(N) - 1)

(* Where the k-th hash puts an element, in the first step and in the stash.*)
Address(e, k) == hash[e][k] % MainBins(N)
StashAddress(e, k) == (hash[e][k] % StashBins(N)) + MainBins(N)

HashInit == /\ \E in \in Inputs : leader = in.leader /\ member = in.member
            /\ hash \in Hashes
            /\ stage = "insert"
            /\ fed = 0
            /\ cur = {} /\ next = {}
            /\ tries = 0
            /\ bins = [b \in AllBins |-> Empty]
            /\ stash = {}
            /\ bin = Empty
            /\ pos = {}
            /\ answer = Empty

-----------------------------------------------------------------------------
(* The leader: insertBatch and insertStashBatch.                           *)

Settled == cur = {} /\ next = {}
NewRound(is) == {[idx |-> i, h |-> 0] : i \in is}

(* Each batch goes into the simple bins first, by every hash, at the leader*)
(* and at the member alike (SimpleBin): a division by the number of stash  *)
(* bins, which is zero for small sets.                                     *)
StashDividesByZero == /\ stage = "insert" /\ fed = 0
                      /\ StashBins(N) = 0
                      /\ stage' = "dead"
                      /\ UNCHANGED <<inputs, hashing, reply>>

Feed == /\ stage = "insert" /\ Settled /\ fed < N
        /\ StashBins(N) > 0
        /\ fed' = IF fed + Batch < N THEN fed + Batch ELSE N
        /\ cur' = NewRound((fed + 1)..fed')
        /\ tries' = 1
        /\ UNCHANGED <<inputs, stage, next, bins, stash, reply>>

NumHashes == IF stage = "insert" THEN 3 ELSE 2

Slot(it) == IF stage = "insert" THEN Address(leader[it.idx], it.h)
                             ELSE StashAddress(leader[it.idx], it.h)

(* The old item of the bin is to use its next hash.                        *)
Evicted(b) == IF bins[b] = Empty THEN {}
              ELSE {[idx |-> bins[b].idx, h |-> (bins[b].h + 1) % NumHashes]}

(* Mutant: the first pass of the compaction loses the evicted items that   *)
(* come after a hole.                                                      *)
ExchangeLosing(it) ==
    /\ stage \in {"insert", "stash"}
    /\ it \in cur
    /\ bins' = [bins EXCEPT ![Slot(it)] = it]
    /\ cur' = cur \ {it}
    /\ next' = IF next = {} THEN Evicted(Slot(it)) ELSE next
    /\ UNCHANGED <<inputs, stage, fed, tries, stash, reply>>

Exchange(it) ==
    /\ stage \in {"insert", "stash"}
    /\ it \in cur
    /\ bins' = [bins EXCEPT ![Slot(it)] = it]
    /\ cur' = cur \ {it}
    /\ next' = next \union Evicted(Slot(it))
    /\ UNCHANGED <<inputs, stage, fed, tries, stash, reply>>

NextRound == /\ stage \in {"insert", "stash"}
             /\ cur = {} /\ next # {}
             /\ tries < MaxTries
             /\ cur' = next /\ next' = {}
             /\ tries' = tries + 1
             /\ UNCHANGED <<inputs, stage, fed, bins, stash, reply>>

(* After the last round, what is left goes to the stash.                   *)
ToStash == /\ stage = "insert"
           /\ cur = {} /\ next # {}
           /\ tries = MaxTries
           /\ stash' = stash \union {it.idx : it \in next}
           /\ next' = {}
           /\ UNCHANGED <<inputs, stage, fed, cur, tries, bins, reply>>

InsertStash == /\ stage = "insert" /\ Settled /\ fed = N
               /\ stage' = "stash"
               /\ cur' = NewRound(stash)
               /\ stash' = {}
               /\ tries' = 1
               /\ UNCHANGED <<inputs, fed, next, bins, reply>>

(* An exception in a thread of its own ends the process.                   *)
StashFull == /\ stage = "stash"
             /\ cur = {} /\ next # {}
             /\ tries = MaxTries
             /\ stage' = "terminated"
             /\ UNCHANGED <<inputs, hashing, reply>>

Hashed == /\ stage = "stash" /\ Settled
          /\ stage' = "hashed"
          /\ UNCHANGED <<inputs, hashing, reply>>

-----------------------------------------------------------------------------
(* The member: SimpleHasher1::insertBatch, getPos1, sendSSTableBased.      *)

(* Mutant: two hashes only.                                                *)
InBinByTwo(j, b) == \/ \E k \in 0..1 : b = Address(member[j], k)
                    \/ \E k \in 0..1 : b = StashAddress(member[j], k)

InBin(j, b) == \/ \E k \in 0..2 : b = Address(member[j], k)
               \/ \E k \in 0..1 : b = StashAddress(member[j], k)

SimpleBin(b) == {j \in Items : InBin(j, b)}

Code(j) == Codeword[member[j]]
DiffersAt(x, i, j) == (x \in Code(i)) # (x \in Code(j))

Least(S) == CHOOSE x \in S : \A y \in S : x <= y
First(S) == IF S = {} THEN {} ELSE {Least(S)}

(* The positions that are looked for in a bin of two or of three items, in *)
(* the order of their indices.  Mutant: the second one need only tell the  *)
(* first item from the third.                                              *)
SoughtFromFirst(js) ==
    IF Cardinality(js) \notin {2, 3} THEN {}
    ELSE LET c0 == Least(js)
             c1 == Least(js \ {c0})
             first == First({x \in Bits : DiffersAt(x, c0, c1)})
         IN IF Cardinality(js) = 2 THEN first
            ELSE LET c2 == Least(js \ {c0, c1})
                 IN first \union First({x \in Bits \ first : DiffersAt(x, c0, c2)})

Sought(js) ==
    IF Cardinality(js) \notin {2, 3} THEN {}
    ELSE LET c0 == Least(js)
             c1 == Least(js \ {c0})
             first == First({x \in Bits : DiffersAt(x, c0, c1)})
         IN IF Cardinality(js) = 2 THEN first
            ELSE LET c2 == Least(js \ {c0, c1})
                 IN first \union First({x \in Bits \ first :
                                          DiffersAt(x, c0, c2) /\ ~ DiffersAt(x, c0, c1)})

(* Mutant: one position too few is drawn.                                  *)
CandidatesOneShort(js) ==
    {p \in SUBSET Bits : /\ Cardinality(p) = NumBits - 1
                         /\ Sought(js) \subseteq p
                         /\ Cardinality(js) > 3 =>
                              \A x \in p : \E i, j \in js : DiffersAt(x, i, j)}

(* Random positions complete them; four or more items take random ones     *)
(* that tell some pair apart.                                              *)
Candidates(js) == {p \in SUBSET Bits : /\ Cardinality(p) = NumBits
                                       /\ Sought(js) \subseteq p
                                       /\ Cardinality(js) > 3 =>
                                            \A x \in p : \E i, j \in js : DiffersAt(x, i, j)}

Mask(code, p) == code \intersect p

Distinct(js, p) == \A i, j \in js : Mask(Code(i), p) = Mask(Code(j), p) => i = j

(* The row for the leader's bin b.  With four or more items, positions are *)
(* drawn until they tell all items apart; with two or three, it is not     *)
(* looked whether they do, and mMaps is then empty and read all the same.  *)
Program(b) ==
    /\ stage = "hashed"
    /\ bins[b] # Empty
    /\ bin' = b
    /\ LET js == SimpleBin(b)
           good == {p \in Candidates(js) : Distinct(js, p)}
       IN \/ /\ pos' \in IF Cardinality(js) > 3 THEN good ELSE Candidates(js)
             /\ stage' = IF Distinct(js, pos') THEN "programmed" ELSE "undefined"
          \/ /\ Cardinality(js) > 3 /\ good = {}
             /\ stage' = "spinning"
             /\ UNCHANGED pos
    /\ UNCHANGED <<inputs, hashing, answer>>

(* recvSSTableBased: the slot that the bits of the leader's own value name *)
(* holds a member's item, masked with that item's value, or nothing.       *)
Evaluate == /\ stage = "programmed"
            /\ LET mine == Mask(Codeword[leader[bins[bin].idx]], pos)
                   there == {j \in SimpleBin(bin) : Mask(Code(j), pos) = mine}
               IN answer' = IF there = {} THEN Empty ELSE CHOOSE j \in there : TRUE
            /\ stage' = "answered"
            /\ UNCHANGED <<inputs, hashing, bin, pos>>

-----------------------------------------------------------------------------
HashNext == \/ Feed \/ NextRound \/ ToStash \/ InsertStash \/ StashFull
            \/ StashDividesByZero \/ Hashed \/ Evaluate
            \/ \E it \in cur : Exchange(it)
            \/ \E b \in AllBins : Program(b)

HashSpec == HashInit /\ [][HashNext]_hashVars

-----------------------------------------------------------------------------
(* Properties.                                                             *)

ItemSet == [idx : Items, h : 0..2]

TypeOK == /\ fed \in 0..N
          /\ cur \in SUBSET ItemSet
          /\ next \in SUBSET ItemSet
          /\ tries \in 0..MaxTries
          /\ bins \in [AllBins -> ItemSet \union {Empty}]
          /\ stash \in SUBSET Items
          /\ stage \in {"insert", "stash", "hashed", "programmed", "answered",
                     "terminated", "dead", "spinning", "undefined"}

(* Where item i is: in a bin, in this round or the next one with a hash to *)
(* try, or in the stash.                                                   *)
Places(i) == {<<"bin", b>> : b \in {b \in AllBins : bins[b] # Empty /\ bins[b].idx = i}}
             \union {<<"cur", it.h>> : it \in {it \in cur : it.idx = i}}
             \union {<<"next", it.h>> : it \in {it \in next : it.idx = i}}
             \union {<<"stash", j>> : j \in stash \intersect {i}}

(* No eviction, no change of batch and no move to the stash loses an item  *)
(* or leaves it in two places; a bin holds an item by the very hash that   *)
(* it is marked with.                                                      *)
EveryItemOnce ==
    /\ \A i \in Items : IF i <= fed THEN \E p \in Places(i) : Places(i) = {p}
                                    ELSE Places(i) = {}
    /\ \A b \in AllBins : bins[b] # Empty =>
         b = IF b < MainBins(N) THEN Address(leader[bins[b].idx], bins[b].h)
                                ELSE StashAddress(leader[bins[b].idx], bins[b].h)

(* The leader's answer for an element that the member has is the member's  *)
(* value for it; for another element it is no value of the member's (the   *)
(* mask of another item does not come off).                                *)
LeaderGetsMembersValue ==
    stage = "answered" =>
        LET e == leader[bins[bin].idx]
        IN \A j \in Items : member[j] = e <=> j = answer /\ Code(j) = Codeword[e]

(* Only repeated elements of a member make it read masks that are not      *)
(* there, or draw positions for ever.                                      *)
Repeats(s) == \E i, j \in 1..Len(s) : i # j /\ s[i] = s[j]

UndefinedOnlyForRepeats == stage = "undefined" => Repeats(member)

(* As long as the items of a bin are not too many for the bits of a row.   *)
SpinsOnlyForRepeats == stage = "spinning" => Repeats(member)
=============================================================================
