--------------------------- MODULE Yyh26Protocol ---------------------------
(***************************************************************************)
(* One computation of YYH26, a threshold PSI from secret sharing           *)
(* (protocols/yyh26/protocol): the leader shares each of its elements, a   *)
(* member learns the shares of the elements it has, all members refresh    *)
(* the shares with sharings of zero, by oblivious linear evaluations, and  *)
(* the leader interpolates what the members give back.                     *)
(*                                                                         *)
(* The module follows ONE element, x, of the leader through the bin that   *)
(* it lies in; no value of one bin enters the computation of another.      *)
(* Member u has `slots[u]` in that bin, if it has as many bins: how many   *)
(* there are follows from a party's own set, and parties whose sets have   *)
(* different sizes get into each other's frames.  Every OPPRF and every OLE*)
(* is interactive: it happens when both parties have come to it in their   *)
(* programs, as a meeting of the two.  (One-way messages also are, which   *)
(* is the worst case of a full socket.)                                    *)
(*                                                                         *)
(* Values are kept modulo each of the CRT primes.  What an OPPRF returns   *)
(* for a point it was not programmed at is Junk, and stays it.             *)
(***************************************************************************)
EXTENDS Integers, Sequences, FiniteSets, SequencesExt, FiniteSetsExt

CONSTANTS
    N,                     \* number of parties
    Primes,                \* CRT_MODULI
    Block,                 \* Block[e]: stringToBlock, the first 16 bytes
    x,                     \* the leader's element
    SizeChoices,           \* how many elements the parties may submit
    MinSetSize,            \* MIN_SET_SIZE: 32
    SlotChoices,           \* what the members may have in the bin
    MaxBinSize,            \* slots of a bin
    Thresholds,
    Leaders,               \* parties that may be named leader
    Tapes,                 \* what is drawn: records of a, g, r and d (below)
    Junk

Parties == 0..(N - 1)
leaderIdx == N - 1
Members == 0..(N - 2)
Moduli == 1..Len(Primes)
Slots == 1..MaxBinSize

ASSUME Yyh26Assumption ==
    /\ N \in Nat /\ N >= 2
    /\ Primes \in Seq(Nat) /\ Len(Primes) >= 1
    /\ \A m \in Moduli : N < Primes[m] /\ \A d \in 2..(Primes[m] - 1) : Primes[m] % d # 0
    /\ Block \in [DOMAIN Block -> Nat] /\ x \in DOMAIN Block
    /\ SizeChoices \subseteq [Parties -> Nat] /\ MinSetSize \in Nat
    /\ MaxBinSize \in Nat
    /\ SlotChoices \subseteq [Members -> SeqOf(DOMAIN Block, MaxBinSize)]
    /\ Thresholds \subseteq 1..N
    /\ Leaders \subseteq Parties
    /\ LET slotValues == [Members -> [Members -> [Slots -> Nat]]]
           coefficients == [1..(N - 1) -> Nat]
       IN Tapes \subseteq [a : coefficients, g : [Members -> coefficients],
                           r : slotValues, d : slotValues]
    /\ Junk \notin Int

VARIABLES
    leader, threshold, sizes, slots, tape,   \* the requests and what is drawn
    at,                    \* at[p]: how far p is in its program; 0: no request
    outcome,               \* outcome[p]: "none", "ok" or "undefined"
    payload,               \* payload[u][m][s]: recvSSPayLoads
    serverShare,           \* serverShares of x
    leaderOle,             \* leaderOle[u][s][m]: oleResult of the leader
    memberOle,             \* memberOle[u][s][m]: oleResult[0] of member u
    endPayload,            \* endPayload[u][m]: endPayLoadsDivide
    oleIndex,              \* oleIndex[u]: the slot that u's answer is for
    found                  \* x is in the intersection

request == <<leader, threshold, sizes, slots, tape>>
values == <<payload, serverShare, leaderOle, memberOle, endPayload, oleIndex>>
vars == <<request, at, outcome, values, found>>

-----------------------------------------------------------------------------
(* Arithmetic modulo the m-th prime.                                       *)

Plus(m, a, b) == IF Junk \in {a, b} THEN Junk ELSE (a + b) % Primes[m]
Times(m, a, b) == (a * b) % Primes[m]
Neg(m, a) == (Primes[m] - (a % Primes[m])) % Primes[m]
InvMod(m, a) == CHOOSE i \in 1..(Primes[m] - 1) : (a * i) % Primes[m] = 1

(* The value at `point` of the polynomial with these coefficients.         *)
Eval(m, coeffs, point) ==
    FoldRight(LAMBDA c, acc : (acc * point + c) % Primes[m], coeffs, 0)

Prefix(s) == SubSeq(s, 1, threshold - 1)

(* shamirShare: the share of party p.  generateUpdateValues: member v's    *)
(* sharing of zero, its value for party p.                                 *)
Share(m, p) == Eval(m, <<Block[x]>> \o Prefix(tape.a), p + 1)
UpdateValue(m, v, p) == Eval(m, <<0>> \o Prefix(tape.g[v]), p + 1)

Basis(m, S, i) ==
    FoldSet(LAMBDA j, acc : Times(m, acc, Times(m, Neg(m, j + 1), InvMod(m, (i - j) % Primes[m]))),
            1, S \ {i})

(* lagrangeInterpolateAtZero for the shares of the parties in S.           *)
Interpolate(m, S, share) ==
    FoldSet(LAMBDA i, acc : Plus(m, acc, Times(m, share[i], Basis(m, S, i))), 0, S)

-----------------------------------------------------------------------------
(* The programs: whom a party meets, in which order, and for what.         *)

Meeting(kind, from, to, m) == [kind |-> kind, from |-> from, to |-> to, m |-> m]

(* The members in order, those other than u, and for each prime each        *)
(* member.                                                                 *)
MemberSeq == [i \in 1..(N - 1) |-> i - 1]
Others(u) == [i \in 1..(N - 2) |-> IF i <= u THEN i - 1 ELSE i]
ForEach(seq, Op(_)) == [i \in 1..Len(seq) |-> Op(seq[i])]
ModuliSeq == [m \in Moduli |-> m]

LeaderProgram ==
    LET L == leaderIdx
        overMembers(Op(_)) == ForEach(MemberSeq, Op)
        overModuli(Op(_, _)) == [k \in 1..(Len(Primes) * (N - 1)) |->
                                    Op((k - 1) % (N - 1), 1 + ((k - 1) \div (N - 1)))]
    IN overMembers(LAMBDA u : Meeting("sync", L, u, 0))
       \o overModuli(LAMBDA u, m : Meeting("share", L, u, m))
       \o overMembers(LAMBDA u : Meeting("update", u, L, 0))
       \o overMembers(LAMBDA u : Meeting("bole", u, L, 0))
       \o overModuli(LAMBDA u, m : Meeting("answer", u, L, m))
       \o overMembers(LAMBDA u : Meeting("index", u, L, 0))

(* In the first pass the larger index receives, in the second one it       *)
(* sends.                                                                  *)
FirstPass(u, v) == IF u > v THEN Meeting("bole", v, u, 0) ELSE Meeting("bole", u, v, 0)

(* Mutant: whoever comes first in the loop receives first.                 *)
SecondPassInOrder(u, v) == IF u < v THEN Meeting("bole", u, v, 0) ELSE Meeting("bole", u, v, 0)

SecondPass(u, v) == IF u < v THEN Meeting("bole", v, u, 0) ELSE Meeting("bole", u, v, 0)

MemberProgram(u) ==
    LET L == leaderIdx
    IN <<Meeting("sync", L, u, 0)>>
       \o ForEach(ModuliSeq, LAMBDA m : Meeting("share", L, u, m))
       \o <<Meeting("update", u, L, 0), Meeting("bole", u, L, 0)>>
       \o ForEach(Others(u), LAMBDA v : FirstPass(u, v))
       \o ForEach(Others(u), LAMBDA v : SecondPass(u, v))
       \o ForEach(ModuliSeq, LAMBDA m : Meeting("answer", u, L, m))
       \o <<Meeting("index", u, L, 0)>>

Program == [p \in Parties |-> IF p = leaderIdx THEN LeaderProgram ELSE MemberProgram(p)]

Finished(p) == at[p] > Len(Program[p])
Comes(p, meeting) == /\ outcome[p] = "none" /\ at[p] # 0 /\ ~ Finished(p)
                     /\ Program[p][at[p]] = meeting

(* Small sets are padded.  Mutant: they are not.                           *)
SetSizeUnpadded(p) == sizes[p]

setSize(p) == IF sizes[p] < MinSetSize THEN MinSetSize ELSE sizes[p]

(* The bins, and with them the frames and blocks of every meeting but the  *)
(* first, are counted by a party's own setSize.                            *)
Fits(meeting) == meeting.kind = "sync" \/ setSize(meeting.from) = setSize(meeting.to)

Meet(meeting) == /\ Comes(meeting.from, meeting) /\ Comes(meeting.to, meeting)
                 /\ Fits(meeting)
                 /\ at' = [at EXCEPT ![meeting.from] = @ + 1, ![meeting.to] = @ + 1]
                 /\ UNCHANGED <<request, outcome, found>>

(* Parties that expect other frames wait for ever or misread, and end with *)
(* their process when a thread finds a table of another length; whom they  *)
(* had yet to meet has nobody to go on with.                               *)
Derail(p) ==
    /\ \E meeting \in Range(Program[p]) :
         /\ Comes(p, meeting)
         /\ \/ \E q \in {meeting.from, meeting.to} : outcome[q] = "undefined"
            \/ /\ Comes(meeting.from, meeting) /\ Comes(meeting.to, meeting)
               /\ ~ Fits(meeting)
    /\ outcome' = [outcome EXCEPT ![p] = "undefined"]
    /\ UNCHANGED <<request, at, values, found>>

-----------------------------------------------------------------------------
Blank == [u \in Members |-> [s \in Slots |-> [m \in Moduli |-> 0]]]

Init == /\ leader \in Leaders
        /\ threshold \in Thresholds
        /\ sizes \in SizeChoices
        /\ slots \in SlotChoices
        /\ tape \in Tapes
        /\ at = [p \in Parties |-> 0]
        /\ outcome = [p \in Parties |-> "none"]
        /\ payload = [u \in Members |-> [m \in Moduli |-> <<>>]]
        /\ serverShare = [m \in Moduli |-> Share(m, leaderIdx)]
        /\ leaderOle = Blank
        /\ memberOle = Blank
        /\ endPayload = [u \in Members |-> [m \in Moduli |-> Junk]]
        /\ oleIndex = [u \in Members |-> Junk]
        /\ found = FALSE

(* The clients submit in any order: connecting is retried until the other  *)
(* party listens.                                                          *)
Submit(p) == /\ at[p] = 0
             /\ at' = [at EXCEPT ![p] = 1]
             /\ UNCHANGED <<request, outcome, values, found>>

SameAsX(e) == Block[e] = Block[x]

Sync(u) == Meet(Meeting("sync", leaderIdx, u, 0)) /\ UNCHANGED values

(* Phase 1: an OPPRF programmed at the leader's elements.                  *)
GiveShare(u, m) ==
    /\ Meet(Meeting("share", leaderIdx, u, m))
    /\ payload' = [payload EXCEPT ![u][m] =
          [s \in 1..Len(slots[u]) |-> IF SameAsX(slots[u][s]) THEN Share(m, u) ELSE Junk]]
    /\ UNCHANGED <<serverShare, leaderOle, memberOle, endPayload, oleIndex>>

(* Phase 2: the leader's share takes the members' values for its bin.      *)
Update(v) ==
    /\ Meet(Meeting("update", v, leaderIdx, 0))
    /\ serverShare' = [m \in Moduli |-> Plus(m, serverShare[m], UpdateValue(m, v, leaderIdx))]
    /\ UNCHANGED <<payload, leaderOle, memberOle, endPayload, oleIndex>>

(* The leader's OLE with v, for every member u and slot: it enters x, and  *)
(* v enters a = r and b = update - d.                                      *)
LeaderBole(v) ==
    /\ Meet(Meeting("bole", v, leaderIdx, 0))
    /\ leaderOle' = [u \in Members |-> [s \in Slots |-> [m \in Moduli |->
          LET b == Plus(m, UpdateValue(m, v, u), Neg(m, tape.d[v][u][s]))
          IN Plus(m, leaderOle[u][s][m], Plus(m, Times(m, tape.r[v][u][s], Block[x]), b))]]]
    /\ UNCHANGED <<payload, serverShare, memberOle, endPayload, oleIndex>>

(* -r y + d for the element y of a slot of u, with the values of v.        *)
Term(m, v, u, s) == Plus(m, Times(m, Neg(m, tape.r[v][u][s]), Block[slots[u][s]]), tape.d[v][u][s])

Filled(u, s) == s <= Len(slots[u])

(* An OLE between two members: u receives.                                 *)
ClientBole(v, u) ==
    /\ Meet(Meeting("bole", v, u, 0))
    /\ memberOle' = [memberOle EXCEPT ![u] = [s \in Slots |-> [m \in Moduli |->
          IF Filled(u, s) THEN Plus(m, @[s][m], Term(m, v, u, s)) ELSE @[s][m]]]]
    /\ UNCHANGED <<payload, serverShare, leaderOle, endPayload, oleIndex>>

(* Mutant: the member's own values are left out of the sum.                *)
UpdatedWithoutOwn(u, m, s) == Plus(m, payload[u][m][s], memberOle[u][s][m])

(* Phase 3: the share, updated, with the member's own term.                *)
Updated(u, m, s) == Plus(m, payload[u][m][s], Plus(m, memberOle[u][s][m], Term(m, u, u, s)))

(* The OPPRF in the other direction answers x with the slot that has it.   *)
SlotOfX(u) == {s \in 1..Len(slots[u]) : SameAsX(slots[u][s])}

GiveAnswer(u, m) ==
    /\ Meet(Meeting("answer", u, leaderIdx, m))
    /\ endPayload' = [endPayload EXCEPT ![u][m] =
          IF SlotOfX(u) = {} THEN Junk ELSE Updated(u, m, Min(SlotOfX(u)))]
    /\ UNCHANGED <<payload, serverShare, leaderOle, memberOle, oleIndex>>

GiveIndex(u) ==
    /\ Meet(Meeting("index", u, leaderIdx, 0))
    /\ oleIndex' = [oleIndex EXCEPT ![u] = IF SlotOfX(u) = {} THEN Junk ELSE Min(SlotOfX(u))]
    /\ UNCHANGED <<payload, serverShare, leaderOle, memberOle, endPayload>>

-----------------------------------------------------------------------------
(* Phase 4, of the party named leader.                                     *)

EndShare(m, p) == IF p = leaderIdx THEN serverShare[m]
                  ELSE IF oleIndex[p] = Junk THEN Junk
                  ELSE Plus(m, endPayload[p][m], leaderOle[p][oleIndex[p]][m])

(* Members whose answer was junk give random numbers; that four            *)
(* interpolations hit x by chance is left out.                             *)
Verifies(S) ==
    \A m \in Moduli : /\ \A p \in S : EndShare(m, p) # Junk
                      /\ Interpolate(m, S, [p \in S |-> EndShare(m, p)]) = Block[x] % Primes[m]

(* Every choice of threshold - 1 members, and the leader.                  *)
Combinations == {S \union {leaderIdx} : S \in kSubset(threshold - 1, Members)}

(* Roles in the phases go by leaderIdx, the last party, and the class goes *)
(* by the request: another leader reads end shares that it does not have.  *)
Finish(p) ==
    /\ outcome[p] = "none"
    /\ at[p] # 0 /\ Finished(p)
    /\ outcome' = [outcome EXCEPT ![p] = IF p = leader /\ p # leaderIdx THEN "undefined" ELSE "ok"]
    /\ found' = IF p = leader /\ p = leaderIdx THEN \E S \in Combinations : Verifies(S) ELSE found
    /\ UNCHANGED <<request, at, values>>

-----------------------------------------------------------------------------
MemberMeets(u) == \/ Sync(u) \/ Update(u) \/ LeaderBole(u) \/ GiveIndex(u)
                  \/ \E m \in Moduli : GiveShare(u, m) \/ GiveAnswer(u, m)
                  \/ \E v \in Members \ {u} : ClientBole(v, u)

Next == \/ \E p \in Parties : Submit(p) \/ Finish(p) \/ Derail(p)
        \/ \E u \in Members : MemberMeets(u)

Spec == Init /\ [][Next]_vars

(* Every client submits and every party goes on.                           *)
FairSpec == Spec /\ WF_vars(Next)

-----------------------------------------------------------------------------
(* Sets of one size, or all of them small enough to be padded.             *)
Alike == \A p, q \in Parties : sizes[p] = sizes[q] \/ {sizes[p], sizes[q]} \subseteq 0..MinSetSize

(* psi_service.proto: "elements in >= threshold parties are in the         *)
(* result".  In sets that are alike x is, whichever slots the members have *)
(* it in: the refreshed shares still lie on one polynomial.  It is found   *)
(* otherwise only if enough parties have an element that starts with the   *)
(* same 16 bytes, which is all that the code keeps of one.                 *)
Holders == {u \in Members : \E e \in Range(slots[u]) : SameAsX(e)}

FoundIfHeldByEnough ==
    Alike /\ outcome[leader] = "ok" => (found <=> 1 + Cardinality(Holders) >= threshold)

(* When the last party leads and the sets are alike, the members' order of *)
(* meetings fits together: all parties finish.                             *)
EverybodyFinishes ==
    leader = leaderIdx /\ Alike => <>[](\A p \in Parties : outcome[p] = "ok")

-----------------------------------------------------------------------------
(* What the documents say, and the code does not do.                       *)

(* service/README.md: "any party can be the leader".  Another one than the *)
(* last party goes through a member's program, and then reads results that *)
(* it does not have.                                                       *)
AnyPartyCanLead == Alike => <>(outcome[leader] = "ok")
=============================================================================
