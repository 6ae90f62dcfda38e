------------------------ MODULE Xzh26ProtocolProofs ------------------------
(***************************************************************************)
(* Proofs about XZH26, for any number of members, any sets of up to 128    *)
(* elements, windows and deaths: first about a run (Xzh26Protocol), then   *)
(* about the hashing and the tables of its OPPRF (OpprfHashing), for all   *)
(* hash values, batch sizes and numbers of rounds.                         *)
(*                                                                         *)
(* A run is a matter of counting.  The place of a party, its phase and the *)
(* frames handled in it, says how many frames have gone up and down by its *)
(* own count, and which is the j-th.  What a stream holds is what one end  *)
(* has written, by its count, and the other not read, by its own: the two  *)
(* counts differ when the sizes of the sets do.  The leader finds out when *)
(* it has all processed points of a member: if it took them all for points,*)
(* they were not more than the member has elements, and if the member could*)
(* send them, it had its whole filter, which is no longer than the leader's*)
(* only if it has no more elements.                                        *)
(***************************************************************************)
EXTENDS Xzh26Protocol, OpprfHashing, FiniteSetTheorems, SequenceTheorems,
        WellFoundedInduction, TLAPS

-----------------------------------------------------------------------------
(* Where a party is, and which frames it has handled there.                *)
F(n) == 2 * FilterSize(n)
T(n) == 2 * TableFrames(n)

(* The place of a party with n elements on one stream.                     *)
Place(n) == {a \in [phase : 1..9, to : {1}, count : Nat] :
               a.phase <= 8 => a.count < FramesOf(Phases[a.phase], n)}

Step(a, n) == IF a.count + 1 < FramesOf(Phases[a.phase], n) THEN [a EXCEPT !.count = @ + 1]
              ELSE [phase |-> a.phase + 1, to |-> 1, count |-> 0]

(* The frames that it has handled by then, of those that go up and down.   *)
UpTo(a, n) == CASE a.phase = 1 -> 0
                [] a.phase \in 2..4 -> 1
                [] a.phase = 5 -> 1 + a.count
                [] a.phase = 6 -> 1 + n + a.count
                [] a.phase = 7 -> 1 + n + T(n)
                [] a.phase = 8 -> 1 + n + T(n) + a.count
                [] OTHER -> 1 + n + T(n) + n

DownTo(a, n) == CASE a.phase \in 1..2 -> 0
                  [] a.phase = 3 -> 1 + a.count
                  [] a.phase = 4 -> 1 + F(n) + a.count
                  [] a.phase \in 5..6 -> 1 + F(n) + n
                  [] a.phase = 7 -> 1 + F(n) + n + a.count
                  [] OTHER -> 1 + F(n) + n + n

(* The j-th of the frames that a member with n elements sends, and a       *)
(* leader with n.                                                          *)
UpFrame(n, j) == IF j <= 1 THEN "key"
                 ELSE IF j <= 1 + n THEN "processed"
                 ELSE IF j <= 1 + n + T(n) THEN "table"
                 ELSE "partial"

DownFrame(n, j) == IF j <= 1 THEN "beta"
                   ELSE IF j <= 1 + F(n) THEN "filter"
                   ELSE IF j <= 1 + F(n) + n THEN "blinded"
                   ELSE "c1"

(* The numbers of frames of a phase are positive.                          *)
LEMMA FrameCounts ==
  ASSUME NEW n \in 1..128
  PROVE  /\ F(n) \in Nat \ {0} /\ T(n) \in Nat \ {0}
         /\ FramesOf(Phases[1], n) = 1 /\ FramesOf(Phases[2], n) = 1
         /\ FramesOf(Phases[3], n) = F(n) /\ FramesOf(Phases[4], n) = n
         /\ FramesOf(Phases[5], n) = n /\ FramesOf(Phases[6], n) = T(n)
         /\ FramesOf(Phases[7], n) = n /\ FramesOf(Phases[8], n) = n
<1>1. F(n) \in Nat \ {0}
  BY FilterAssumption DEF F
<1>2. T(n) \in Nat \ {0}
  BY DEF T, TableFrames, Chunks, StepSize, MainBins, StashBins
<1>3. /\ FramesOf(Phases[1], n) = 1 /\ FramesOf(Phases[2], n) = 1
      /\ FramesOf(Phases[3], n) = F(n) /\ FramesOf(Phases[4], n) = n
      /\ FramesOf(Phases[5], n) = n /\ FramesOf(Phases[6], n) = T(n)
      /\ FramesOf(Phases[7], n) = n /\ FramesOf(Phases[8], n) = n
  BY DEF Phases, FramesOf, F, T
<1> QED
  BY <1>1, <1>2, <1>3

LEMMA SomeFrames ==
  ASSUME NEW n \in 1..128
  PROVE  \A i \in 1..8 : FramesOf(Phases[i], n) \in Nat \ {0}
<1>1. FramesOf(Phases[1], n) \in Nat \ {0} /\ FramesOf(Phases[2], n) \in Nat \ {0}
  BY FrameCounts
<1>2. FramesOf(Phases[3], n) \in Nat \ {0} /\ FramesOf(Phases[6], n) \in Nat \ {0}
  BY FrameCounts
<1>3. /\ FramesOf(Phases[4], n) \in Nat \ {0} /\ FramesOf(Phases[5], n) \in Nat \ {0}
      /\ FramesOf(Phases[7], n) \in Nat \ {0} /\ FramesOf(Phases[8], n) \in Nat \ {0}
  BY FrameCounts
<1>4. \A i \in 1..8 : i \in {1, 2, 3, 4, 5, 6, 7, 8}
  OBVIOUS
<1> QED
  BY <1>1, <1>2, <1>3, <1>4

(* The phases in which a member sends.                                     *)
LEMMA PhaseNames ==
  /\ Phases[1] = "key" /\ Phases[2] = "beta" /\ Phases[3] = "filter" /\ Phases[4] = "blinded"
  /\ Phases[5] = "processed" /\ Phases[6] = "table" /\ Phases[7] = "c1" /\ Phases[8] = "partial"
  /\ \A i \in 1..8 : Phases[i] \in FromMember <=> i \in {1, 5, 6, 8}
  /\ Len(Phases) = 8
BY DEF Phases, FromMember

(* One step further on is a place, too.                                    *)
LEMMA StepPlace ==
  ASSUME NEW n \in 1..128, NEW a \in Place(n), a.phase <= 8
  PROVE  /\ Step(a, n) \in Place(n)
         /\ \/ /\ Step(a, n).phase = a.phase /\ Step(a, n).count = a.count + 1
               /\ a.count + 1 < FramesOf(Phases[a.phase], n)
            \/ /\ Step(a, n).phase = a.phase + 1 /\ Step(a, n).count = 0
               /\ a.count + 1 = FramesOf(Phases[a.phase], n)
<1>1. a \in [phase : 1..9, to : {1}, count : Nat] /\ a.count < FramesOf(Phases[a.phase], n)
  BY DEF Place
<1>2. FramesOf(Phases[a.phase], n) \in Nat \ {0}
  <2>1. a.phase \in 1..8
    BY <1>1
  <2> QED
    BY <2>1, SomeFrames
<1>3. a.phase + 1 <= 8 => 0 < FramesOf(Phases[a.phase + 1], n)
  <2> SUFFICES ASSUME a.phase + 1 <= 8 PROVE FramesOf(Phases[a.phase + 1], n) \in Nat \ {0}
    OBVIOUS
  <2>1. a.phase + 1 \in 1..8
    BY <1>1
  <2> QED
    BY <2>1, SomeFrames
<1>4. CASE a.count + 1 < FramesOf(Phases[a.phase], n)
  <2>1. Step(a, n) = [a EXCEPT !.count = a.count + 1]
    BY <1>4 DEF Step
  <2> QED
    BY <1>1, <1>4, <2>1 DEF Place
<1>5. CASE ~ (a.count + 1 < FramesOf(Phases[a.phase], n))
  <2>1. Step(a, n) = [phase |-> a.phase + 1, to |-> 1, count |-> 0]
    BY <1>5 DEF Step
  <2>2. a.count + 1 = FramesOf(Phases[a.phase], n)
    BY <1>1, <1>2, <1>5
  <2> QED
    BY <1>1, <1>3, <2>1, <2>2 DEF Place
<1> QED
  BY <1>4, <1>5

(* What one frame more does to the numbers, phase by phase.                *)
Next1(a, b, size) == /\ a.count \in Nat /\ a.count < size
                     /\ \/ b.phase = a.phase /\ b.count = a.count + 1 /\ a.count + 1 < size
                        \/ b.phase = a.phase + 1 /\ b.count = 0 /\ a.count + 1 = size

LEMMA StepIsNext ==
  ASSUME NEW n \in 1..128, NEW a \in Place(n), a.phase <= 8
  PROVE  Next1(a, Step(a, n), FramesOf(Phases[a.phase], n))
<1>1. a.count \in Nat /\ a.count < FramesOf(Phases[a.phase], n)
  BY DEF Place
<1> QED
  BY <1>1, StepPlace DEF Next1

(* The numbers at each place, one by one.                                  *)
LEMMA Values ==
  ASSUME NEW n, NEW a
  PROVE  /\ a.phase = 1 => UpTo(a, n) = 0 /\ DownTo(a, n) = 0
         /\ a.phase = 2 => UpTo(a, n) = 1 /\ DownTo(a, n) = 0
         /\ a.phase = 3 => UpTo(a, n) = 1 /\ DownTo(a, n) = 1 + a.count
         /\ a.phase = 4 => UpTo(a, n) = 1 /\ DownTo(a, n) = 1 + F(n) + a.count
         /\ a.phase = 5 => UpTo(a, n) = 1 + a.count /\ DownTo(a, n) = 1 + F(n) + n
         /\ a.phase = 6 => UpTo(a, n) = 1 + n + a.count /\ DownTo(a, n) = 1 + F(n) + n
         /\ a.phase = 7 => UpTo(a, n) = 1 + n + T(n) /\ DownTo(a, n) = 1 + F(n) + n + a.count
         /\ a.phase = 8 => UpTo(a, n) = 1 + n + T(n) + a.count /\ DownTo(a, n) = 1 + F(n) + n + n
         /\ a.phase = 9 => UpTo(a, n) = 1 + n + T(n) + n /\ DownTo(a, n) = 1 + F(n) + n + n
BY DEF UpTo, DownTo

(* They are numbers.                                                       *)
LEMMA Counts ==
  ASSUME NEW n \in 1..128, NEW a \in Place(n)
  PROVE  UpTo(a, n) \in Nat /\ DownTo(a, n) \in Nat
<1>1. PICK f, t, k : f = F(n) /\ t = T(n) /\ k = a.count
  OBVIOUS
<1>2. f \in Nat /\ t \in Nat /\ k \in Nat /\ n \in Nat
  <2>1. a.count \in Nat
    BY DEF Place
  <2>2. F(n) \in Nat /\ T(n) \in Nat
    BY FrameCounts
  <2> QED
    BY <1>1, <2>1, <2>2
<1>3. a.phase \in {1, 2, 3, 4, 5, 6, 7, 8, 9}
  BY DEF Place
<1>4. UpTo(a, n) \in {0, 1, 1 + k, 1 + n + k, 1 + n + t, 1 + n + t + k, 1 + n + t + n}
  BY <1>1, <1>3, Values
<1>5. DownTo(a, n) \in {0, 1 + k, 1 + f + k, 1 + f + n, 1 + f + n + k, 1 + f + n + n}
  BY <1>1, <1>3, Values
<1> QED
  BY <1>2, <1>4, <1>5

(* A step in which a frame goes up makes one more of those, and the frame  *)
(* is the next one.                                                        *)
LEMMA StepUp ==
  ASSUME NEW n \in 1..128, NEW a \in Place(n), a.phase \in {1, 5, 6, 8}
  PROVE  /\ UpTo(Step(a, n), n) = UpTo(a, n) + 1
         /\ DownTo(Step(a, n), n) = DownTo(a, n)
         /\ Phases[a.phase] = UpFrame(n, UpTo(a, n) + 1)
<1>1. PICK b : b = Step(a, n)
  OBVIOUS
<1>2. F(n) \in Nat /\ T(n) \in Nat \ {0}
  BY FrameCounts
<1>3. Next1(a, b, FramesOf(Phases[a.phase], n))
  BY <1>1, StepIsNext
<1> SUFFICES /\ UpTo(b, n) = UpTo(a, n) + 1
             /\ DownTo(b, n) = DownTo(a, n)
             /\ Phases[a.phase] = UpFrame(n, UpTo(a, n) + 1)
  BY <1>1
<1>4. CASE a.phase = 1
  <2>1. Next1(a, b, 1)
    BY <1>3, <1>4, FrameCounts
  <2> QED
    BY <1>2, <1>4, <2>1, PhaseNames, Values DEF UpFrame, Next1
<1>5. CASE a.phase = 5
  <2>1. Next1(a, b, n)
    BY <1>3, <1>5, FrameCounts
  <2>2. UpTo(a, n) = 1 + a.count /\ a.count \in Nat /\ a.count < n
    BY <2>1, <1>5, Values DEF Next1
  <2>3. UpTo(b, n) = UpTo(a, n) + 1 /\ DownTo(b, n) = DownTo(a, n)
    BY <1>2, <1>5, <2>1, <2>2, Values DEF Next1
  <2>4. Phases[a.phase] = UpFrame(n, UpTo(a, n) + 1)
    BY <1>2, <1>5, <2>2, PhaseNames DEF UpFrame
  <2> QED
    BY <2>3, <2>4
<1>6. CASE a.phase = 6
  <2>1. Next1(a, b, T(n))
    BY <1>3, <1>6, FrameCounts
  <2> QED
    BY <1>2, <1>6, <2>1, PhaseNames, Values DEF UpFrame, Next1
<1>7. CASE a.phase = 8
  <2>1. Next1(a, b, n)
    BY <1>3, <1>7, FrameCounts
  <2> QED
    BY <1>2, <1>7, <2>1, PhaseNames, Values DEF UpFrame, Next1
<1> QED
  BY <1>4, <1>5, <1>6, <1>7

(* So does one in which a frame goes down.                                 *)
LEMMA StepDown ==
  ASSUME NEW n \in 1..128, NEW a \in Place(n), a.phase \in {2, 3, 4, 7}
  PROVE  /\ DownTo(Step(a, n), n) = DownTo(a, n) + 1
         /\ UpTo(Step(a, n), n) = UpTo(a, n)
         /\ Phases[a.phase] = DownFrame(n, DownTo(a, n) + 1)
<1>1. PICK b : b = Step(a, n)
  OBVIOUS
<1>2. F(n) \in Nat \ {0} /\ T(n) \in Nat
  BY FrameCounts
<1>3. Next1(a, b, FramesOf(Phases[a.phase], n))
  BY <1>1, StepIsNext
<1> SUFFICES /\ DownTo(b, n) = DownTo(a, n) + 1
             /\ UpTo(b, n) = UpTo(a, n)
             /\ Phases[a.phase] = DownFrame(n, DownTo(a, n) + 1)
  BY <1>1
<1>4. CASE a.phase = 2
  <2>1. Next1(a, b, 1)
    BY <1>3, <1>4, FrameCounts
  <2> QED
    BY <1>2, <1>4, <2>1, PhaseNames, Values DEF DownFrame, Next1
<1>5. CASE a.phase = 3
  <2>1. Next1(a, b, F(n))
    BY <1>3, <1>5, FrameCounts
  <2> QED
    BY <1>2, <1>5, <2>1, PhaseNames, Values DEF DownFrame, Next1
<1>6. CASE a.phase = 4
  <2>1. Next1(a, b, n)
    BY <1>3, <1>6, FrameCounts
  <2>2. DownTo(a, n) = 1 + F(n) + a.count /\ a.count \in Nat /\ a.count < n
    BY <2>1, <1>6, Values DEF Next1
  <2>3. DownTo(b, n) = DownTo(a, n) + 1 /\ UpTo(b, n) = UpTo(a, n)
    BY <1>2, <1>6, <2>1, <2>2, Values DEF Next1
  <2>4. Phases[a.phase] = DownFrame(n, DownTo(a, n) + 1)
    BY <1>2, <1>6, <2>2, PhaseNames DEF DownFrame
  <2> QED
    BY <2>3, <2>4
<1>7. CASE a.phase = 7
  <2>1. Next1(a, b, n)
    BY <1>3, <1>7, FrameCounts
  <2> QED
    BY <1>2, <1>7, <2>1, PhaseNames, Values DEF DownFrame, Next1
<1> QED
  BY <1>4, <1>5, <1>6, <1>7

-----------------------------------------------------------------------------
(* The inductive invariant.                                                *)
Index(m) == CHOOSE i \in DOMAIN member_ids : member_ids[i] = m

(* Where the leader is on the stream of member m.                          *)
Before == [phase |-> 1, to |-> 1, count |-> 0]
Now(m) == LET a == at[Leader]
          IN  IF pc[Leader] \in {"off", "connect"} THEN Before
              ELSE IF a.phase = 9 \/ Index(m) > a.to THEN [phase |-> a.phase, to |-> 1, count |-> 0]
              ELSE IF Index(m) = a.to THEN [phase |-> a.phase, to |-> 1, count |-> a.count]
              ELSE [phase |-> a.phase + 1, to |-> 1, count |-> 0]

LeaderPlace ==
    /\ at[Leader] \in [phase : 1..9, to : DOMAIN member_ids, count : Nat]
    /\ at[Leader].phase <= 8 => at[Leader].count < FramesOf(Phases[at[Leader].phase], Size(Leader))
    /\ pc[Leader] \in {"off", "connect"} => at[Leader].phase = 1 /\ at[Leader].count = 0
    /\ pc[Leader] \in {"close", "done"} => at[Leader].phase = 9

Frames == {Phases[i] : i \in 1..8}

Typed == /\ input \in InputChoices
         /\ DOMAIN pc = Parties
         /\ DOMAIN at = Parties
         /\ \A m \in Members : at[m] \in Place(Size(m))
         /\ LeaderPlace
         /\ up \in [Members -> Seq(Frames)]
         /\ down \in [Members -> Seq(Frames)]
         /\ DOMAIN table = Members

Alive == pc[Leader] \notin {"error", "crashed"}

(* The streams hold what one end has sent and the other has not received.  *)
DownHolds(m) ==
    /\ DownTo(Now(m), Size(Leader)) = DownTo(at[m], Size(m)) + Len(down[m])
    /\ \A i \in 1..Len(down[m]) : down[m][i] = DownFrame(Size(Leader), DownTo(at[m], Size(m)) + i)

UpHolds(m) ==
    /\ UpTo(at[m], Size(m)) = UpTo(Now(m), Size(Leader)) + Len(up[m])
    /\ \A i \in 1..Len(up[m]) : up[m][i] = UpFrame(Size(m), UpTo(Now(m), Size(Leader)) + i)

(* Whose processed points the leader has all received has as many elements.*)
SameSize(m) == /\ Now(m).phase >= 6 => Size(m) = Size(Leader)
               /\ Now(m).phase = 5 => Now(m).count <= Size(m)

Tabled(m) == at[m].phase >= 7 \/ (at[m].phase = 6 /\ at[m].count > 0)
                => table[m] = input[m] /\ StashBins(Size(m)) > 0

IInv == /\ Typed
        /\ \A m \in Members : DownHolds(m) /\ Tabled(m)
        /\ Alive => \A m \in Members : UpHolds(m) /\ SameSize(m)
        /\ ResultIsUnanimous

(* Each member has one place in the order, and the leader none.            *)
LEMMA Order ==
  /\ DOMAIN member_ids = 1..Len(member_ids) /\ Len(member_ids) \in Nat \ {0}
  /\ \A m \in Members : Index(m) \in DOMAIN member_ids /\ member_ids[Index(m)] = m
  /\ \A i \in DOMAIN member_ids : member_ids[i] \in Members /\ Index(member_ids[i]) = i
  /\ Leader \in Parties /\ Members \subseteq Parties /\ Leader \notin Members
<1>1. member_ids \in Seq(Members) /\ member_ids # <<>> /\ Leader \notin Members
  BY Xzh26Assumption
<1>2. DOMAIN member_ids = 1..Len(member_ids) /\ Len(member_ids) \in Nat \ {0}
  BY <1>1, EmptySeq, LenProperties
<1>3. \A m \in Members : Index(m) \in DOMAIN member_ids /\ member_ids[Index(m)] = m
  <2>1. \A m \in Members : \E i \in DOMAIN member_ids : member_ids[i] = m
    BY DEF Members, Range
  <2> QED
    BY <2>1 DEF Index
<1>4. \A i, j \in DOMAIN member_ids : member_ids[i] = member_ids[j] => i = j
  BY Xzh26Assumption DEF IsInjective
<1>5. \A i \in DOMAIN member_ids : member_ids[i] \in Members
  BY DEF Members, Range
<1> QED
  BY <1>1, <1>2, <1>3, <1>4, <1>5 DEF Parties

(* A set has up to 128 elements.                                           *)
LEMMA Sizes == \A p \in Parties : input \in InputChoices => Size(p) \in 1..128
BY Xzh26Assumption DEF Size

(* The leader's place on a stream is a place for its own number of frames. *)
LEMMA NowPlace ==
  ASSUME Typed, NEW m \in Members
  PROVE  Now(m) \in Place(Size(Leader))
<1>1. Size(Leader) \in 1..128
  BY Sizes, Order DEF Typed
<1>2. \A i \in 1..8 : FramesOf(Phases[i], Size(Leader)) \in Nat \ {0}
  BY <1>1, SomeFrames
<1>3. /\ at[Leader].phase \in 1..9 /\ at[Leader].count \in Nat
      /\ at[Leader].phase <= 8 => at[Leader].count < FramesOf(Phases[at[Leader].phase], Size(Leader))
  BY DEF Typed, LeaderPlace
<1>4. Now(m) \in [phase : 1..9, to : {1}, count : Nat]
  BY <1>3 DEF Now, Before
<1>5. ASSUME Now(m).phase <= 8 PROVE Now(m).count < FramesOf(Phases[Now(m).phase], Size(Leader))
  <2>1. Now(m).count = 0 \/ (Now(m).phase = at[Leader].phase /\ Now(m).count = at[Leader].count)
    BY DEF Now, Before
  <2>2. Now(m).phase \in 1..8
    BY <1>4, <1>5
  <2> QED
    BY <1>2, <1>3, <2>1, <2>2
<1> QED
  BY <1>4, <1>5 DEF Place

(* Going one frame further, the leader does so with one member.            *)
LEMMA LeaderAdvances ==
  ASSUME Typed, Running(Leader), pc' = pc, input' = input,
         at' = [at EXCEPT ![Leader] = Advance(Leader)]
  PROVE  /\ To \in Members
         /\ Now(To).phase = at[Leader].phase
         /\ \A m \in Members : Now(m)' = IF m = To THEN Step(Now(m), Size(Leader)) ELSE Now(m)
         /\ LeaderPlace'
         /\ \A m \in Members : at'[m] = at[m]
         /\ DOMAIN at' = Parties
<1> DEFINE a == at[Leader]
           K == Size(Leader)
           i == a.to
           t == To
<1>1. /\ a \in [phase : 1..9, to : DOMAIN member_ids, count : Nat] /\ a.phase \in 1..8
      /\ a.count < FramesOf(Phases[a.phase], K) /\ pc[Leader] = "run"
  BY PhaseNames DEF Typed, LeaderPlace, Running
<1>2. t \in Members /\ Index(t) = i
  BY <1>1, Order DEF To
<1>3. Size(Leader)' = K /\ K \in 1..128
  BY Sizes, Order DEF Typed, Size
<1>4. /\ at'[Leader] = Advance(Leader) /\ pc'[Leader] = "run"
      /\ \A m \in Members : at'[m] = at[m] /\ DOMAIN at' = Parties
  BY <1>1, Order DEF Typed
<1>5. Now(t) = [phase |-> a.phase, to |-> 1, count |-> a.count]
  BY <1>1, <1>2, Order DEF Now
<1>6. \A m \in Members \ {t} : Index(m) # i /\ Index(m) \in 1..Len(member_ids)
  BY <1>1, <1>2, Order
<1>7. \A ph \in 1..8 : 0 < FramesOf(Phases[ph], K)
  <2> SUFFICES ASSUME NEW ph \in 1..8 PROVE 0 < FramesOf(Phases[ph], K)
    OBVIOUS
  <2>1. FramesOf(Phases[ph], K) \in Nat \ {0}
    BY <1>3, SomeFrames
  <2> QED
    BY <2>1
<1>11. ASSUME NEW m \in Members, at'[Leader].phase \in 1..9
       PROVE  LET b == at'[Leader]
              IN  Now(m)' = IF b.phase = 9 \/ Index(m) > b.to THEN [phase |-> b.phase, to |-> 1, count |-> 0]
                            ELSE IF Index(m) = b.to THEN [phase |-> b.phase, to |-> 1, count |-> b.count]
                            ELSE [phase |-> b.phase + 1, to |-> 1, count |-> 0]
  <2>1. Index(m)' = Index(m)
    BY DEF Index
  <2> QED
    BY <1>4, <2>1 DEF Now
<1> HIDE DEF K, t
<1>8. CASE a.count + 1 < FramesOf(Phases[a.phase], K)
  <2>1. at'[Leader] = [phase |-> a.phase, to |-> i, count |-> a.count + 1]
    BY <1>1, <1>4, <1>8 DEF Advance, Phase, K
  <2>2. ASSUME NEW m \in Members, m = t PROVE Now(m)' = Step(Now(m), K)
    <3>1. Now(m)' = [phase |-> a.phase, to |-> 1, count |-> a.count + 1]
      BY <1>1, <1>2, <1>11, <2>1, <2>2, Order
    <3> QED
      BY <1>5, <1>8, <2>2, <3>1 DEF Step
  <2>3. \A m \in Members \ {t} : Now(m)' = Now(m)
    BY <1>1, <1>6, <1>11, <2>1 DEF Now
  <2>4. LeaderPlace'
    BY <1>1, <1>3, <1>4, <1>8, <2>1 DEF LeaderPlace, K
  <2> QED
    BY <1>2, <1>4, <1>5, <2>2, <2>3, <2>4 DEF K, t
<1>9. CASE ~ (a.count + 1 < FramesOf(Phases[a.phase], K)) /\ i < Len(member_ids)
  <2>1. at'[Leader] = [phase |-> a.phase, to |-> i + 1, count |-> 0]
    BY <1>1, <1>4, <1>9 DEF Advance, Phase, K
  <2>2. ASSUME NEW m \in Members, m = t PROVE Now(m)' = Step(Now(m), K)
    <3>1. Now(m)' = [phase |-> a.phase + 1, to |-> 1, count |-> 0]
      BY <1>1, <1>2, <1>11, <2>1, <2>2, Order
    <3> QED
      BY <1>5, <1>9, <2>2, <3>1 DEF Step
  <2>3. \A m \in Members \ {t} : Now(m)' = Now(m)
    BY <1>1, <1>6, <1>11, <2>1, Order DEF Now
  <2>4. LeaderPlace'
    BY <1>1, <1>3, <1>4, <1>7, <1>9, <2>1, Order DEF LeaderPlace, K
  <2> QED
    BY <1>2, <1>4, <1>5, <2>2, <2>3, <2>4 DEF K, t
<1>10. CASE ~ (a.count + 1 < FramesOf(Phases[a.phase], K)) /\ ~ (i < Len(member_ids))
  <2>1. at'[Leader] = [phase |-> a.phase + 1, to |-> 1, count |-> 0]
    BY <1>1, <1>4, <1>10 DEF Advance, Phase, K
  <2>2. i = Len(member_ids)
    BY <1>1, <1>10, Order
  <2>3. ASSUME NEW m \in Members, m = t PROVE Now(m)' = Step(Now(m), K)
    <3>1. Now(m)' = [phase |-> a.phase + 1, to |-> 1, count |-> 0]
      BY <1>1, <1>2, <1>11, <2>1, <2>3, Order
    <3> QED
      BY <1>5, <1>10, <2>3, <3>1 DEF Step
  <2>4. \A m \in Members \ {t} : Now(m)' = Now(m)
    BY <1>1, <1>6, <1>11, <2>1, <2>2, Order DEF Now
  <2>5. LeaderPlace'
    BY <1>1, <1>3, <1>4, <1>7, <2>1, Order DEF LeaderPlace, K
  <2> QED
    BY <1>2, <1>4, <1>5, <2>3, <2>4, <2>5 DEF K, t
<1> QED
  BY <1>8, <1>9, <1>10

(* A step of a member's threads that does not touch the run.               *)
LEMMA Quiet ==
  ASSUME IInv, UNCHANGED <<input, run>>, DOMAIN pc' = Parties, pc'[Leader] = pc[Leader]
  PROVE  IInv'
<1>1. UNCHANGED <<input, at, down, up, table, result>>
  BY DEF run
<1>2. (\A p : Size(p)' = Size(p)) /\ \A m : Now(m)' = Now(m)
  BY <1>1 DEF Size, Now, Index
<1>3. Typed'
  BY <1>1, <1>2 DEF IInv, Typed, LeaderPlace
<1>4. ASSUME NEW m \in Members PROVE (DownHolds(m) /\ Tabled(m))'
  BY <1>1, <1>2 DEF IInv, DownHolds, Tabled
<1>5. ASSUME Alive', NEW m \in Members PROVE (UpHolds(m) /\ SameSize(m))'
  BY <1>1, <1>2, <1>5 DEF IInv, Alive, UpHolds, SameSize
<1>6. ResultIsUnanimous'
  BY <1>1, <1>2 DEF IInv, ResultIsUnanimous, Answered
<1> QED
  BY <1>3, <1>4, <1>5, <1>6 DEF IInv

(* What the leader leaves behind when it is gone.                          *)
LEMMA LeaderGone ==
  ASSUME IInv, UNCHANGED <<input, run>>, DOMAIN pc' = Parties,
         pc'[Leader] \in {"error", "crashed"}
  PROVE  IInv'
<1>1. UNCHANGED <<input, at, down, up, table, result>>
  BY DEF run
<1>2. \A p : Size(p)' = Size(p)
  BY <1>1 DEF Size
<1>3. Typed'
  BY <1>1, <1>2 DEF IInv, Typed, LeaderPlace
<1>4. ASSUME NEW m \in Members PROVE DownTo(Now(m)', Size(Leader)) = DownTo(Now(m), Size(Leader))
  <2>1. CASE pc[Leader] \in {"off", "connect"}
    <3>1. at[Leader].phase = 1 /\ at[Leader].count = 0
      BY <2>1 DEF IInv, Typed, LeaderPlace
    <3>2. Now(m).phase = 1 /\ Now(m)'.phase \in {1, 2}
      BY <1>1, <2>1, <3>1 DEF Now, Before
    <3> QED
      BY <3>2, Values
  <2>2. CASE pc[Leader] \notin {"off", "connect"}
    <3>1. Now(m)' = Now(m)
      BY <1>1, <2>2 DEF Now, Index
    <3> QED
      BY <3>1
  <2> QED
    BY <2>1, <2>2
<1>5. ASSUME NEW m \in Members PROVE (DownHolds(m) /\ Tabled(m))'
  BY <1>1, <1>2, <1>4 DEF IInv, DownHolds, Tabled
<1>6. ~ Alive' /\ ResultIsUnanimous'
  BY DEF Alive, ResultIsUnanimous, Answered
<1> QED
  BY <1>3, <1>5, <1>6 DEF IInv

(* Where frames are written and read: at the end and at the beginning.     *)
LEMMA Written ==
  ASSUME NEW s \in Seq(Frames), NEW x \in Frames
  PROVE  /\ Append(s, x) \in Seq(Frames)
         /\ Len(Append(s, x)) = Len(s) + 1 /\ Len(s) \in Nat
         /\ \A i \in 1..Len(s) : Append(s, x)[i] = s[i]
         /\ Append(s, x)[Len(s) + 1] = x
<1>1. Append(s, x) \in Seq(Frames) /\ Len(Append(s, x)) = Len(s) + 1 /\ Len(s) \in Nat
  BY AppendProperties, LenProperties
<1>2. \A i \in 1..Len(s) : Append(s, x)[i] = s[i]
  BY AppendProperties
<1>3. Append(s, x)[Len(s) + 1] = x
  BY AppendProperties
<1> QED
  BY <1>1, <1>2, <1>3

LEMMA Read ==
  ASSUME NEW s \in Seq(Frames), s # <<>>
  PROVE  /\ Tail(s) \in Seq(Frames) /\ Len(s) \in Nat \ {0}
         /\ Len(Tail(s)) = Len(s) - 1
         /\ \A i \in 1..Len(Tail(s)) : Tail(s)[i] = s[i + 1]
         /\ Head(s) = s[1]
BY HeadTailProperties, LenProperties, EmptySeq

(* A member at a place goes on by a step.                                  *)
LEMMA MemberAdvances ==
  ASSUME Typed, NEW m \in Members, Running(m)
  PROVE  /\ at[m] \in Place(Size(m)) /\ Size(m) \in 1..128
         /\ at[m].phase \in 1..8
         /\ Advance(m) = Step(at[m], Size(m))
         /\ m # Leader
<1>1. at[m] \in Place(Size(m)) /\ Size(m) \in 1..128 /\ m # Leader
  BY Sizes, Order DEF Typed
<1>2. at[m] \in [phase : 1..9, to : {1}, count : Nat] /\ at[m].phase \in 1..8
  BY <1>1, PhaseNames DEF Running, Place
<1>3. Advance(m) = Step(at[m], Size(m))
  BY <1>1, <1>2 DEF Advance, Step, Phase
<1> QED
  BY <1>1, <1>2, <1>3

(* A member writes the next of its frames.                                 *)
LEMMA MemberSendsKeeps == ASSUME NEW m \in Members, IInv, MemberSends(m) PROVE IInv'
<1> DEFINE n == Size(m)
           K == Size(Leader)
           a == at[m]
<1>1. /\ Typed /\ a \in Place(n) /\ n \in 1..128 /\ a.phase \in 1..8 /\ m # Leader
      /\ Advance(m) = Step(a, n) /\ m \in Parties
  BY MemberAdvances, Order DEF IInv, MemberSends
<1>2. /\ up' = [up EXCEPT ![m] = Append(up[m], Phases[a.phase])]
      /\ table' = [table EXCEPT ![m] = IF Phases[a.phase] = "table" THEN input[m] ELSE table[m]]
      /\ at' = [at EXCEPT ![m] = Step(a, n)]
      /\ UNCHANGED <<input, pc, down, result>>
      /\ Phases[a.phase] \in FromMember /\ Hashable(m)
  BY <1>1 DEF MemberSends, Phase
<1>3. a.phase \in {1, 5, 6, 8}
  BY <1>1, <1>2, PhaseNames
<1>4. /\ UpTo(Step(a, n), n) = UpTo(a, n) + 1
      /\ DownTo(Step(a, n), n) = DownTo(a, n)
      /\ Phases[a.phase] = UpFrame(n, UpTo(a, n) + 1)
      /\ Step(a, n) \in Place(n)
  <2>1. Step(a, n) \in Place(n)
    BY <1>1, StepPlace
  <2> QED
    BY <1>1, <1>3, <2>1, StepUp
<1>5. /\ up[m] \in Seq(Frames) /\ Phases[a.phase] \in Frames
      /\ at'[m] = Step(a, n) /\ at'[Leader] = at[Leader] /\ DOMAIN at' = Parties
      /\ \A q \in Members \ {m} : at'[q] = at[q]
  BY <1>1, <1>2, Order DEF Typed, Frames
<1>6. (\A p : Size(p)' = Size(p)) /\ \A q : Now(q)' = Now(q)
  BY <1>2, <1>5 DEF Size, Now, Index
<1>7. Typed'
  <2>1. up' \in [Members -> Seq(Frames)]
    BY <1>1, <1>2, <1>5, Written DEF Typed
  <2>2. DOMAIN table' = Members
    BY <1>1, <1>2 DEF Typed
  <2>3. \A q \in Members : at'[q] \in Place(Size(q)')
    BY <1>1, <1>4, <1>5, <1>6 DEF Typed
  <2>4. LeaderPlace'
    BY <1>1, <1>2, <1>5, <1>6 DEF LeaderPlace, Typed
  <2> QED
    BY <1>1, <1>2, <1>5, <2>1, <2>2, <2>3, <2>4 DEF Typed
<1>8. ASSUME NEW q \in Members PROVE DownHolds(q)'
  <2>1. DownTo(at'[q], Size(q)) = DownTo(at[q], Size(q))
    BY <1>4, <1>5
  <2> QED
    BY <1>2, <1>6, <2>1 DEF IInv, DownHolds
<1>9. ASSUME NEW q \in Members PROVE Tabled(q)'
  <2>1. CASE q # m
    <3>1. at'[q] = at[q] /\ table'[q] = table[q]
      BY <1>1, <1>2, <1>5, <2>1 DEF Typed
    <3> QED
      BY <1>2, <1>6, <3>1 DEF IInv, Tabled
  <2>2. CASE q = m
    <3>1. table'[m] = IF Phases[a.phase] = "table" THEN input[m] ELSE table[m]
      BY <1>1, <1>2 DEF Typed
    <3>2. CASE a.phase = 6
      <4>1. table'[m] = input[m] /\ StashBins(n) > 0
        BY <1>2, <3>1, <3>2, PhaseNames DEF Hashable, Phase
      <4> QED
        BY <1>2, <1>6, <2>2, <4>1 DEF Tabled
    <3>3. CASE a.phase \in {1, 5}
      <4>1. \/ Step(a, n).phase = a.phase
            \/ Step(a, n).phase = a.phase + 1 /\ Step(a, n).count = 0
        <5>1. Next1(a, Step(a, n), FramesOf(Phases[a.phase], n))
          BY <1>1, StepIsNext
        <5> QED
          BY <5>1 DEF Next1
      <4> QED
        BY <1>5, <2>2, <3>3, <4>1 DEF Tabled
    <3>4. CASE a.phase = 8
      <4>1. table[m] = input[m] /\ StashBins(n) > 0
        BY <3>4 DEF IInv, Tabled
      <4>2. table'[m] = table[m]
        BY <3>1, <3>4, PhaseNames
      <4> QED
        BY <1>2, <1>6, <2>2, <4>1, <4>2 DEF Tabled
    <3> QED
      BY <1>3, <3>2, <3>3, <3>4
  <2> QED
    BY <2>1, <2>2
<1>10. ASSUME Alive', NEW q \in Members PROVE UpHolds(q)' /\ SameSize(q)'
  <2>1. Alive /\ UpHolds(q) /\ SameSize(q)
    BY <1>2, <1>10 DEF IInv, Alive
  <2>2. SameSize(q)'
    BY <1>6, <2>1 DEF SameSize
  <2>3. CASE q # m
    <3>1. at'[q] = at[q] /\ up'[q] = up[q]
      BY <1>1, <1>2, <1>5, <2>3 DEF Typed
    <3> QED
      BY <1>6, <2>1, <2>2, <3>1 DEF UpHolds
  <2>4. CASE q = m
    <3> DEFINE s == up[m]
               x == Phases[a.phase]
               u == UpTo(Now(m), K)
    <3>1. up'[m] = Append(s, x)
      BY <1>1, <1>2 DEF Typed
    <3>2. UpTo(a, n) = u + Len(s) /\ \A i \in 1..Len(s) : s[i] = UpFrame(n, u + i)
      BY <2>1, <2>4 DEF UpHolds
    <3>3. u \in Nat
      <4>1. Now(m) \in Place(K) /\ K \in 1..128
        BY <1>1, NowPlace, Sizes, Order DEF Typed
      <4> HIDE DEF K
      <4> QED
        BY <4>1, Counts
    <3> HIDE DEF s, x, u, n
    <3>4. UpTo(at'[m], n) = u + Len(Append(s, x))
      BY <1>4, <1>5, <3>2, <3>3, Written DEF s, x
    <3>5. \A i \in 1..Len(Append(s, x)) : Append(s, x)[i] = UpFrame(n, u + i)
      <4>1. Append(s, x)[Len(s) + 1] = UpFrame(n, u + Len(s) + 1)
        BY <1>4, <1>5, <3>2, Written DEF s, x
      <4>2. u + Len(s) + 1 = u + (Len(s) + 1)
        BY <1>5, <3>3, Written DEF s, x
      <4>3. ASSUME NEW i \in 1..Len(s) PROVE Append(s, x)[i] = UpFrame(n, u + i)
        <5>1. Append(s, x)[i] = s[i]
          BY <1>5, Written DEF s, x
        <5> QED
          BY <3>2, <5>1
      <4>4. Len(Append(s, x)) = Len(s) + 1 /\ Len(s) \in Nat
        BY <1>5, Written DEF s, x
      <4>5. \A i \in 1..Len(Append(s, x)) : i \in 1..Len(s) \/ i = Len(s) + 1
        BY <4>4
      <4> QED
        BY <4>1, <4>2, <4>3, <4>5
    <3> QED
      BY <1>6, <2>2, <2>4, <3>1, <3>4, <3>5 DEF UpHolds, n, u
  <2> QED
    BY <2>3, <2>4
<1>11. ResultIsUnanimous'
  BY <1>2 DEF IInv, ResultIsUnanimous, Answered
<1> QED
  BY <1>7, <1>8, <1>9, <1>10, <1>11 DEF IInv

(* ... and reads the next of the leader's.                                 *)
LEMMA MemberReceivesKeeps == ASSUME NEW m \in Members, IInv, MemberReceives(m) PROVE IInv'
<1> DEFINE n == Size(m)
           K == Size(Leader)
           a == at[m]
<1>1. /\ Typed /\ a \in Place(n) /\ n \in 1..128 /\ a.phase \in 1..8 /\ m # Leader
      /\ Advance(m) = Step(a, n) /\ m \in Parties
  BY MemberAdvances, Order DEF IInv, MemberReceives
<1>2. /\ down' = [down EXCEPT ![m] = Tail(down[m])] /\ down[m] # <<>>
      /\ at' = [at EXCEPT ![m] = Step(a, n)]
      /\ UNCHANGED <<input, pc, up, table, result>>
      /\ Phases[a.phase] \notin FromMember
  BY <1>1 DEF MemberReceives, Phase
<1>3. a.phase \in {2, 3, 4, 7}
  BY <1>1, <1>2, PhaseNames
<1>4. /\ DownTo(Step(a, n), n) = DownTo(a, n) + 1
      /\ UpTo(Step(a, n), n) = UpTo(a, n)
      /\ Step(a, n) \in Place(n)
  <2>1. Step(a, n) \in Place(n)
    BY <1>1, StepPlace
  <2> QED
    BY <1>1, <1>3, <2>1, StepDown
<1>5. /\ down[m] \in Seq(Frames)
      /\ at'[m] = Step(a, n) /\ at'[Leader] = at[Leader] /\ DOMAIN at' = Parties
      /\ \A q \in Members \ {m} : at'[q] = at[q]
  BY <1>1, <1>2, Order DEF Typed
<1>6. (\A p : Size(p)' = Size(p)) /\ \A q : Now(q)' = Now(q)
  BY <1>2, <1>5 DEF Size, Now, Index
<1>7. Typed'
  <2>1. down' \in [Members -> Seq(Frames)]
    BY <1>1, <1>2, <1>5, Read DEF Typed
  <2>2. \A q \in Members : at'[q] \in Place(Size(q)')
    BY <1>1, <1>4, <1>5, <1>6 DEF Typed
  <2>3. LeaderPlace'
    BY <1>1, <1>2, <1>5, <1>6 DEF LeaderPlace, Typed
  <2> QED
    BY <1>1, <1>2, <1>5, <2>1, <2>2, <2>3 DEF Typed
<1>8. ASSUME NEW q \in Members PROVE DownHolds(q)'
  <2>1. DownHolds(q)
    BY DEF IInv
  <2>2. CASE q # m
    <3>1. at'[q] = at[q] /\ down'[q] = down[q]
      BY <1>1, <1>2, <1>5, <2>2 DEF Typed
    <3> QED
      BY <1>6, <2>1, <3>1 DEF DownHolds
  <2>3. CASE q = m
    <3> DEFINE s == down[m]
               d == DownTo(a, n)
               L == DownTo(Now(m), K)
    <3>1. down'[m] = Tail(s) /\ DownTo(at'[m], n) = d + 1
      BY <1>1, <1>2, <1>4, <1>5 DEF Typed
    <3>2. L = d + Len(s) /\ \A i \in 1..Len(s) : s[i] = DownFrame(K, d + i)
      BY <2>1, <2>3 DEF DownHolds
    <3>3. d \in Nat
      BY <1>1, Counts
    <3> HIDE DEF s, d, n, L, K
    <3>4. L = d + 1 + Len(Tail(s))
      <4>1. Len(s) \in Nat \ {0} /\ Len(Tail(s)) = Len(s) - 1
        BY <1>2, <1>5, Read DEF s
      <4> QED
        BY <3>2, <3>3, <4>1
    <3>5. \A i \in 1..Len(Tail(s)) : Tail(s)[i] = DownFrame(K, d + 1 + i)
      <4> SUFFICES ASSUME NEW i \in 1..Len(Tail(s)) PROVE Tail(s)[i] = DownFrame(K, d + 1 + i)
        OBVIOUS
      <4>1. Tail(s)[i] = s[i + 1] /\ i + 1 \in 1..Len(s) /\ i \in Nat
        BY <1>2, <1>5, Read DEF s
      <4>2. d + 1 + i = d + (i + 1)
        BY <3>3, <4>1
      <4> QED
        BY <3>2, <4>1, <4>2
    <3> QED
      BY <1>6, <2>3, <3>1, <3>4, <3>5 DEF DownHolds, n, K, L
  <2> QED
    BY <2>2, <2>3
<1>9. ASSUME NEW q \in Members PROVE Tabled(q)'
  <2>1. Tabled(q)
    BY DEF IInv
  <2>2. CASE q # m
    <3>1. at'[q] = at[q]
      BY <1>5, <2>2
    <3> QED
      BY <1>2, <1>6, <2>1, <3>1 DEF Tabled
  <2>3. CASE q = m
    <3>1. Next1(a, Step(a, n), FramesOf(Phases[a.phase], n))
      BY <1>1, StepIsNext
    <3>2. Step(a, n).phase >= 7 \/ (Step(a, n).phase = 6 /\ Step(a, n).count > 0) => a.phase >= 7
      BY <1>3, <3>1 DEF Next1
    <3> QED
      BY <1>2, <1>5, <1>6, <2>1, <2>3, <3>2 DEF Tabled
  <2> QED
    BY <2>2, <2>3
<1>10. ASSUME Alive', NEW q \in Members PROVE UpHolds(q)' /\ SameSize(q)'
  <2>1. Alive /\ UpHolds(q) /\ SameSize(q)
    BY <1>2, <1>10 DEF IInv, Alive
  <2>2. SameSize(q)'
    BY <1>6, <2>1 DEF SameSize
  <2>3. UpTo(at'[q], Size(q)) = UpTo(at[q], Size(q))
    BY <1>4, <1>5
  <2> QED
    BY <1>2, <1>6, <2>1, <2>2, <2>3 DEF UpHolds
<1>11. ResultIsUnanimous'
  BY <1>2 DEF IInv, ResultIsUnanimous, Answered
<1> QED
  BY <1>7, <1>8, <1>9, <1>10, <1>11 DEF IInv

(* The leader writes the next of its frames for one member.                *)
LEMMA LeaderSendsKeeps == IInv /\ LeaderSends => IInv'
<1> SUFFICES ASSUME IInv, LeaderSends PROVE IInv'
  OBVIOUS
<1> DEFINE K == Size(Leader)
           t == To
           a == Now(t)
           ph == at[Leader].phase
<1>1. /\ Typed /\ Running(Leader) /\ Phases[ph] \notin FromMember
      /\ down' = [down EXCEPT ![t] = Append(down[t], Phases[ph])]
      /\ at' = [at EXCEPT ![Leader] = Advance(Leader)]
      /\ UNCHANGED <<input, pc, up, table, result>>
  BY DEF LeaderSends, IInv, Phase
<1>2. /\ t \in Members /\ a.phase = ph /\ LeaderPlace' /\ DOMAIN at' = Parties
      /\ \A q \in Members : Now(q)' = IF q = t THEN Step(Now(q), K) ELSE Now(q)
      /\ \A q \in Members : at'[q] = at[q]
  BY <1>1, LeaderAdvances
<1>3. /\ a \in Place(K) /\ K \in 1..128 /\ ph \in 1..8
  <2>1. a \in Place(K)
    BY <1>1, <1>2, NowPlace
  <2>2. K \in 1..128
    BY <1>1, Sizes, Order DEF Typed
  <2>3. ph \in 1..8
    BY <1>1, PhaseNames DEF Typed, LeaderPlace, Running
  <2> QED
    BY <2>1, <2>2, <2>3
<1>4. ph \in {2, 3, 4, 7}
  BY <1>1, <1>3, PhaseNames
<1> HIDE DEF t
<1>5. /\ DownTo(Step(a, K), K) = DownTo(a, K) + 1
      /\ UpTo(Step(a, K), K) = UpTo(a, K)
      /\ Phases[ph] = DownFrame(K, DownTo(a, K) + 1)
      /\ Step(a, K).phase = ph \/ (Step(a, K).phase = ph + 1 /\ Step(a, K).count = 0)
  <2>1. Next1(a, Step(a, K), FramesOf(Phases[ph], K))
    BY <1>2, <1>3, StepIsNext
  <2>2. Step(a, K).phase = ph \/ (Step(a, K).phase = ph + 1 /\ Step(a, K).count = 0)
    BY <1>2, <2>1 DEF Next1
  <2> QED
    BY <1>2, <1>3, <1>4, <2>2, StepDown
<1>6. \A p : Size(p)' = Size(p)
  BY <1>1 DEF Size
<1>7. down[t] \in Seq(Frames) /\ Phases[ph] \in Frames
  BY <1>1, <1>2, <1>3 DEF Typed, Frames
<1>8. Typed'
  <2>1. down' \in [Members -> Seq(Frames)]
    BY <1>1, <1>2, <1>7, Written DEF Typed
  <2> QED
    BY <1>1, <1>2, <1>6, <2>1 DEF Typed
<1>9. ASSUME NEW q \in Members PROVE DownHolds(q)'
  <2>1. DownHolds(q)
    BY DEF IInv
  <2>2. CASE q # t
    <3>1. down'[q] = down[q] /\ Now(q)' = Now(q)
      BY <1>1, <1>2, <2>2 DEF Typed
    <3> QED
      BY <1>2, <1>6, <2>1, <3>1 DEF DownHolds
  <2>3. CASE q = t
    <3> DEFINE s == down[t]
               x == Phases[ph]
               d == DownTo(at[t], Size(t))
    <3>1. down'[t] = Append(s, x) /\ DownTo(Now(q)', K) = DownTo(a, K) + 1
      BY <1>1, <1>2, <1>5, <2>3 DEF Typed
    <3>2. DownTo(a, K) = d + Len(s) /\ \A i \in 1..Len(s) : s[i] = DownFrame(K, d + i)
      BY <2>1, <2>3 DEF DownHolds
    <3>3. d \in Nat
      <4>1. at[t] \in Place(Size(t)) /\ Size(t) \in 1..128
        BY <1>1, <1>2, Sizes, Order DEF Typed
      <4> QED
        BY <4>1, Counts
    <3> HIDE DEF s, x, d, K
    <3>4. DownTo(a, K) + 1 = d + Len(Append(s, x))
      BY <1>7, <3>2, <3>3, Written DEF s, x
    <3>5. \A i \in 1..Len(Append(s, x)) : Append(s, x)[i] = DownFrame(K, d + i)
      <4>1. Append(s, x)[Len(s) + 1] = DownFrame(K, d + Len(s) + 1)
        BY <1>5, <1>7, <3>2, Written DEF s, x
      <4>2. d + Len(s) + 1 = d + (Len(s) + 1)
        BY <1>7, <3>3, Written DEF s, x
      <4>3. ASSUME NEW i \in 1..Len(s) PROVE Append(s, x)[i] = DownFrame(K, d + i)
        <5>1. Append(s, x)[i] = s[i]
          BY <1>7, Written DEF s, x
        <5> QED
          BY <3>2, <5>1
      <4>4. Len(Append(s, x)) = Len(s) + 1 /\ Len(s) \in Nat
        BY <1>7, Written DEF s, x
      <4>5. \A i \in 1..Len(Append(s, x)) : i \in 1..Len(s) \/ i = Len(s) + 1
        BY <4>4
      <4> QED
        BY <4>1, <4>2, <4>3, <4>5
    <3> QED
      BY <1>2, <1>6, <2>3, <3>1, <3>4, <3>5 DEF DownHolds, K, d
  <2> QED
    BY <2>2, <2>3
<1>10. ASSUME NEW q \in Members PROVE Tabled(q)'
  BY <1>1, <1>2, <1>6 DEF IInv, Tabled
<1>11. ASSUME Alive', NEW q \in Members PROVE UpHolds(q)' /\ SameSize(q)'
  <2>1. Alive /\ UpHolds(q) /\ SameSize(q)
    BY <1>1, <1>11 DEF IInv, Alive
  <2>2. UpTo(Now(q)', K) = UpTo(Now(q), K)
    BY <1>2, <1>5
  <2>3. UpHolds(q)'
    BY <1>1, <1>2, <1>6, <2>1, <2>2 DEF UpHolds
  <2>4. SameSize(q)'
    <3>1. CASE q # t
      BY <1>2, <1>6, <2>1, <3>1 DEF SameSize
    <3>2. CASE q = t
      <4>1. Now(q)'.phase = ph \/ (Now(q)'.phase = ph + 1 /\ Now(q)'.count = 0)
        BY <1>2, <1>5, <3>2
      <4>2. Size(q) \in 1..128
        <5>1. q \in Parties
          BY Order
        <5> QED
          BY <1>1, <5>1, Sizes DEF Typed
      <4> QED
        BY <1>2, <1>4, <1>6, <2>1, <3>2, <4>1, <4>2 DEF SameSize
    <3> QED
      BY <3>1, <3>2
  <2> QED
    BY <2>3, <2>4
<1>12. ResultIsUnanimous'
  BY <1>1 DEF IInv, ResultIsUnanimous, Answered
<1> QED
  BY <1>8, <1>9, <1>10, <1>11, <1>12 DEF IInv

(* What the leader accepts is the frame that it takes it for; and once it  *)
(* has all its processed points from a member, the member has as many      *)
(* elements: with fewer, the next frame would be one of a table, and with  *)
(* more, it would not have had all of the filter and of the blinded points.*)
LEMMA Accepted ==
  ASSUME IInv, LeaderReceives, NEW t \in Members, t = To
  PROVE  /\ Head(up[t]) = Phase(Leader)
         /\ Step(Now(t), Size(Leader)).phase >= 6 => Size(t) = Size(Leader)
         /\ Step(Now(t), Size(Leader)).phase = 5 => Step(Now(t), Size(Leader)).count <= Size(t)
<1>1. PICK K, n, a, b, c, s : /\ K = Size(Leader) /\ n = Size(t) /\ a = Now(t) /\ b = Step(Now(t), K)
                              /\ c = at[t] /\ s = up[t]
  OBVIOUS
<1>2. /\ K \in 1..128 /\ n \in 1..128
      /\ a \in Place(K) /\ c \in Place(n) /\ s \in Seq(Frames)
  <2>1. t \in Parties /\ Leader \in Parties /\ input \in InputChoices
    BY Order DEF IInv, Typed
  <2> QED
    BY <1>1, <2>1, Sizes, NowPlace DEF IInv, Typed
<1>3. Typed /\ Running(Leader) /\ Alive
  BY DEF IInv, LeaderReceives, Running, Alive
<1>4. /\ a.phase = at[Leader].phase /\ a.phase \in 1..8 /\ Phases[a.phase] \in FromMember
      /\ Phase(Leader) = Phases[a.phase]
  <2>1. a.phase = at[Leader].phase
    <3>1. at[Leader].to \in DOMAIN member_ids /\ at[Leader].phase \in 1..9 /\ pc[Leader] = "run"
      BY <1>3 DEF Typed, LeaderPlace, Running
    <3>2. Index(t) = at[Leader].to
      BY <3>1, Order DEF To
    <3> QED
      BY <1>1, <3>1, <3>2, Order DEF Now
  <2>2. a.phase \in 1..8
    BY <1>3, <2>1, PhaseNames DEF Typed, LeaderPlace, Running
  <2> QED
    BY <2>1, <2>2 DEF LeaderReceives, Phase
<1>5. a.phase \in {1, 5, 6, 8}
  BY <1>4, PhaseNames
<1>6. /\ UpTo(c, n) = UpTo(a, K) + Len(s)
      /\ \A i \in 1..Len(s) : s[i] = UpFrame(n, UpTo(a, K) + i)
      /\ DownTo(a, K) = DownTo(c, n) + Len(down[t])
      /\ a.phase >= 6 => n = K
      /\ a.phase = 5 => a.count <= n
  BY <1>1, <1>3 DEF IInv, UpHolds, DownHolds, SameSize
<1>7. Len(s) \in Nat \ {0} /\ Head(s) = UpFrame(n, UpTo(a, K) + 1)
  <2>1. s # <<>>
    BY <1>1 DEF LeaderReceives
  <2>2. Len(s) \in Nat \ {0} /\ Head(s) = s[1]
    BY <1>2, <2>1, Read
  <2> QED
    BY <1>6, <2>2
<1>8. Phases[a.phase] = UpFrame(K, UpTo(a, K) + 1)
  BY <1>2, <1>5, StepUp
<1>9. Next1(a, b, FramesOf(Phases[a.phase], K))
  <2>1. b = Step(a, K) /\ a.phase <= 8
    BY <1>1, <1>4
  <2> QED
    BY <1>2, <2>1, StepIsNext
<1>10. F(n) \in Nat \ {0} /\ T(n) \in Nat \ {0} /\ F(K) \in Nat \ {0}
  BY <1>2, FrameCounts
<1> SUFFICES /\ Head(s) = Phases[a.phase]
             /\ b.phase >= 6 => n = K
             /\ b.phase = 5 => b.count <= n
  BY <1>1, <1>4
<1>11. CASE a.phase \in {6, 8}
  <2>1. n = K
    BY <1>6, <1>11
  <2>2. b.phase # 5
    BY <1>9, <1>11 DEF Next1
  <2> QED
    BY <1>7, <1>8, <2>1, <2>2
<1>12. CASE a.phase = 1
  <2>1. UpTo(a, K) = 0
    BY <1>12, Values
  <2>2. UpFrame(n, 1) = "key" /\ UpFrame(K, 1) = "key"
    BY DEF UpFrame
  <2>3. b.phase \in {1, 2}
    BY <1>9, <1>12 DEF Next1
  <2> QED
    BY <1>7, <1>8, <2>1, <2>2, <2>3
<1>13. CASE a.phase = 5
  <2>1. UpTo(a, K) = 1 + a.count /\ DownTo(a, K) = 1 + F(K) + K
    BY <1>13, Values
  <2>2. Next1(a, b, K)
    BY <1>2, <1>9, <1>13, FrameCounts
  <2>3. a.count \in Nat
    BY <2>2 DEF Next1
  <2>4. Head(s) # "table"
    BY <1>1, <1>4, <1>13, PhaseNames DEF LeaderReceives, Accepts, IsPoint
  <2>5. a.count < n
    <3> SUFFICES ASSUME a.count = n PROVE FALSE
      BY <1>2, <1>6, <1>13, <2>3
    <3>1. UpFrame(n, 1 + a.count + 1) = "table"
      BY <1>2, <1>10 DEF UpFrame
    <3> QED
      BY <1>7, <2>1, <2>4, <3>1
  <2>6. UpFrame(n, 1 + a.count + 1) = "processed"
    BY <1>2, <2>3, <2>5 DEF UpFrame
  <2>7. Head(s) = Phases[a.phase]
    BY <1>7, <1>13, <2>1, <2>6, PhaseNames
  <2>8. CASE b.phase = 5
    <3>1. b.count = a.count + 1
      BY <1>13, <2>2, <2>8 DEF Next1
    <3>2. b.count <= n
      BY <1>2, <2>3, <2>5, <3>1
    <3> QED
      BY <2>7, <2>8, <3>2
  <2>9. CASE b.phase # 5
    <3>1. K <= n
      BY <1>2, <1>13, <2>2, <2>5, <2>9 DEF Next1
    <3>2. UpTo(c, n) >= 2
      BY <1>6, <1>7, <2>1, <2>3
    <3>3. c.phase \in {5, 6, 7, 8, 9}
      <4>1. c.phase \in 1..9
        BY <1>2 DEF Place
      <4>2. c.phase # 1 /\ c.phase # 2 /\ c.phase # 3 /\ c.phase # 4
        BY <3>2, Values
      <4> QED
        BY <4>1, <4>2
    <3>4. PICK fn, fk, d : fn = F(n) /\ fk = F(K) /\ d = DownTo(c, n)
      OBVIOUS
    <3>5. fn \in Nat /\ fk \in Nat /\ c.count \in Nat /\ Len(down[t]) \in Nat
      <4>1. down[t] \in Seq(Frames)
        BY DEF IInv, Typed
      <4>2. Len(down[t]) \in Nat
        BY <4>1, LenProperties
      <4> QED
        BY <1>2, <1>10, <3>4, <4>2 DEF Place
    <3>6. d \in Nat /\ d >= 1 + fn + n
      <4>1. d = 1 + fn + n \/ d = 1 + fn + n + c.count \/ d = 1 + fn + n + n
        BY <3>3, <3>4, Values
      <4> QED
        BY <1>2, <3>5, <4>1
    <3>7. 1 + fk + K = d + Len(down[t])
      BY <1>6, <2>1, <3>4
    <3>8. fk <= fn
      <4>1. FilterSize(K) <= FilterSize(n) /\ FilterSize(K) \in Nat /\ FilterSize(n) \in Nat
        BY <1>2, <3>1, FilterAssumption
      <4> QED
        BY <3>4, <4>1 DEF F
    <3>9. n = K
      BY <1>2, <3>1, <3>5, <3>6, <3>7, <3>8
    <3> QED
      BY <2>7, <2>9, <3>9
  <2> QED
    BY <2>8, <2>9
<1> QED
  BY <1>5, <1>11, <1>12, <1>13

(* The leader reads the next frame of one member.                          *)
LEMMA LeaderReceivesKeeps == IInv /\ LeaderReceives => IInv'
<1> SUFFICES ASSUME IInv, LeaderReceives PROVE IInv'
  OBVIOUS
<1> DEFINE K == Size(Leader)
           t == To
           a == Now(t)
           ph == at[Leader].phase
<1>1. /\ Typed /\ Running(Leader) /\ Phases[ph] \in FromMember
      /\ up' = [up EXCEPT ![t] = Tail(up[t])] /\ up[t] # <<>>
      /\ at' = [at EXCEPT ![Leader] = Advance(Leader)]
      /\ UNCHANGED <<input, pc, down, table, result>>
  BY DEF LeaderReceives, IInv, Phase
<1>2. /\ t \in Members /\ a.phase = ph /\ LeaderPlace' /\ DOMAIN at' = Parties
      /\ \A q \in Members : Now(q)' = IF q = t THEN Step(Now(q), K) ELSE Now(q)
      /\ \A q \in Members : at'[q] = at[q]
  BY <1>1, LeaderAdvances
<1>3. /\ a \in Place(K) /\ K \in 1..128 /\ ph \in 1..8
  <2>1. a \in Place(K)
    BY <1>1, <1>2, NowPlace
  <2>2. K \in 1..128
    BY <1>1, Sizes, Order DEF Typed
  <2>3. ph \in 1..8
    BY <1>1, PhaseNames DEF Typed, LeaderPlace, Running
  <2> QED
    BY <2>1, <2>2, <2>3
<1>4. ph \in {1, 5, 6, 8}
  BY <1>1, <1>3, PhaseNames
<1>5. /\ Step(a, K).phase >= 6 => Size(t) = K
      /\ Step(a, K).phase = 5 => Step(a, K).count <= Size(t)
  BY <1>2, Accepted
<1> HIDE DEF t
<1>6. /\ UpTo(Step(a, K), K) = UpTo(a, K) + 1
      /\ DownTo(Step(a, K), K) = DownTo(a, K)
  BY <1>2, <1>3, <1>4, StepUp
<1>7. \A p : Size(p)' = Size(p)
  BY <1>1 DEF Size
<1>8. up[t] \in Seq(Frames)
  BY <1>1, <1>2 DEF Typed
<1>9. Typed'
  <2>1. up' \in [Members -> Seq(Frames)]
    BY <1>1, <1>2, <1>8, Read DEF Typed
  <2> QED
    BY <1>1, <1>2, <1>7, <2>1 DEF Typed
<1>10. ASSUME NEW q \in Members PROVE DownHolds(q)' /\ Tabled(q)'
  <2>1. DownTo(Now(q)', K) = DownTo(Now(q), K)
    BY <1>2, <1>6
  <2>2. DownHolds(q)'
    BY <1>1, <1>2, <1>7, <2>1 DEF IInv, DownHolds
  <2>3. Tabled(q)'
    BY <1>1, <1>2, <1>7 DEF IInv, Tabled
  <2> QED
    BY <2>2, <2>3
<1>11. ASSUME Alive', NEW q \in Members PROVE UpHolds(q)' /\ SameSize(q)'
  <2>1. Alive /\ UpHolds(q) /\ SameSize(q)
    BY <1>1, <1>11 DEF IInv, Alive
  <2>2. CASE q # t
    <3>1. up'[q] = up[q] /\ Now(q)' = Now(q)
      BY <1>1, <1>2, <2>2 DEF Typed
    <3> QED
      BY <1>2, <1>7, <2>1, <3>1 DEF UpHolds, SameSize
  <2>3. CASE q = t
    <3> DEFINE s == up[t]
               n == Size(t)
               u == UpTo(a, K)
    <3>1. up'[t] = Tail(s) /\ UpTo(Now(q)', K) = u + 1
      BY <1>1, <1>2, <1>6, <2>3 DEF Typed
    <3>2. UpTo(at[t], n) = u + Len(s) /\ \A i \in 1..Len(s) : s[i] = UpFrame(n, u + i)
      BY <2>1, <2>3 DEF UpHolds
    <3>3. u \in Nat
      <4> HIDE DEF K, a
      <4> QED
        BY <1>3, Counts
    <3> HIDE DEF s, u, n, K
    <3>4. UpTo(at[t], n) = u + 1 + Len(Tail(s))
      <4>1. Len(s) \in Nat \ {0} /\ Len(Tail(s)) = Len(s) - 1
        BY <1>1, <1>8, Read DEF s
      <4> QED
        BY <3>2, <3>3, <4>1
    <3>5. \A i \in 1..Len(Tail(s)) : Tail(s)[i] = UpFrame(n, u + 1 + i)
      <4> SUFFICES ASSUME NEW i \in 1..Len(Tail(s)) PROVE Tail(s)[i] = UpFrame(n, u + 1 + i)
        OBVIOUS
      <4>1. Tail(s)[i] = s[i + 1] /\ i + 1 \in 1..Len(s) /\ i \in Nat
        BY <1>1, <1>8, Read DEF s
      <4>2. u + 1 + i = u + (i + 1)
        BY <3>3, <4>1
      <4> QED
        BY <3>2, <4>1, <4>2
    <3>6. UpHolds(q)'
      BY <1>2, <1>7, <2>3, <3>1, <3>4, <3>5 DEF UpHolds, n, K
    <3>7. SameSize(q)'
      <4>1. Now(q)' = Step(a, K)
        BY <1>2, <2>3 DEF K
      <4> QED
        BY <1>5, <1>7, <2>3, <4>1 DEF SameSize, K
    <3> QED
      BY <3>6, <3>7
  <2> QED
    BY <2>2, <2>3
<1>12. ResultIsUnanimous'
  BY <1>1 DEF IInv, ResultIsUnanimous, Answered
<1> QED
  BY <1>9, <1>10, <1>11, <1>12 DEF IInv

(* When the leader is through, so is every member, with as many elements,  *)
(* and nothing is left in the streams: less would be in the way.           *)
LEMMA Finished ==
  ASSUME IInv, Alive, pc[Leader] \notin {"off", "connect"}, at[Leader].phase = 9, NEW m \in Members
  PROVE  /\ Size(m) = Size(Leader) /\ at[m].phase = 9
         /\ table[m] = input[m] /\ StashBins(Size(m)) > 0
         /\ down[m] = <<>> /\ up[m] = <<>>
<1>1. PICK n, c, a : n = Size(m) /\ c = at[m] /\ a = Now(m)
  OBVIOUS
<1>2. a.phase = 9
  BY <1>1 DEF Now
<1>3. n = Size(Leader)
  BY <1>1, <1>2 DEF IInv, SameSize
<1>4. n \in 1..128 /\ c \in Place(n)
  BY <1>1, <1>3, Sizes, Order DEF IInv, Typed
<1>5. PICK f, t, u, d : f = F(n) /\ t = T(n) /\ u = Len(up[m]) /\ d = Len(down[m])
  OBVIOUS
<1>6. /\ n \in Nat /\ f \in Nat /\ t \in Nat /\ u \in Nat /\ d \in Nat
      /\ n > 0 /\ f > 0 /\ t > 0
  <2>1. up[m] \in Seq(Frames) /\ down[m] \in Seq(Frames)
    BY DEF IInv, Typed
  <2>2. Len(up[m]) \in Nat /\ Len(down[m]) \in Nat
    BY <2>1, LenProperties
  <2>3. F(n) \in Nat \ {0} /\ T(n) \in Nat \ {0}
    BY <1>4, FrameCounts
  <2> HIDE DEF F, T
  <2> QED
    BY <1>4, <1>5, <2>2, <2>3
<1>7. UpTo(c, n) = 1 + n + t + n + u /\ 1 + f + n + n = DownTo(c, n) + d
  <2>1. UpTo(a, n) = 1 + n + t + n /\ DownTo(a, n) = 1 + f + n + n
    BY <1>2, <1>5, Values
  <2>2. UpTo(c, n) = UpTo(a, n) + Len(up[m]) /\ DownTo(a, n) = DownTo(c, n) + Len(down[m])
    BY <1>1, <1>3 DEF IInv, UpHolds, DownHolds
  <2> QED
    BY <1>5, <2>1, <2>2
<1>8. /\ c.phase \in 1..9 /\ c.count \in Nat
      /\ c.phase \in {5, 8} => c.count < n
      /\ c.phase = 6 => c.count < t
  <2>1. c.phase \in 1..9 /\ c.count \in Nat /\ (c.phase <= 8 => c.count < FramesOf(Phases[c.phase], n))
    BY <1>4 DEF Place
  <2>2. FramesOf(Phases[5], n) = n /\ FramesOf(Phases[6], n) = t /\ FramesOf(Phases[8], n) = n
    BY <1>4, <1>5, FrameCounts
  <2> QED
    BY <2>1, <2>2
<1>9. c.phase = 9
  <2>1. /\ c.phase = 1 => UpTo(c, n) = 0
        /\ c.phase \in {2, 3, 4} => UpTo(c, n) = 1
        /\ c.phase = 5 => UpTo(c, n) = 1 + c.count
        /\ c.phase = 6 => UpTo(c, n) = 1 + n + c.count
        /\ c.phase = 7 => UpTo(c, n) = 1 + n + t
        /\ c.phase = 8 => UpTo(c, n) = 1 + n + t + c.count
    BY <1>5, Values
  <2> QED
    BY <1>6, <1>7, <1>8, <2>1
<1>10. u = 0 /\ d = 0
  <2>1. UpTo(c, n) = 1 + n + t + n /\ DownTo(c, n) = 1 + f + n + n
    BY <1>5, <1>9, Values
  <2> QED
    BY <1>6, <1>7, <2>1
<1>11. up[m] = <<>> /\ down[m] = <<>>
  <2>1. up[m] \in Seq(Frames) /\ down[m] \in Seq(Frames)
    BY DEF IInv, Typed
  <2> QED
    BY <1>5, <1>10, <2>1, EmptySeq
<1>12. table[m] = input[m] /\ StashBins(Size(m)) > 0
  BY <1>1, <1>9 DEF IInv, Tabled
<1> QED
  BY <1>1, <1>3, <1>9, <1>11, <1>12

(* A step of the leader that moves no frame.                               *)
LEMMA Still ==
  ASSUME IInv, UNCHANGED <<input, down, up, table>>, DOMAIN pc' = Parties, DOMAIN at' = Parties,
         \A m \in Members : at'[m] = at[m], \A m \in Members : Now(m)' = Now(m),
         LeaderPlace', Alive' => Alive, ResultIsUnanimous'
  PROVE  IInv'
<1>1. \A p : Size(p)' = Size(p)
  BY DEF Size
<1>2. Typed'
  BY <1>1 DEF IInv, Typed
<1>3. ASSUME NEW m \in Members PROVE (DownHolds(m) /\ Tabled(m))'
  BY <1>1 DEF IInv, DownHolds, Tabled
<1>4. ASSUME Alive', NEW m \in Members PROVE (UpHolds(m) /\ SameSize(m))'
  BY <1>1, <1>4 DEF IInv, UpHolds, SameSize
<1> QED
  BY <1>2, <1>3, <1>4 DEF IInv

LEMMA SubmitKeeps == IInv /\ Submit => IInv'
<1> SUFFICES ASSUME IInv, Submit PROVE IInv'
  OBVIOUS
<1>1. /\ pc[Leader] = "off" /\ pc' = [pc EXCEPT ![Leader] = "connect"]
      /\ UNCHANGED <<input, at, down, up, table, result>>
  BY DEF Submit, Goto, run
<1>2. pc'[Leader] = "connect" /\ DOMAIN pc' = Parties /\ DOMAIN at' = Parties
  BY <1>1, Order DEF IInv, Typed
<1>3. \A m \in Members : Now(m)' = Now(m)
  BY <1>1, <1>2 DEF Now, Index
<1>4. LeaderPlace' /\ ResultIsUnanimous'
  BY <1>1, <1>2 DEF IInv, Typed, LeaderPlace, ResultIsUnanimous, Answered, Size
<1>5. Alive
  BY <1>1 DEF Alive
<1> QED
  BY <1>1, <1>2, <1>3, <1>4, <1>5, Still

(* Connecting, the leader is before its first frame.                       *)
LEMMA ConnectKeeps == IInv /\ Connect => IInv'
<1> SUFFICES ASSUME IInv, Connect PROVE IInv'
  OBVIOUS
<1> DEFINE a == at[Leader]
<1>1. /\ pc[Leader] = "connect" /\ UNCHANGED <<input, down, up, table, result>>
      /\ DOMAIN pc = Parties /\ DOMAIN at = Parties /\ Alive
      /\ a \in [phase : 1..9, to : DOMAIN member_ids, count : Nat] /\ a.phase = 1 /\ a.count = 0
      /\ a.count < FramesOf(Phases[a.phase], Size(Leader)) /\ Leader \in Parties
  BY Order DEF Connect, IInv, Typed, LeaderPlace, Alive
<1>2. \A m \in Members : Now(m) = Before
  BY <1>1 DEF Now
<1>3. Size(Leader)' = Size(Leader)
  BY <1>1 DEF Size
<1>4. CASE pc' = [pc EXCEPT ![Leader] = "error"] /\ UNCHANGED <<hand, at>>
  BY <1>1, <1>4, LeaderGone DEF run
<1>5. CASE /\ a.to < Len(member_ids) /\ UNCHANGED pc
           /\ at' = [at EXCEPT ![Leader].to = a.to + 1]
  <2>1. at'[Leader] = [phase |-> 1, to |-> a.to + 1, count |-> 0]
    BY <1>1, <1>5
  <2>2. \A m \in Members : Now(m)' = Now(m)
    BY <1>1, <1>2, <1>5 DEF Now, Before
  <2>3. LeaderPlace'
    BY <1>1, <1>3, <1>5, <2>1, Order DEF LeaderPlace
  <2>4. \A m \in Members : at'[m] = at[m]
    BY <1>1, <1>5, Order
  <2> QED
    BY <1>1, <1>5, <2>2, <2>3, <2>4, Still DEF ResultIsUnanimous, Answered
<1>6. CASE /\ at' = [at EXCEPT ![Leader] = Begin]
           /\ pc' = [pc EXCEPT ![Leader] = "run"]
  <2>1. at'[Leader] = [phase |-> 1, to |-> 1, count |-> 0] /\ pc'[Leader] = "run"
    BY <1>1, <1>6 DEF Begin
  <2>2. ASSUME NEW m \in Members PROVE Now(m)' = Now(m)
    <3>1. Index(m)' = Index(m) /\ Index(m) \in 1..Len(member_ids)
      BY Order DEF Index
    <3>2. Now(m)' = [phase |-> 1, to |-> 1, count |-> 0]
      BY <2>1, <3>1 DEF Now
    <3> QED
      BY <1>2, <3>2 DEF Before
  <2>3. LeaderPlace'
    BY <1>1, <1>3, <2>1, Order DEF LeaderPlace
  <2>4. \A m \in Members : at'[m] = at[m]
    BY <1>1, <1>6, Order
  <2>5. ResultIsUnanimous' /\ DOMAIN at' = Parties /\ DOMAIN pc' = Parties
    BY <1>1, <1>6, <2>1 DEF ResultIsUnanimous, Answered
  <2> QED
    BY <1>1, <2>2, <2>3, <2>4, <2>5, Still
<1>7. CASE pc[To] \in {"off", "crashed"}
  BY <1>4, <1>7 DEF Connect
<1>8. CASE pc[To] \notin {"off", "crashed"} /\ a.to < Len(member_ids)
  BY <1>5, <1>8 DEF Connect
<1>9. CASE pc[To] \notin {"off", "crashed"} /\ ~ (a.to < Len(member_ids))
  BY <1>6, <1>9 DEF Connect
<1> QED
  BY <1>7, <1>8, <1>9

(* What the leader decrypts is what the members' tables answer for.        *)
LEMMA DecryptKeeps == IInv /\ Decrypt => IInv'
<1> SUFFICES ASSUME IInv, Decrypt PROVE IInv'
  OBVIOUS
<1> DEFINE a == at[Leader]
<1>1. /\ pc[Leader] = "run" /\ UNCHANGED <<input, down, up, table>> /\ Alive
      /\ DOMAIN pc = Parties /\ DOMAIN at = Parties /\ Leader \in Parties
      /\ a \in [phase : 1..9, to : DOMAIN member_ids, count : Nat]
      /\ pc' = [pc EXCEPT ![Leader] = "close"] /\ at' = [at EXCEPT ![Leader].to = 1]
      /\ result' = {e \in input[Leader] : AllAnswer(e)}
  BY Order DEF Decrypt, IInv, Typed, LeaderPlace, Alive
<1>2. a.phase = 9
  BY <1>1, PhaseNames DEF Decrypt
<1>3. /\ at'[Leader] = [phase |-> 9, to |-> 1, count |-> a.count]
      /\ pc'[Leader] = "close" /\ DOMAIN pc' = Parties /\ DOMAIN at' = Parties
  BY <1>1, <1>2
<1>4. \A m \in Members : at'[m] = at[m]
  BY <1>1, Order
<1>5. ASSUME NEW m \in Members PROVE Now(m)' = Now(m)
  BY <1>1, <1>2, <1>3 DEF Now
<1>6. LeaderPlace'
  BY <1>1, <1>3, Order DEF LeaderPlace
<1>7. ResultIsUnanimous'
  <2>1. \A m \in Members : table[m] = input[m]
    BY <1>1, <1>2, Finished
  <2>2. {e \in input[Leader] : AllAnswer(e)} = {e \in input[Leader] : \A m \in Members : e \in input[m]}
    BY <2>1 DEF AllAnswer
  <2> QED
    BY <1>1, <2>2 DEF ResultIsUnanimous, Answered
<1> QED
  BY <1>1, <1>3, <1>4, <1>5, <1>6, <1>7, Still

LEMMA CloseKeeps == IInv /\ Close => IInv'
<1> SUFFICES ASSUME IInv, Close PROVE IInv'
  OBVIOUS
<1> DEFINE a == at[Leader]
<1>1. /\ pc[Leader] = "close" /\ UNCHANGED <<input, down, up, table, result>> /\ Alive
      /\ DOMAIN pc = Parties /\ DOMAIN at = Parties /\ Leader \in Parties
      /\ a \in [phase : 1..9, to : DOMAIN member_ids, count : Nat] /\ a.phase = 9
  BY Order DEF Close, IInv, Typed, LeaderPlace, Alive
<1>2. /\ at'[Leader] \in [phase : 1..9, to : DOMAIN member_ids, count : Nat]
      /\ at'[Leader].phase = 9
      /\ pc'[Leader] \in {"close", "done"} /\ DOMAIN pc' = Parties /\ DOMAIN at' = Parties
      /\ \A m \in Members : at'[m] = at[m]
  <2>1. CASE a.to < Len(member_ids)
    <3>1. at' = [at EXCEPT ![Leader].to = a.to + 1] /\ UNCHANGED pc
      BY <2>1 DEF Close
    <3>2. at'[Leader] = [phase |-> 9, to |-> a.to + 1, count |-> a.count]
      BY <1>1, <3>1
    <3>3. a.to + 1 \in DOMAIN member_ids
      BY <1>1, <2>1, Order
    <3> QED
      BY <1>1, <3>1, <3>2, <3>3, Order
  <2>2. CASE ~ (a.to < Len(member_ids))
    BY <1>1, <2>2, Order DEF Close
  <2> QED
    BY <2>1, <2>2
<1>3. \A m \in Members : Now(m)' = Now(m)
  BY <1>1, <1>2 DEF Now
<1>4. LeaderPlace' /\ ResultIsUnanimous'
  BY <1>1, <1>2 DEF LeaderPlace, IInv, ResultIsUnanimous, Answered
<1> QED
  BY <1>1, <1>2, <1>3, <1>4, Still

LEMMA InitHolds == Init => IInv
<1> SUFFICES ASSUME Init PROVE IInv
  OBVIOUS
<1>1. /\ input \in InputChoices /\ pc = [p \in Parties |-> "off"]
      /\ at = [p \in Parties |-> [phase |-> 1, to |-> 1, count |-> 0]]
      /\ down = [m \in Members |-> <<>>] /\ up = [m \in Members |-> <<>>]
      /\ table = [m \in Members |-> {}]
  BY DEF Init, Begin
<1>2. \A p \in Parties : /\ pc[p] = "off" /\ Size(p) \in 1..128
                         /\ at[p] = [phase |-> 1, to |-> 1, count |-> 0]
                         /\ FramesOf(Phases[1], Size(p)) = 1
  BY <1>1, Sizes, FrameCounts
<1>3. \A m \in Members : m \in Parties /\ down[m] = <<>> /\ up[m] = <<>>
  BY <1>1, Order
<1>4. Typed
  <2>1. \A m \in Members : at[m] \in Place(Size(m))
    BY <1>2, <1>3 DEF Place
  <2>2. LeaderPlace
    <3>1. 1 \in DOMAIN member_ids
      BY Order
    <3> QED
      BY <1>2, <3>1, Order DEF LeaderPlace
  <2>3. <<>> \in Seq(Frames)
    BY EmptySeq
  <2> QED
    BY <1>1, <2>1, <2>2, <2>3 DEF Typed
<1>5. ASSUME NEW m \in Members PROVE DownHolds(m) /\ Tabled(m) /\ UpHolds(m) /\ SameSize(m)
  <2>1. Now(m).phase = 1 /\ at[m].phase = 1 /\ at[m].count = 0
    BY <1>2, <1>3, Order DEF Now, Before
  <2>2. Len(down[m]) = 0 /\ Len(up[m]) = 0
    BY <1>3, EmptySeq
  <2>3. DownHolds(m)
    BY <2>1, <2>2, Values DEF DownHolds
  <2>4. UpHolds(m)
    BY <2>1, <2>2, Values DEF UpHolds
  <2>5. Tabled(m) /\ SameSize(m)
    BY <2>1 DEF Tabled, SameSize
  <2> QED
    BY <2>3, <2>4, <2>5
<1>6. ResultIsUnanimous
  BY <1>2, Order DEF ResultIsUnanimous, Answered
<1> QED
  BY <1>4, <1>5, <1>6 DEF IInv

(* The steps of a member that do not touch the run.                        *)
LEMMA OtherStepsKeep ==
  ASSUME IInv, NEW m \in Members,
         \/ StartServer(m) \/ TestLeader(m) \/ BlockMain(m) \/ DividesByZero(m) \/ MemberThrows(m)
         \/ SetDone(m) \/ NotifyDone(m) \/ Shutdown(m) \/ HandlerStep(m)
  PROVE  IInv'
<1>1. DOMAIN pc = Parties /\ m # Leader
  BY Order DEF IInv, Typed
<1>2. UNCHANGED <<input, run>> /\ (UNCHANGED pc \/ \E where : pc' = [pc EXCEPT ![m] = where])
  <2>1. CASE StartServer(m) \/ BlockMain(m)
    BY <2>1 DEF StartServer, BlockMain, Goto
  <2>2. CASE TestLeader(m)
    BY <2>2 DEF TestLeader, Goto
  <2>3. CASE DividesByZero(m)
    BY <2>3 DEF DividesByZero
  <2>4. CASE MemberThrows(m)
    BY <2>4 DEF MemberThrows
  <2>5. CASE SetDone(m)
    BY <2>5 DEF SetDone
  <2>6. CASE NotifyDone(m) \/ Shutdown(m)
    BY <2>6 DEF NotifyDone, Shutdown, Goto
  <2>7. CASE Publish(m) \/ TestDone(m) \/ BlockHandler(m)
    BY <2>7 DEF Publish, TestDone, BlockHandler
  <2>8. CASE NotifyLeader(m)
    BY <2>8 DEF NotifyLeader
  <2> QED
    BY <2>1, <2>2, <2>3, <2>4, <2>5, <2>6, <2>7, <2>8 DEF HandlerStep
<1>3. DOMAIN pc' = Parties /\ pc'[Leader] = pc[Leader]
  <2>1. CASE UNCHANGED pc
    BY <1>1, <2>1
  <2>2. CASE ~ UNCHANGED pc
    <3>1. PICK where : pc' = [pc EXCEPT ![m] = where]
      BY <1>2, <2>2
    <3> QED
      BY <1>1, <3>1
  <2> QED
    BY <2>1, <2>2
<1> QED
  BY <1>2, <1>3, Quiet

LEMMA LeaderThrowsKeeps == IInv /\ LeaderThrows => IInv'
<1> SUFFICES ASSUME IInv, LeaderThrows PROVE IInv'
  OBVIOUS
<1>1. DOMAIN pc = Parties /\ Leader \in Parties
  BY Order DEF IInv, Typed
<1>2. /\ UNCHANGED <<input, run>>
      /\ \E st \in {"crashed", "error"} : pc' = [pc EXCEPT ![Leader] = st]
  BY DEF LeaderThrows
<1> QED
  BY <1>1, <1>2, LeaderGone

LEMMA LeaderDividesKeeps == IInv /\ DividesByZero(Leader) => IInv'
<1> SUFFICES ASSUME IInv, DividesByZero(Leader) PROVE IInv'
  OBVIOUS
<1>1. DOMAIN pc = Parties /\ Leader \in Parties
  BY Order DEF IInv, Typed
<1>2. UNCHANGED <<input, run>> /\ pc' = [pc EXCEPT ![Leader] = "crashed"]
  BY DEF DividesByZero
<1> QED
  BY <1>1, <1>2, LeaderGone

LEMMA CrashKeeps == ASSUME IInv, NEW p \in Mortal, Crash(p) PROVE IInv'
<1>1. DOMAIN pc = Parties /\ Leader \in Parties /\ p \in Parties
  BY Order, Xzh26Assumption DEF IInv, Typed
<1>2. UNCHANGED <<input, run>> /\ pc' = [pc EXCEPT ![p] = "crashed"]
  BY DEF Crash
<1>3. CASE p = Leader
  BY <1>1, <1>2, <1>3, LeaderGone
<1>4. CASE p # Leader
  BY <1>1, <1>2, <1>4, Quiet
<1> QED
  BY <1>3, <1>4

LEMMA NextKeeps == IInv /\ [Next]_vars => IInv'
<1> SUFFICES ASSUME IInv, [Next]_vars PROVE IInv'
  OBVIOUS
<1>1. CASE UNCHANGED vars
  <2>1. DOMAIN pc = Parties
    BY DEF IInv, Typed
  <2> QED
    BY <1>1, <2>1, Quiet DEF vars
<1>2. CASE LeaderStep
  BY <1>2, LeaderDividesKeeps, SubmitKeeps, ConnectKeeps, LeaderSendsKeeps, LeaderReceivesKeeps, DecryptKeeps,
     CloseKeeps, LeaderThrowsKeeps DEF LeaderStep
<1>3. CASE \E m \in Members : MainStep(m) \/ HandlerStep(m)
  <2> SUFFICES ASSUME NEW m \in Members, MainStep(m) \/ HandlerStep(m) PROVE IInv'
    BY <1>3
  <2> QED
    BY MemberSendsKeeps, MemberReceivesKeeps, OtherStepsKeep DEF MainStep
<1>4. CASE \E p \in Mortal : Crash(p)
  BY <1>4, CrashKeeps
<1> QED
  BY <1>1, <1>2, <1>3, <1>4 DEF Next

(* The streams, the places of the two ends and the sizes of their sets are *)
(* always in step, whatever the sets, and whoever dies.                    *)
THEOREM Xzh26Invariant == Spec => []IInv
<1>1. Init => IInv
  BY InitHolds
<1>2. IInv /\ [Next]_vars => IInv'
  BY NextKeeps
<1> QED
  BY <1>1, <1>2, PTL DEF Spec

(* An answered leader has what all parties submitted, whatever the         *)
(* threshold of the request is.                                            *)
THEOREM Xzh26ResultIsUnanimous == Spec => []ResultIsUnanimous
<1>1. IInv => ResultIsUnanimous
  BY DEF IInv
<1> QED
  BY <1>1, Xzh26Invariant, PTL

(* All parties submitted equally many elements if the leader is answered,  *)
(* and every member has read and written all its frames.                   *)
THEOREM Xzh26OnlyEqualSetsAreAnswered == Spec => []OnlyEqualSetsAreAnswered
<1>1. IInv => OnlyEqualSetsAreAnswered
  <2> SUFFICES ASSUME IInv, pc[Leader] \in {"close", "done"}, NEW m \in Members
               PROVE  /\ Size(m) = Size(Leader)
                      /\ StashBins(Size(m)) > 0
                      /\ at[m].phase > Len(Phases)
                      /\ down[m] = <<>> /\ up[m] = <<>>
    BY DEF OnlyEqualSetsAreAnswered, Answered
  <2>1. at[Leader].phase = 9 /\ Alive /\ pc[Leader] \notin {"off", "connect"}
    BY DEF IInv, Typed, LeaderPlace, Alive
  <2>2. Len(Phases) = 8
    BY PhaseNames
  <2> QED
    BY <2>1, <2>2, Finished
<1> QED
  BY <1>1, Xzh26Invariant, PTL

(* What psi_service.proto promises for a threshold holds if the threshold  *)
(* is the number of the parties: those who hold an element are then at     *)
(* least as many only if they are all.                                     *)
THEOREM Xzh26ResultIsOverThreshold ==
  ASSUME Threshold = Cardinality(Parties)
  PROVE  Spec => []ResultIsOverThreshold
<1>1. IsFiniteSet(Members)
  <2>1. member_ids \in Surjection(1..Len(member_ids), Members)
    BY Order, Xzh26Assumption DEF Members, Range, Surjection
  <2>2. IsFiniteSet(1..Len(member_ids))
    BY Order, FS_Interval
  <2> QED
    BY <2>1, <2>2, FS_Surjection
<1>2. IsFiniteSet(Parties)
  BY <1>1, FS_AddElement DEF Parties
<1>3. ASSUME NEW e PROVE Cardinality(Holders(e)) >= Threshold <=> Holders(e) = Parties
  <2>1. Holders(e) \subseteq Parties
    BY DEF Holders
  <2>2. /\ IsFiniteSet(Holders(e)) /\ Cardinality(Holders(e)) <= Cardinality(Parties)
        /\ Cardinality(Holders(e)) = Cardinality(Parties) => Holders(e) = Parties
    BY <1>2, <2>1, FS_Subset
  <2>3. Cardinality(Holders(e)) \in Nat /\ Cardinality(Parties) \in Nat
    BY <1>2, <2>2, FS_CardinalityType
  <2> QED
    BY <2>2, <2>3
<1>4. ASSUME NEW e \in input[Leader]
      PROVE  (\A m \in Members : e \in input[m]) <=> Cardinality(Holders(e)) >= Threshold
  BY <1>3 DEF Holders, Parties
<1>5. ResultIsUnanimous => ResultIsOverThreshold
  BY <1>4 DEF ResultIsUnanimous, ResultIsOverThreshold
<1> QED
  BY <1>5, Xzh26ResultIsUnanimous, PTL

(* A frame that a member with as many elements as the leader receives, and *)
(* any that the leader accepts, is of the phase in which it is received.   *)
LEMMA MemberIsNotMistaken ==
  ASSUME IInv, NEW m \in Members, MemberReceives(m), Size(m) = Size(Leader)
  PROVE  Head(down[m]) = Phase(m)
<1>1. PICK c, n, s : c = at[m] /\ n = Size(m) /\ s = down[m]
  OBVIOUS
<1>2. Running(m) /\ Phase(m) \notin FromMember /\ s # <<>>
  BY <1>1 DEF MemberReceives
<1>3. c \in Place(n) /\ n \in 1..128 /\ c.phase \in 1..8
  BY <1>1, <1>2, MemberAdvances DEF IInv
<1>4. c.phase \in {2, 3, 4, 7}
  BY <1>1, <1>2, <1>3, PhaseNames DEF Phase
<1>5. Phases[c.phase] = DownFrame(n, DownTo(c, n) + 1)
  BY <1>3, <1>4, StepDown
<1>6. Len(s) \in Nat \ {0} /\ Head(s) = s[1]
  <2>1. s \in Seq(Frames)
    BY <1>1 DEF IInv, Typed
  <2> QED
    BY <1>2, <2>1, Read
<1>7. s[1] = DownFrame(n, DownTo(c, n) + 1)
  BY <1>1, <1>6 DEF IInv, DownHolds
<1> QED
  BY <1>1, <1>5, <1>6, <1>7 DEF Phase

(* Nobody takes a frame for something that it is not, but a member whose   *)
(* set has another size than the leader's.                                 *)
THEOREM Xzh26OnlyUnequalAreMistaken == Spec => OnlyUnequalSetsAreMistaken
<1>1. IInv => /\ LeaderReceives => Head(up[To]) = Phase(Leader)
              /\ \A m \in Members :
                    MemberReceives(m) => \/ Head(down[m]) = Phase(m)
                                        \/ Size(m) # Size(Leader)
  <2>1. ASSUME IInv, LeaderReceives PROVE Head(up[To]) = Phase(Leader)
    <3>1. at[Leader].to \in DOMAIN member_ids
      BY <2>1 DEF IInv, Typed, LeaderPlace
    <3>2. To \in Members
      BY <3>1, Order DEF To
    <3> QED
      BY <2>1, <3>2, Accepted
  <2>2. ASSUME IInv, NEW m \in Members, MemberReceives(m), Size(m) = Size(Leader)
        PROVE  Head(down[m]) = Phase(m)
    BY <2>2, MemberIsNotMistaken
  <2> QED
    BY <2>1, <2>2
<1> QED
  BY <1>1, Xzh26Invariant, PTL DEF OnlyUnequalSetsAreMistaken

-----------------------------------------------------------------------------
(* The hashing of the OPPRF.                                               *)

(* The inputs, which no step changes.                                      *)
InputsOK == /\ leader \in Seq(Elements)
            /\ Len(leader) \in 1..128
            /\ hash \in [Elements -> [0..2 -> 0..HashBound]]

Full == {b \in AllBins : bins[b] # Empty}
InBins == {bins[b].idx : b \in Full}
Idx(S) == {it.idx : it \in S}

(* Each of the four places has an item at most once, two of them have none *)
(* in common, and together they have the items that were fed.              *)
NeverTwice == /\ \A b, c \in Full : bins[b].idx = bins[c].idx => b = c
              /\ \A x, y \in cur : x.idx = y.idx => x = y
              /\ \A x, y \in next : x.idx = y.idx => x = y

Apart == /\ InBins \intersect (Idx(cur) \union Idx(next) \union stash) = {}
         /\ Idx(cur) \intersect (Idx(next) \union stash) = {}
         /\ Idx(next) \intersect stash = {}

AllThere == InBins \union Idx(cur) \union Idx(next) \union stash = 1..fed

(* The marks of the bins, and the hashes that are left to try: the third   *)
(* is not used in the stash.                                               *)
Marked(b) == b = IF b < MainBins(N) THEN Address(leader[bins[b].idx], bins[b].h)
                                    ELSE StashAddress(leader[bins[b].idx], bins[b].h)

Marks == \A b \in Full : Marked(b)

(* Nothing was fed unless there are bins of the stash.                     *)
Divides == fed > 0 => StashBins(N) > 0

Inv == TypeOK /\ InputsOK /\ NeverTwice /\ Apart /\ AllThere /\ Marks /\ Divides

-----------------------------------------------------------------------------
(* The numbers of bins are numbers, and there is a bin in the first step.  *)
LEMMA TableSizes ==
  ASSUME NEW n \in 1..128
  PROVE  MainBins(n) \in Nat \ {0} /\ StashBins(n) \in Nat
BY DEF MainBins, StashBins

(* An address is one of the bins; those of the stash come after the others.*)
LEMMA SlotIsABin ==
  ASSUME InputsOK, NEW it \in ItemSet, stage \in {"insert", "stash"},
         stage = "stash" => StashBins(N) > 0
  PROVE  /\ Slot(it) \in AllBins
         /\ stage = "insert" <=> Slot(it) < MainBins(N)
<1>1. MainBins(N) \in Nat \ {0} /\ StashBins(N) \in Nat
  BY TableSizes DEF InputsOK, N
<1>2. it.idx \in 1..Len(leader) /\ it.h \in 0..2 /\ leader[it.idx] \in Elements
  BY DEF ItemSet, Items, N, InputsOK
<1>3. hash[leader[it.idx]][it.h] \in Nat
  BY <1>2, HashingAssumption DEF InputsOK
<1> DEFINE x == hash[leader[it.idx]][it.h]
           m == MainBins(N)
           s == StashBins(N)
<1>4. CASE stage = "insert"
  <2>1. Slot(it) = x % m
    BY <1>4 DEF Slot, Address
  <2>2. x % m \in 0..(m - 1)
    <3> HIDE DEF x, m
    <3> QED
      BY <1>1, <1>3 DEF x, m
  <2> QED
    BY <1>1, <1>4, <2>1, <2>2 DEF AllBins
<1>5. CASE stage = "stash"
  <2>1. Slot(it) = (x % s) + m
    BY <1>5 DEF Slot, StashAddress
  <2>2. x % s \in 0..(s - 1)
    <3>1. s \in Nat \ {0} /\ x \in Nat
      BY <1>1, <1>3, <1>5
    <3> HIDE DEF x, s
    <3> QED
      BY <3>1
  <2> QED
    BY <1>1, <1>5, <2>1, <2>2 DEF AllBins
<1> QED
  BY <1>4, <1>5

(* What a step that does not touch the four places keeps.                  *)
LEMMA Untouched ==
  ASSUME Inv, UNCHANGED <<leader, hash, fed, cur, next, tries, bins, stash>>,
         stage' \in {"insert", "stash", "hashed", "programmed", "answered",
                     "terminated", "dead", "spinning", "undefined"}
  PROVE  Inv'
<1>1. UNCHANGED <<Full, InBins, Idx(cur), Idx(next), N, Items, AllBins>>
  BY DEF Full, InBins, Idx, N, Items, AllBins
<1>2. TypeOK' /\ InputsOK'
  BY DEF Inv, TypeOK, InputsOK, N, Items, AllBins, ItemSet
<1>3. NeverTwice' /\ Apart' /\ AllThere'
  BY <1>1 DEF Inv, NeverTwice, Apart, AllThere
<1>4. Marks'
  BY <1>1 DEF Inv, Marks, Marked, Address, StashAddress, N
<1>5. Divides'
  BY <1>1 DEF Inv, Divides
<1> QED
  BY <1>2, <1>3, <1>4, <1>5 DEF Inv

(* Before the first batch nothing is anywhere.                             *)
LEMMA InitialState == HashInit => Inv
<1> SUFFICES ASSUME HashInit PROVE Inv
  OBVIOUS
<1>1. InputsOK
  BY HashingAssumption DEF HashInit, InputsOK
<1>2. N \in 1..128
  BY <1>1 DEF InputsOK, N
<1>3. TypeOK
  BY <1>2, HashingAssumption DEF HashInit, TypeOK
<1>4. Full = {} /\ InBins = {} /\ Idx(cur) = {} /\ Idx(next) = {} /\ stash = {} /\ fed = 0
  BY DEF HashInit, Full, InBins, Idx
<1>5. NeverTwice /\ Apart /\ AllThere /\ Marks /\ Divides
  BY <1>4 DEF HashInit, NeverTwice, Apart, AllThere, Marks, Divides
<1> QED
  BY <1>1, <1>3, <1>5 DEF Inv

(* No step changes the inputs.                                             *)
LEMMA InputsStay ==
  ASSUME Inv, UNCHANGED inputs
  PROVE  InputsOK' /\ UNCHANGED <<N, Items, AllBins, ItemSet>>
BY DEF Inv, InputsOK, inputs, N, Items, AllBins, ItemSet

(* New items come in with their first hash.                                *)
LEMMA NewRoundItems ==
  ASSUME NEW is
  PROVE  /\ Idx(NewRound(is)) = is
         /\ \A x, y \in NewRound(is) : x.idx = y.idx => x = y
         /\ \A x \in NewRound(is) : x \in [idx : is, h : 0..2]
<1>1. \A x \in NewRound(is) : x.idx \in is /\ x = [idx |-> x.idx, h |-> 0]
  BY DEF NewRound
<1>2. \A i \in is : \E x \in NewRound(is) : x.idx = i
  <2> SUFFICES ASSUME NEW i \in is PROVE \E x \in NewRound(is) : x.idx = i
    OBVIOUS
  <2>1. [idx |-> i, h |-> 0] \in NewRound(is)
    BY DEF NewRound
  <2> QED
    BY <2>1
<1>3. Idx(NewRound(is)) = is
  BY <1>1, <1>2 DEF Idx
<1>4. \A x \in NewRound(is) : x \in [idx : is, h : 0..2]
  BY DEF NewRound
<1>5. ASSUME NEW x \in NewRound(is), NEW y \in NewRound(is), x.idx = y.idx PROVE x = y
  BY <1>1, <1>5
<1> QED
  BY <1>3, <1>4, <1>5

(* A batch comes in with items that are nowhere else.                      *)
LEMMA FeedKeeps == Inv /\ Feed => Inv'
<1> SUFFICES ASSUME Inv, Feed PROVE Inv'
  OBVIOUS
<1>1. InputsOK' /\ UNCHANGED <<N, Items, AllBins, ItemSet>>
  BY InputsStay DEF Feed
<1>2. N \in 1..128 /\ fed \in 0..N /\ fed' \in (fed + 1)..N
  <2>1. N \in 1..128 /\ fed \in 0..N
    BY DEF Inv, TypeOK, InputsOK, N
  <2>2. fed < N /\ fed' = IF fed + Batch < N THEN fed + Batch ELSE N
    BY DEF Feed
  <2>3. Batch \in Nat \ {0}
    BY HashingAssumption
  <2> QED
    BY <2>1, <2>2, <2>3
<1>3. cur = {} /\ next = {} /\ Idx(cur) = {} /\ Idx(next) = {} /\ next' = {} /\ Idx(next') = {}
  BY DEF Feed, Settled, Idx
<1>4. bins' = bins /\ stash' = stash /\ cur' = NewRound((fed + 1)..fed') /\ stage' = stage /\ tries' = 1
  BY DEF Feed
<1>5. UNCHANGED <<Full, InBins>>
  BY <1>1, <1>4 DEF Full, InBins
<1>6. Idx(cur') = (fed + 1)..fed' /\ \A x, y \in cur' : x.idx = y.idx => x = y
  BY <1>4, NewRoundItems
<1>7. cur' \subseteq ItemSet
  BY <1>2, <1>4, NewRoundItems DEF ItemSet, Items
<1>8. TypeOK'
  <2>1. fed' \in 0..N' /\ stash' \in SUBSET Items' /\ stage' = stage
    BY <1>1, <1>2, <1>4 DEF Inv, TypeOK
  <2>2. cur' \in SUBSET ItemSet' /\ next' \in SUBSET ItemSet' /\ tries' \in 0..MaxTries
    BY <1>1, <1>3, <1>4, <1>7, HashingAssumption
  <2>3. bins' \in [AllBins' -> ItemSet' \union {Empty}]
    BY <1>1, <1>4 DEF Inv, TypeOK
  <2> QED
    BY <2>1, <2>2, <2>3 DEF Inv, TypeOK
<1>9. InBins \union stash = 1..fed
  BY <1>3 DEF Inv, AllThere
<1>10. NeverTwice'
  BY <1>3, <1>4, <1>5, <1>6 DEF Inv, NeverTwice
<1>11. Apart'
  BY <1>2, <1>3, <1>4, <1>5, <1>6, <1>9 DEF Inv, Apart, Idx
<1>12. AllThere'
  BY <1>2, <1>3, <1>4, <1>5, <1>6, <1>9 DEF AllThere, Idx
<1>13. Marks'
  BY <1>1, <1>4, <1>5 DEF Inv, Marks, Marked, Address, StashAddress, Feed, inputs
<1>14. Divides'
  BY <1>1 DEF Divides, Feed
<1> QED
  BY <1>1, <1>8, <1>10, <1>11, <1>12, <1>13, <1>14 DEF Inv

(* Without bins of the stash, there is nothing to put anywhere.            *)
LEMMA NothingToHash == Inv => \/ StashBins(N) > 0
                              \/ fed = 0 /\ cur = {} /\ next = {}
<1> SUFFICES ASSUME Inv, ~ (StashBins(N) > 0) PROVE fed = 0 /\ cur = {} /\ next = {}
  OBVIOUS
<1>1. fed = 0
  BY DEF Inv, Divides, TypeOK, N, InputsOK
<1>2. Idx(cur) = {} /\ Idx(next) = {}
  BY <1>1 DEF Inv, AllThere
<1> QED
  BY <1>1, <1>2 DEF Idx

(* Where an item goes in, the one that was there comes out.                *)
LEMMA ExchangeKeeps == ASSUME NEW it PROVE Inv /\ Exchange(it) => Inv'
<1> SUFFICES ASSUME Inv, Exchange(it) PROVE Inv'
  OBVIOUS
<1>0. PICK b : b = Slot(it)
  OBVIOUS
<1>1. InputsOK' /\ UNCHANGED <<N, Items, AllBins, ItemSet>>
  BY InputsStay DEF Exchange
<1>2. /\ it \in cur /\ it \in ItemSet /\ cur' = cur \ {it} /\ next' = next \union Evicted(b)
      /\ bins' = [bins EXCEPT ![b] = it]
      /\ UNCHANGED <<leader, hash, stage, fed, tries, stash>>
      /\ stage \in {"insert", "stash"}
  BY <1>0 DEF Exchange, Inv, TypeOK, inputs
<1>3. b \in AllBins /\ (stage = "insert" <=> b < MainBins(N))
  <2>1. StashBins(N) > 0
    BY <1>2, NothingToHash
  <2>2. InputsOK
    BY DEF Inv
  <2> QED
    <3>1. Slot(it) \in AllBins /\ (stage = "insert" <=> Slot(it) < MainBins(N))
      BY <1>2, <2>1, <2>2, SlotIsABin
    <3> QED
      BY <1>0, <3>1
<1>4. it # Empty
  <2>1. Items \subseteq 1..128
    <3>1. N \in 1..128
      BY DEF N, Inv, InputsOK
    <3> QED
      BY <3>1 DEF Items
  <2>2. it \in [idx : 1..128, h : 0..2]
    BY <1>2, <2>1 DEF ItemSet
  <2> QED
    BY <2>2, HashingAssumption
<1>5. bins \in [AllBins -> ItemSet \union {Empty}]
  BY DEF Inv, TypeOK
<1>6. Full' = Full \union {b} /\ bins'[b] = it /\ \A c \in AllBins \ {b} : bins'[c] = bins[c]
  BY <1>1, <1>2, <1>3, <1>4, <1>5 DEF Full
<1>7. NumHashes \in {2, 3}
  BY DEF NumHashes
<1>8. Evicted(b) \subseteq ItemSet /\ \A x \in Evicted(b) : b \in Full /\ x.idx = bins[b].idx
  BY <1>3, <1>5, <1>7 DEF Evicted, ItemSet, Full
<1>9. b \in Full => \E x \in Evicted(b) : x.idx = bins[b].idx
  BY DEF Evicted, Full
<1>10. \A x, y \in Evicted(b) : x = y
  BY DEF Evicted
<1>11. TypeOK'
  <2>1. cur' \in SUBSET ItemSet /\ next' \in SUBSET ItemSet
    BY <1>2, <1>8 DEF Inv, TypeOK
  <2>2. bins' \in [AllBins -> ItemSet \union {Empty}]
    BY <1>2, <1>3, <1>5
  <2> QED
    BY <1>1, <1>2, <2>1, <2>2 DEF Inv, TypeOK
<1>12. /\ \A c \in Full : bins[c].idx # it.idx
       /\ \A c \in Full : \A x \in next : x.idx # bins[c].idx
       /\ \A c \in Full : \A x \in cur : x.idx # bins[c].idx
       /\ \A c \in Full : bins[c].idx \notin stash
       /\ \A x \in next : x.idx # it.idx
       /\ it.idx \notin stash
  BY <1>2 DEF Inv, Apart, InBins, Idx
<1>13. NeverTwice'
  <2>1. \A c, d \in Full' : bins'[c].idx = bins'[d].idx => c = d
    BY <1>6, <1>12 DEF Inv, NeverTwice, Full
  <2>2. \A x, y \in next' : x.idx = y.idx => x = y
    BY <1>2, <1>8, <1>10, <1>12 DEF Inv, NeverTwice
  <2> QED
    BY <1>2, <2>1, <2>2 DEF Inv, NeverTwice
<1>14. \A x \in cur' : x.idx # it.idx
  BY <1>2 DEF Inv, NeverTwice
<1>15. \A i \in InBins' : i = it.idx \/ \E c \in Full \ {b} : i = bins[c].idx
  BY <1>6 DEF InBins, Full
<1>16. \A c \in Full \ {b} : b \in Full => bins[c].idx # bins[b].idx
  BY DEF Inv, NeverTwice
<1>17. Apart'
  <2>1. InBins' \intersect Idx(cur') = {}
    BY <1>2, <1>12, <1>14, <1>15 DEF Idx
  <2>2. InBins' \intersect Idx(next') = {}
    BY <1>2, <1>8, <1>12, <1>15, <1>16 DEF Idx
  <2>3. InBins' \intersect stash' = {}
    BY <1>2, <1>12, <1>15
  <2>4. Idx(cur') \intersect (Idx(next') \union stash') = {}
    BY <1>2, <1>8, <1>12 DEF Inv, Apart, Idx
  <2>5. Idx(next') \intersect stash' = {}
    BY <1>2, <1>8, <1>12 DEF Inv, Apart, Idx
  <2> QED
    BY <2>1, <2>2, <2>3, <2>4, <2>5 DEF Apart, Idx
<1>18. AllThere'
  <2> DEFINE All == InBins \union Idx(cur) \union Idx(next) \union stash
             There == InBins' \union Idx(cur') \union Idx(next') \union stash'
  <2>1. All \subseteq There
    <3>1. it.idx \in InBins'
      BY <1>6 DEF InBins
    <3>2. \A c \in Full : bins[c].idx \in InBins' \union Idx(next')
      BY <1>2, <1>6, <1>9 DEF InBins, Idx, Full
    <3> QED
      BY <1>2, <3>1, <3>2 DEF InBins, Idx
  <2>2. There \subseteq All
    <3>1. it.idx \in Idx(cur)
      BY <1>2 DEF Idx
    <3>2. InBins' \subseteq All
      BY <1>15, <3>1 DEF InBins
    <3>3. Idx(next') \subseteq All
      BY <1>2, <1>8 DEF Idx, InBins
    <3> QED
      BY <1>2, <3>2, <3>3 DEF Idx
  <2> QED
    BY <1>2, <2>1, <2>2 DEF Inv, AllThere, Idx
<1>19. Marks'
  <2>1. Marked(b)'
    BY <1>0, <1>1, <1>2, <1>3, <1>6 DEF Marked, Slot, Address, StashAddress
  <2>2. \A c \in Full \ {b} : Marked(c)'
    BY <1>1, <1>2, <1>6 DEF Marked, Full, Address, StashAddress, Inv, Marks
  <2> QED
    BY <1>6, <2>1, <2>2 DEF Marks
<1>20. Divides'
  BY <1>1, <1>2 DEF Inv, Divides
<1> QED
  BY <1>1, <1>11, <1>13, <1>17, <1>18, <1>19, <1>20 DEF Inv

(* What was evicted becomes the next round.                                *)
LEMMA NextRoundKeeps == Inv /\ NextRound => Inv'
<1> SUFFICES ASSUME Inv, NextRound PROVE Inv'
  OBVIOUS
<1>1. InputsOK' /\ UNCHANGED <<N, Items, AllBins, ItemSet>>
  BY InputsStay DEF NextRound
<1>2. /\ cur = {} /\ cur' = next /\ next' = {} /\ tries' = tries + 1 /\ tries < MaxTries
      /\ UNCHANGED <<leader, hash, stage, fed, bins, stash>>
  BY DEF NextRound, inputs
<1>3. UNCHANGED <<Full, InBins>> /\ Idx(cur') = Idx(next) /\ Idx(next') = {} /\ Idx(cur) = {}
  BY <1>1, <1>2 DEF Full, InBins, Idx
<1>4. TypeOK'
  BY <1>1, <1>2, HashingAssumption DEF Inv, TypeOK
<1>5. NeverTwice'
  BY <1>2, <1>3 DEF Inv, NeverTwice
<1>6. Apart' /\ AllThere'
  BY <1>2, <1>3 DEF Inv, Apart, AllThere, Idx
<1>7. Marks'
  BY <1>1, <1>2, <1>3 DEF Inv, Marks, Marked, Address, StashAddress
<1>9. Divides'
  BY <1>1, <1>2 DEF Inv, Divides
<1> QED
  BY <1>1, <1>4, <1>5, <1>6, <1>7, <1>9 DEF Inv

(* After the last round, what was evicted goes to the stash.               *)
LEMMA ToStashKeeps == Inv /\ ToStash => Inv'
<1> SUFFICES ASSUME Inv, ToStash PROVE Inv'
  OBVIOUS
<1>1. InputsOK' /\ UNCHANGED <<N, Items, AllBins, ItemSet>>
  BY InputsStay DEF ToStash
<1>2. /\ stash' = stash \union Idx(next) /\ next' = {}
      /\ UNCHANGED <<leader, hash, stage, fed, cur, tries, bins>>
  BY DEF ToStash, inputs, Idx
<1>3. UNCHANGED <<Full, InBins, Idx(cur)>> /\ Idx(next') = {}
  BY <1>1, <1>2 DEF Full, InBins, Idx
<1>4. Idx(next) \subseteq Items
  BY DEF Inv, TypeOK, ItemSet, Idx
<1>5. TypeOK'
  BY <1>1, <1>2, <1>4 DEF Inv, TypeOK
<1>6. NeverTwice' /\ Apart' /\ AllThere'
  BY <1>2, <1>3 DEF Inv, NeverTwice, Apart, AllThere, Idx
<1>7. Marks'
  BY <1>1, <1>2, <1>3 DEF Inv, Marks, Marked, Address, StashAddress
<1>9. Divides'
  BY <1>1, <1>2 DEF Inv, Divides
<1> QED
  BY <1>1, <1>5, <1>6, <1>7, <1>9 DEF Inv

(* The stash becomes the first round of the second step.                   *)
LEMMA InsertStashKeeps == Inv /\ InsertStash => Inv'
<1> SUFFICES ASSUME Inv, InsertStash PROVE Inv'
  OBVIOUS
<1>1. InputsOK' /\ UNCHANGED <<N, Items, AllBins, ItemSet>>
  BY InputsStay DEF InsertStash
<1>2. /\ cur = {} /\ cur' = NewRound(stash) /\ stash' = {} /\ tries' = 1 /\ stage' = "stash"
      /\ UNCHANGED <<leader, hash, fed, next, bins>>
  BY DEF InsertStash, Settled, inputs
<1>3. /\ UNCHANGED <<Full, InBins, Idx(next)>> /\ Idx(cur) = {} /\ Idx(cur') = stash
      /\ \A x, y \in cur' : x.idx = y.idx => x = y
  BY <1>1, <1>2, NewRoundItems DEF Full, InBins, Idx
<1>4. cur' \subseteq ItemSet
  BY <1>2, NewRoundItems DEF Inv, TypeOK, ItemSet
<1>5. TypeOK'
  BY <1>1, <1>2, <1>4, HashingAssumption DEF Inv, TypeOK
<1>6. NeverTwice'
  BY <1>2, <1>3 DEF Inv, NeverTwice
<1>7. Apart' /\ AllThere'
  BY <1>2, <1>3 DEF Inv, Apart, AllThere, Idx
<1>8. Marks'
  BY <1>1, <1>2, <1>3 DEF Inv, Marks, Marked, Address, StashAddress
<1>9. Divides'
  BY <1>1, <1>2 DEF Inv, Divides
<1> QED
  BY <1>1, <1>5, <1>6, <1>7, <1>8, <1>9 DEF Inv

(* In every reachable state the items fed so far are in one place each,    *)
(* under the hash that they are marked with.                               *)
THEOREM HashingInvariant == HashSpec => []Inv
<1>1. Inv /\ [HashNext]_hashVars => Inv'
  <2> SUFFICES ASSUME Inv, [HashNext]_hashVars PROVE Inv'
    OBVIOUS
  <2>1. CASE Feed \/ NextRound \/ ToStash \/ InsertStash \/ \E it \in cur : Exchange(it)
    BY <2>1, FeedKeeps, NextRoundKeeps, ToStashKeeps, InsertStashKeeps, ExchangeKeeps
  <2>2. CASE StashFull \/ StashDividesByZero \/ Hashed \/ UNCHANGED hashVars
    BY <2>2, Untouched DEF StashFull, StashDividesByZero, Hashed, hashVars, inputs, hashing, Inv, TypeOK
  <2>3. CASE Evaluate
    BY <2>3, Untouched DEF Evaluate, inputs, hashing
  <2>4. CASE \E b \in AllBins : Program(b)
    <3>1. PICK b \in AllBins : Program(b)
      BY <2>4
    <3>2. UNCHANGED <<inputs, hashing>>
      BY <3>1 DEF Program
    <3>3. stage' \in {"programmed", "undefined", "spinning"}
      BY <3>1 DEF Program
    <3> QED
      BY <3>2, <3>3, Untouched DEF inputs, hashing
  <2> QED
    BY <2>1, <2>2, <2>3, <2>4 DEF HashNext
<1> QED
  BY <1>1, InitialState, PTL DEF HashSpec

-----------------------------------------------------------------------------
(* No eviction, batch or move to the stash loses or doubles an item.       *)
THEOREM NoItemIsLost == HashSpec => []EveryItemOnce
<1>1. Inv => EveryItemOnce
  <2> SUFFICES ASSUME Inv PROVE EveryItemOnce
    OBVIOUS
  <2>1. ASSUME NEW i \in Items, i \notin 1..fed PROVE Places(i) = {}
    BY <2>1 DEF Inv, AllThere, InBins, Idx, Full, Places
  <2>2. ASSUME NEW i \in Items, i \in 1..fed PROVE \E p \in Places(i) : Places(i) = {p}
    <3>1. CASE i \in InBins
      <4>1. PICK b \in Full : bins[b].idx = i
        BY <3>1 DEF InBins
      <4>2. Places(i) = {<<"bin", b>>}
        BY <3>1, <4>1 DEF Inv, NeverTwice, Apart, Idx, Full, Places
      <4> QED
        BY <4>2
    <3>2. CASE i \in Idx(cur)
      <4>1. PICK it \in cur : it.idx = i
        BY <3>2 DEF Idx
      <4>2. Places(i) = {<<"cur", it.h>>}
        BY <3>2, <4>1 DEF Inv, NeverTwice, Apart, InBins, Idx, Full, Places
      <4> QED
        BY <4>2
    <3>3. CASE i \in Idx(next)
      <4>1. PICK it \in next : it.idx = i
        BY <3>3 DEF Idx
      <4>2. Places(i) = {<<"next", it.h>>}
        BY <3>3, <4>1 DEF Inv, NeverTwice, Apart, InBins, Idx, Full, Places
      <4> QED
        BY <4>2
    <3>4. CASE i \in stash
      <4>1. Places(i) = {<<"stash", i>>}
        BY <3>4 DEF Inv, Apart, InBins, Idx, Full, Places
      <4> QED
        BY <4>1
    <3> QED
      BY <2>2, <3>1, <3>2, <3>3, <3>4 DEF Inv, AllThere
  <2>3. \A i \in Items : i <= fed <=> i \in 1..fed
    BY DEF Inv, TypeOK, Items
  <2>4. \A b \in AllBins : bins[b] # Empty => Marked(b)
    BY DEF Inv, Marks, Full
  <2> QED
    BY <2>1, <2>2, <2>3, <2>4 DEF EveryItemOnce, Marked
<1> QED
  BY <1>1, HashingInvariant, PTL

-----------------------------------------------------------------------------
(* What the leader finds in the member's table.  In the stash only two     *)
(* hashes are used, by the leader to put an item in and by the member.     *)
TwoHashes == /\ stage # "insert" => \A it \in cur \union next : it.h \in 0..1
             /\ \A b \in Full : b >= MainBins(N) => bins[b].h \in 0..1

MemberOK == member \in Seq(Elements) /\ Len(member) = Len(leader)

(* The positions of a row tell the member's items in the bin apart, and so *)
(* the item in the slot that is read is the only one that can be there.    *)
RowOK == /\ stage \in {"programmed", "answered"} =>
              bin \in Full /\ Distinct(SimpleBin(bin), pos)
         /\ stage = "answered" =>
              \A j \in SimpleBin(bin) :
                 Mask(Code(j), pos) = Mask(Codeword[leader[bins[bin].idx]], pos) => j = answer
         /\ stage = "undefined" => Repeats(member)

RowInv == MemberOK /\ TwoHashes /\ RowOK

(* New items come in with the hash of number 0.                            *)
LEMMA NewRoundHash == \A is : \A x \in NewRound(is) : x.h = 0
BY DEF NewRound

(* The hashes that are left to try in the stash stay below two.            *)
LEMMA ExchangeKeepsTwoHashes ==
  ASSUME NEW it, Inv, Inv', TwoHashes, Exchange(it)
  PROVE  TwoHashes'
<1>0. PICK b : b = Slot(it)
  OBVIOUS
<1>1. UNCHANGED <<N, Items, AllBins, ItemSet>> /\ stage' = stage
  BY InputsStay DEF Exchange
<1>2. /\ it \in cur /\ it \in ItemSet /\ cur' = cur \ {it} /\ next' = next \union Evicted(b)
      /\ bins' = [bins EXCEPT ![b] = it] /\ stage \in {"insert", "stash"}
  BY <1>0 DEF Exchange, Inv, TypeOK
<1>3. b \in AllBins /\ (stage = "insert" <=> b < MainBins(N))
  <2>1. InputsOK /\ StashBins(N) > 0
    BY <1>2, NothingToHash DEF Inv
  <2>2. Slot(it) \in AllBins /\ (stage = "insert" <=> Slot(it) < MainBins(N))
    BY <1>2, <2>1, SlotIsABin
  <2> QED
    BY <1>0, <2>2
<1>4. bins \in [AllBins -> ItemSet \union {Empty}]
  BY DEF Inv, TypeOK
<1>5. b \in Nat /\ MainBins(N) \in Nat
  <2>1. N \in 1..128
    BY DEF Inv, InputsOK, N
  <2>2. MainBins(N) \in Nat /\ StashBins(N) \in Nat
    BY <2>1, TableSizes
  <2> QED
    BY <1>3, <2>2 DEF AllBins
<1>6. stage = "stash" => \A x \in Evicted(b) : x.h \in 0..1
  <2> SUFFICES ASSUME stage = "stash", NEW x \in Evicted(b) PROVE x.h \in 0..1
    OBVIOUS
  <2>1. bins[b] # Empty /\ x.h = (bins[b].h + 1) % 2
    BY DEF Evicted, NumHashes
  <2>2. bins[b].h \in 0..2
    BY <1>3, <1>4, <2>1 DEF ItemSet
  <2> QED
    BY <2>1, <2>2
<1>7. stage' # "insert" => \A x \in cur' \union next' : x.h \in 0..1
  BY <1>1, <1>2, <1>6 DEF TwoHashes
<1>8. ASSUME NEW c \in Full', c >= MainBins(N) PROVE bins'[c].h \in 0..1
  <2>1. CASE c = b
    <3>1. stage = "stash"
      BY <1>2, <1>3, <1>5, <1>8, <2>1
    <3>2. bins'[c] = it
      BY <1>2, <1>3, <1>4, <2>1
    <3> QED
      BY <1>2, <3>1, <3>2 DEF TwoHashes
  <2>2. CASE c # b
    <3>1. c \in Full /\ bins'[c] = bins[c]
      BY <1>1, <1>2, <1>4, <2>2 DEF Full
    <3> QED
      BY <1>8, <3>1 DEF TwoHashes
  <2> QED
    BY <2>1, <2>2
<1> QED
  BY <1>1, <1>7, <1>8 DEF TwoHashes

(* So do those of every other step of the leader's.                        *)
LEMMA TwoHashesStay ==
  ASSUME Inv, Inv', TwoHashes, [HashNext]_hashVars
  PROVE  TwoHashes'
<1>1. CASE \E it \in cur : Exchange(it)
  BY <1>1, ExchangeKeepsTwoHashes
<1>2. CASE ~ \E it \in cur : Exchange(it)
  <2>1. UNCHANGED bins /\ UNCHANGED inputs
    BY <1>2 DEF HashNext, Feed, NextRound, ToStash, InsertStash, StashFull, StashDividesByZero,
                Hashed, Evaluate, Program, hashVars, hashing
  <2>2. UNCHANGED <<N, Full>>
    BY <2>1, InputsStay DEF Full
  <2>3. \A b \in Full' : b >= MainBins(N)' => bins'[b].h \in 0..1
    BY <2>1, <2>2 DEF TwoHashes
  <2>4. stage' # "insert" => \A x \in cur' \union next' : x.h \in 0..1
    <3>1. CASE Feed \/ NextRound \/ ToStash
      BY <3>1, NewRoundHash DEF Feed, NextRound, ToStash, TwoHashes, Settled
    <3>2. CASE InsertStash
      BY <3>2, NewRoundHash DEF InsertStash, Settled
    <3>3. CASE StashFull \/ Hashed
      BY <3>3 DEF StashFull, Hashed, TwoHashes, hashing
    <3>6. CASE StashDividesByZero
      BY <3>6, NothingToHash DEF StashDividesByZero, hashing
    <3>4. CASE Evaluate \/ \E b \in AllBins : Program(b)
      BY <3>4 DEF Evaluate, Program, TwoHashes, hashing
    <3>5. CASE UNCHANGED hashVars
      BY <3>5 DEF hashVars, TwoHashes, hashing
    <3> QED
      BY <1>2, <3>1, <3>2, <3>3, <3>4, <3>5, <3>6 DEF HashNext
  <2> QED
    BY <2>3, <2>4 DEF TwoHashes
<1> QED
  BY <1>1, <1>2

(* Of a set of numbers one is the least.                                   *)
LEMMA LeastIsLeast ==
  ASSUME NEW S \in SUBSET Nat, S # {}
  PROVE  Least(S) \in S /\ \A y \in S : Least(S) <= y
<1>1. \E i \in S : \A j \in S : <<j, i>> \notin OpToRel(<, Nat)
  BY NatLessThanWellFounded, WFMin
<1>2. PICK i \in S : \A j \in S : ~ j < i
  BY <1>1 DEF OpToRel
<1>3. \A j \in S : i <= j
  BY <1>2
<1> QED
  BY <1>3 DEF Least

(* The first of the positions is one of them.                              *)
LEMMA FirstOf ==
  ASSUME NEW S \in SUBSET Bits, S # {}
  PROVE  \E x \in S : First(S) = {x}
BY LeastIsLeast, CodewordAssumption DEF First

(* Items that no position of a row tells apart agree in all of them.       *)
LEMMA EqualMasks ==
  ASSUME NEW p, NEW i, NEW j, Mask(Code(i), p) = Mask(Code(j), p)
  PROVE  \A x \in p : ~ DiffersAt(x, i, j)
BY DEF Mask, DiffersAt

(* Different elements have codewords that differ in some bit.              *)
LEMMA SomeBitDiffers ==
  ASSUME MemberOK, NEW i \in 1..Len(member), NEW j \in 1..Len(member), member[i] # member[j]
  PROVE  \E x \in Bits : DiffersAt(x, i, j)
<1>1. member[i] \in Elements /\ member[j] \in Elements
  BY DEF MemberOK
<1>2. Code(i) # Code(j) /\ Code(i) \subseteq Bits /\ Code(j) \subseteq Bits
  BY <1>1, HashingAssumption, CodewordAssumption DEF Code
<1> QED
  BY <1>2 DEF DiffersAt

(* The positions sought in a bin of up to three different elements tell    *)
(* them apart, whatever other positions are drawn.                         *)
LEMMA SoughtTellApart ==
  ASSUME InputsOK, MemberOK, ~ Repeats(member),
         NEW js \in SUBSET Items, IsFiniteSet(js), Cardinality(js) <= 3,
         NEW p, Sought(js) \subseteq p
  PROVE  Distinct(js, p)
<1>0. /\ Items = 1..Len(member) /\ js \in SUBSET Nat
      /\ \A i, j \in Items : i # j => member[i] # member[j]
  BY DEF MemberOK, Items, N, Repeats
<1>1. CASE Cardinality(js) \notin {2, 3}
  <2>1. Cardinality(js) \in {0, 1}
    BY <1>1, FS_CardinalityType
  <2>2. js = {} \/ \E i \in js : js = {i}
    BY <2>1, FS_EmptySet, FS_Singleton
  <2> QED
    BY <2>2 DEF Distinct
<1>2. CASE Cardinality(js) \in {2, 3}
  <2> DEFINE c0 == Least(js)
             rest == js \ {c0}
             c1 == Least(rest)
             D1 == {x \in Bits : DiffersAt(x, c0, c1)}
             first == First(D1)
  <2>1. c0 \in js /\ IsFiniteSet(rest) /\ Cardinality(rest) = Cardinality(js) - 1
    <3>1. js # {}
      BY <1>2, FS_EmptySet
    <3>2. c0 \in js
      BY <1>0, <3>1, LeastIsLeast
    <3> QED
      BY <3>2, FS_RemoveElement
  <2>2. c1 \in rest /\ c1 # c0 /\ IsFiniteSet(rest \ {c1})
        /\ Cardinality(rest \ {c1}) = Cardinality(js) - 2
    <3>1. rest # {}
      BY <1>2, <2>1, FS_EmptySet
    <3>2. c1 \in rest
      BY <1>0, <3>1, LeastIsLeast
    <3> HIDE DEF c1, rest
    <3>3. IsFiniteSet(rest \ {c1}) /\ Cardinality(rest \ {c1}) = Cardinality(rest) - 1
      BY <2>1, <3>2, FS_RemoveElement
    <3>4. c1 # c0
      BY <3>2 DEF rest
    <3> QED
      BY <1>2, <2>1, <3>2, <3>3, <3>4
  <2>3. PICK x \in D1 : first = {x}
    <3>1. D1 # {}
      BY <1>0, <2>1, <2>2, SomeBitDiffers
    <3> QED
      BY <3>1, FirstOf
  <2>4. x \in Bits /\ DiffersAt(x, c0, c1)
    BY <2>3
  <2>5. CASE Cardinality(js) = 2
    <3>1. js = {c0, c1}
      <4>1. rest \ {c1} = {}
        BY <2>2, <2>5, FS_EmptySet
      <4> QED
        BY <2>1, <2>2, <4>1
    <3>2. Sought(js) = first
      BY <1>2, <2>5 DEF Sought
    <3>3. x \in p
      BY <2>3, <3>2
    <3> HIDE DEF c0, c1, rest, D1, first
    <3> QED
      BY <2>4, <3>1, <3>3, EqualMasks DEF Distinct, DiffersAt
  <2>6. CASE Cardinality(js) = 3
    <3> DEFINE c2 == Least(js \ {c0, c1})
               D2 == {y \in Bits \ first : DiffersAt(y, c0, c2) /\ ~ DiffersAt(y, c0, c1)}
    <3>1. c2 \in rest \ {c1} /\ js = {c0, c1, c2}
      <4>0. js \ {c0, c1} = rest \ {c1}
        OBVIOUS
      <4>1. PICK z : rest \ {c1} = {z}
        <5> HIDE DEF rest, c1
        <5>1. Cardinality(rest \ {c1}) = 1
          BY <2>2, <2>6
        <5> QED
          BY <2>2, <5>1, FS_Singleton
      <4>2. c2 = z
        <5>1. {z} \in SUBSET Nat
          BY <1>0, <4>1
        <5>2. c2 = Least({z})
          BY <4>0, <4>1
        <5> QED
          BY <5>1, <5>2, LeastIsLeast
      <4> HIDE DEF c2
      <4> QED
        BY <2>1, <2>2, <4>1, <4>2
    <3>2. Sought(js) = first \union First(D2)
      BY <1>2, <2>6 DEF Sought
    <3>3. PICK y \in Bits : DiffersAt(y, c0, c2) /\ ~ DiffersAt(y, c0, c1)
      <4>1. /\ c0 \in Items /\ c1 \in Items /\ c2 \in Items
            /\ c0 # c1 /\ c0 # c2 /\ c1 # c2
        BY <2>1, <2>2, <3>1
      <4> HIDE DEF c0, c1, c2
      <4>2. /\ member[c0] \in Elements /\ member[c1] \in Elements /\ member[c2] \in Elements
            /\ member[c0] # member[c1] /\ member[c0] # member[c2] /\ member[c1] # member[c2]
        BY <1>0, <4>1 DEF MemberOK
      <4>3. PICK b \in Bits : /\ b \in Codeword[member[c0]] <=> b \in Codeword[member[c1]]
                              /\ b \in Codeword[member[c0]] <=> b \notin Codeword[member[c2]]
        BY <4>2, CodewordAssumption
      <4>4. DiffersAt(b, c0, c2)
        BY <4>3 DEF DiffersAt, Code
      <4>5. ~ DiffersAt(b, c0, c1)
        BY <4>3 DEF DiffersAt, Code
      <4> QED
        BY <4>4, <4>5
    <3>4. PICK z \in D2 : First(D2) = {z}
      <4>1. y \in D2
        BY <2>3, <2>4, <3>3
      <4> HIDE DEF D2
      <4>2. D2 \in SUBSET Bits
        BY DEF D2
      <4> QED
        BY <4>1, <4>2, FirstOf
    <3>5. DiffersAt(z, c0, c2) /\ ~ DiffersAt(z, c0, c1) /\ x \in p /\ z \in p
      BY <2>3, <3>2, <3>4
    <3> HIDE DEF c0, c1, c2, rest, D1, D2, first
    <3>6. DiffersAt(z, c1, c2)
      BY <3>5 DEF DiffersAt
    <3> QED
      BY <2>4, <3>1, <3>5, <3>6, EqualMasks DEF Distinct, DiffersAt
  <2> QED
    BY <1>2, <2>5, <2>6
<1> QED
  BY <1>1, <1>2

(* A member puts an element that both have into the bin in which the       *)
(* leader has it, whatever hash the leader came to use.                    *)
LEMMA CommonElementInBin ==
  ASSUME Inv, TwoHashes, NEW b \in Full, NEW j \in Items, member[j] = leader[bins[b].idx]
  PROVE  InBin(j, b)
<1>1. bins[b] \in ItemSet /\ bins[b].h \in 0..2 /\ Marked(b)
  BY DEF Inv, TypeOK, Marks, Full, ItemSet
<1>2. b \in Nat /\ MainBins(N) \in Nat
  <2>1. N \in 1..128
    BY DEF Inv, InputsOK, N
  <2>2. MainBins(N) \in Nat /\ StashBins(N) \in Nat
    BY <2>1, TableSizes
  <2> QED
    BY <2>2 DEF AllBins, Full
<1>3. CASE b < MainBins(N)
  <2>1. b = Address(member[j], bins[b].h)
    BY <1>1, <1>3 DEF Marked, Address
  <2> QED
    BY <1>1, <2>1 DEF InBin
<1>4. CASE ~ (b < MainBins(N))
  <2>1. b = StashAddress(member[j], bins[b].h)
    BY <1>1, <1>4 DEF Marked, StashAddress
  <2>2. bins[b].h \in 0..1
    BY <1>2, <1>4 DEF TwoHashes
  <2> QED
    BY <2>1, <2>2 DEF InBin
<1> QED
  BY <1>3, <1>4

(* A bin's positions tell its items apart, or the member has repeats.      *)
LEMMA ProgramKeepsRow ==
  ASSUME Inv, RowInv, NEW b \in AllBins, Program(b)
  PROVE  RowOK'
<1> DEFINE js == SimpleBin(b)
<1>1. /\ UNCHANGED <<inputs, hashing, answer>> /\ bin' = b /\ bins[b] # Empty
      /\ stage' \in {"programmed", "undefined", "spinning"}
      /\ stage' = "programmed" => Distinct(js, pos')
      /\ stage' = "undefined" => /\ ~ Distinct(js, pos')
                                 /\ Cardinality(js) > 3 => Distinct(js, pos')
                                 /\ Sought(js) \subseteq pos'
  <2> DEFINE good == {p \in Candidates(js) : Distinct(js, p)}
  <2>1. UNCHANGED <<inputs, hashing, answer>> /\ bin' = b /\ bins[b] # Empty
    BY DEF Program
  <2>2. \/ /\ pos' \in IF Cardinality(js) > 3 THEN good ELSE Candidates(js)
           /\ stage' = IF Distinct(js, pos') THEN "programmed" ELSE "undefined"
        \/ stage' = "spinning"
    BY DEF Program
  <2>3. CASE stage' = "spinning"
    BY <2>1, <2>3
  <2>4. CASE /\ pos' \in IF Cardinality(js) > 3 THEN good ELSE Candidates(js)
             /\ stage' = IF Distinct(js, pos') THEN "programmed" ELSE "undefined"
    <3>1. pos' \in Candidates(js) /\ (Cardinality(js) > 3 => Distinct(js, pos'))
      BY <2>4
    <3>2. Sought(js) \subseteq pos'
      BY <3>1 DEF Candidates
    <3> HIDE DEF js
    <3> QED
      BY <2>1, <2>4, <3>1, <3>2
  <2> QED
    BY <2>2, <2>3, <2>4
<1>2. UNCHANGED <<leader, member, hash, bins, N, Items, AllBins>>
  BY <1>1 DEF inputs, hashing, N, Items, AllBins
<1>3. SimpleBin(bin)' = js /\ \A j : Code(j)' = Code(j)
  BY <1>1, <1>2 DEF SimpleBin, InBin, Address, StashAddress, Code
<1>4. stage' = "programmed" => bin' \in Full' /\ Distinct(SimpleBin(bin), pos)'
  BY <1>1, <1>2, <1>3 DEF Full, Distinct
<1>5. ASSUME stage' = "undefined" PROVE Repeats(member)'
  <2>1. SUFFICES ASSUME ~ Repeats(member) PROVE FALSE
    BY <1>2 DEF Repeats
  <2>2. js \in SUBSET Items /\ IsFiniteSet(js)
    <3>1. IsFiniteSet(Items)
      <4>1. N \in Int
        BY DEF Inv, InputsOK, N
      <4> QED
        BY <4>1, FS_Interval DEF Items
    <3> QED
      BY <3>1, FS_Subset DEF SimpleBin
  <2>3. Cardinality(js) <= 3
    BY <1>1, <1>5, <2>2, FS_CardinalityType
  <2>4. InputsOK /\ MemberOK
    BY DEF Inv, RowInv
  <2> HIDE DEF js
  <2>5. Distinct(js, pos')
    BY <1>1, <1>5, <2>1, <2>2, <2>3, <2>4, SoughtTellApart
  <2> QED
    BY <1>1, <1>5, <2>5
<1> QED
  BY <1>1, <1>4, <1>5 DEF RowOK

(* The slot that is read has the only item that can be there.              *)
LEMMA EvaluateKeepsRow ==
  ASSUME Inv, RowInv, Evaluate
  PROVE  RowOK'
<1> DEFINE mine == Mask(Codeword[leader[bins[bin].idx]], pos)
           there == {j \in SimpleBin(bin) : Mask(Code(j), pos) = mine}
<1>1. /\ UNCHANGED <<leader, member, hash, bins, bin, pos>> /\ stage = "programmed" /\ stage' = "answered"
      /\ answer' = IF there = {} THEN Empty ELSE CHOOSE j \in there : TRUE
  BY DEF Evaluate, inputs, hashing
<1>2. UNCHANGED <<N, Items, AllBins, Full, SimpleBin(bin)>> /\ \A j : Code(j)' = Code(j)
  BY <1>1 DEF N, Items, AllBins, Full, SimpleBin, InBin, Address, StashAddress, Code
<1>3. bin \in Full /\ Distinct(SimpleBin(bin), pos)
  BY <1>1 DEF RowInv, RowOK
<1>4. ASSUME NEW j \in SimpleBin(bin), Mask(Code(j), pos) = mine PROVE j = answer'
  <2>1. j \in there /\ answer' \in there
    BY <1>1, <1>4
  <2> QED
    BY <1>3, <2>1 DEF Distinct
<1>5. bin' \in Full' /\ Distinct(SimpleBin(bin), pos)'
  BY <1>1, <1>2, <1>3 DEF Distinct
<1>6. \A j \in SimpleBin(bin)' : Mask(Code(j), pos)' = Mask(Codeword[leader[bins[bin].idx]], pos)' => j = answer'
  BY <1>1, <1>2, <1>4 DEF Mask
<1> QED
  BY <1>1, <1>5, <1>6 DEF RowOK

(* In every reachable state the row is one that tells its items apart.     *)
THEOREM RowInvariant == HashSpec => []RowInv
<1>1. HashInit => RowInv
  <2> SUFFICES ASSUME HashInit PROVE RowInv
    OBVIOUS
  <2>1. MemberOK
    BY HashingAssumption DEF HashInit, MemberOK
  <2>2. TwoHashes /\ RowOK
    BY DEF HashInit, TwoHashes, RowOK, Full
  <2> QED
    BY <2>1, <2>2 DEF RowInv
<1>2. Inv /\ Inv' /\ RowInv /\ [HashNext]_hashVars => RowInv'
  <2> SUFFICES ASSUME Inv, Inv', RowInv, [HashNext]_hashVars PROVE RowInv'
    OBVIOUS
  <2>1. TwoHashes'
    BY TwoHashesStay DEF RowInv
  <2>2. UNCHANGED inputs
    BY DEF HashNext, Feed, NextRound, ToStash, InsertStash, StashFull, StashDividesByZero,
           Hashed, Evaluate, Program, Exchange, hashVars
  <2>3. MemberOK'
    BY <2>2 DEF RowInv, MemberOK, inputs
  <2>4. RowOK'
    <3>1. CASE \E b \in AllBins : Program(b)
      BY <3>1, ProgramKeepsRow
    <3>2. CASE Evaluate
      BY <3>2, EvaluateKeepsRow
    <3>3. CASE \/ Feed \/ NextRound \/ ToStash \/ InsertStash \/ StashFull \/ StashDividesByZero
               \/ Hashed \/ \E it \in cur : Exchange(it)
      <4>1. stage' \notin {"programmed", "answered", "undefined"}
        BY <3>3 DEF Feed, NextRound, ToStash, InsertStash, StashFull, StashDividesByZero, Hashed, Exchange
      <4> QED
        BY <4>1 DEF RowOK
    <3>4. CASE UNCHANGED hashVars
      <4>1. UNCHANGED <<leader, member, hash, bins, bin, pos, answer, stage>>
        BY <3>4 DEF hashVars, inputs, hashing, reply
      <4>2. UNCHANGED <<N, Items, AllBins, Full, SimpleBin(bin), Repeats(member)>> /\ \A j : Code(j)' = Code(j)
        BY <4>1 DEF N, Items, AllBins, Full, SimpleBin, InBin, Address, StashAddress, Code, Repeats
      <4>3. RowOK
        BY DEF RowInv
      <4> QED
        BY <4>1, <4>2, <4>3 DEF RowOK, Distinct, Mask
    <3> QED
      BY <3>1, <3>2, <3>3, <3>4 DEF HashNext
  <2> QED
    BY <2>1, <2>3, <2>4 DEF RowInv
<1> QED
  BY <1>1, <1>2, HashingInvariant, PTL DEF HashSpec

(* The leader's answer for an element is the member's value for it if the  *)
(* member has it, and no value of the member's otherwise: for all inputs,  *)
(* hash values, orders of insertion and draws of positions.                *)
THEOREM LeaderGetsValue == HashSpec => []LeaderGetsMembersValue
<1>1. Inv /\ RowInv => LeaderGetsMembersValue
  <2> SUFFICES ASSUME Inv, RowInv, stage = "answered", NEW j \in Items
               PROVE  member[j] = leader[bins[bin].idx]
                        <=> j = answer /\ Code(j) = Codeword[leader[bins[bin].idx]]
    BY DEF LeaderGetsMembersValue
  <2> DEFINE e == leader[bins[bin].idx]
  <2>1. bin \in Full
    BY DEF RowInv, RowOK
  <2>2. e \in Elements /\ member[j] \in Elements
    <3>1. bins[bin] \in ItemSet
      BY <2>1 DEF Full, Inv, TypeOK
    <3>2. bins[bin].idx \in 1..Len(leader)
      BY <3>1 DEF ItemSet, Items, N
    <3>3. j \in 1..Len(leader)
      BY DEF Items, N
    <3>4. leader \in Seq(Elements) /\ member \in Seq(Elements) /\ Len(member) = Len(leader)
      BY DEF Inv, InputsOK, RowInv, MemberOK
    <3> QED
      BY <3>2, <3>3, <3>4
  <2>3. ASSUME member[j] = e PROVE j = answer /\ Code(j) = Codeword[e]
    <3>1. j \in SimpleBin(bin)
      BY <2>1, <2>3, CommonElementInBin DEF SimpleBin, RowInv
    <3>2. Code(j) = Codeword[e]
      BY <2>3 DEF Code
    <3> QED
      BY <3>1, <3>2 DEF RowInv, RowOK
  <2>4. ASSUME Code(j) = Codeword[e] PROVE member[j] = e
    BY <2>2, <2>4, CodewordAssumption DEF Code
  <2> QED
    BY <2>3, <2>4
<1> QED
  BY <1>1, HashingInvariant, RowInvariant, PTL

(* A row whose items are not told apart is written only by a member with   *)
(* repeated elements.                                                      *)
THEOREM UndefinedNeedsRepeats == HashSpec => []UndefinedOnlyForRepeats
<1>1. RowInv => UndefinedOnlyForRepeats
  BY DEF RowInv, RowOK, UndefinedOnlyForRepeats
<1> QED
  BY <1>1, RowInvariant, PTL
=============================================================================
