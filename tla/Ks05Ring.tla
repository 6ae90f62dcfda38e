------------------------------ MODULE Ks05Ring ------------------------------
(***************************************************************************)
(* The ring aggregation of KS05 (t_mpsi.cpp), coefficient by coefficient,  *)
(* on streams of bounded length: gRPC's Write blocks while the reader is   *)
(* Window messages behind.  Ks05Protocol moves a polynomial as one frame;  *)
(* here only the numbers of messages count.                                *)
(*                                                                         *)
(* Station 0 is the leader, station i the member at position i - 1.  Hop i *)
(* leads from station i to the next one.  A member sends on what it has    *)
(* completed before it reads the next coefficient; the leader sends its    *)
(* whole polynomial before it reads.                                       *)
(***************************************************************************)
EXTENDS Naturals

CONSTANTS
    NumParties,            \* config_.num_parties
    SetSizes,              \* negotiated set sizes
    Window                 \* messages a stream holds

ASSUME RingAssumption ==
    /\ NumParties \in Nat /\ NumParties >= 2
    /\ SetSizes \subseteq Nat \ {0}
    /\ Window \in Nat \ {0}

VARIABLES
    size,                  \* mNegotiatedSetSize
    wrote,                 \* wrote[i]: messages station i has put on hop i
    read                   \* read[i]: messages station i has taken from the hop before it

ringVars == <<size, wrote, read>>

Stations == 0..(NumParties - 1)
MemberStations == 1..(NumParties - 1)
Following(i) == (i + 1) % NumParties
Before(i) == (i + NumParties - 1) % NumParties

(* Coefficients on hop i: station i has multiplied a polynomial of degree  *)
(* size into the product.  The number of them goes first.                  *)
Coefficients(i) == (i + 1) * size + 1
Messages(i) == 1 + Coefficients(i)

RingInit == /\ size \in SetSizes
            /\ wrote = [i \in Stations |-> 0]
            /\ read = [i \in Stations |-> 0]

(* What a member that has read r messages has to send before it reads      *)
(* again: the count after the count, coefficient k after coefficient k,    *)
(* and with the last one all the coefficients that are left.  Mutant: one  *)
(* coefficient less.                                                       *)
DueLess(i, r) == IF r <= Coefficients(i - 1) THEN r ELSE Messages(i) - 1

Due(i, r) == IF r <= Coefficients(i - 1) THEN r ELSE Messages(i)

ToWrite(i) == IF i = 0 THEN Messages(0) ELSE Due(i, read[i])

Room(i) == wrote[i] - read[Following(i)] < Window

Write(i) == /\ wrote[i] < ToWrite(i)
            /\ Room(i)
            /\ wrote' = [wrote EXCEPT ![i] = @ + 1]
            /\ UNCHANGED <<size, read>>

(* Mutant: the leader reads while a thread of its own writes, as BEH21's.  *)
ReadMeanwhile(i) == /\ i = 0 \/ wrote[i] = ToWrite(i)
                    /\ read[i] < wrote[Before(i)]
                    /\ read' = [read EXCEPT ![i] = @ + 1]
                    /\ UNCHANGED <<size, wrote>>

Read(i) == /\ wrote[i] = ToWrite(i)
           /\ read[i] < wrote[Before(i)]
           /\ read' = [read EXCEPT ![i] = @ + 1]
           /\ UNCHANGED <<size, wrote>>

RingNext == \E i \in Stations : Write(i) \/ Read(i)

RingSpec == RingInit /\ [][RingNext]_ringVars

RingFairness == \A i \in Stations : WF_ringVars(Write(i) \/ Read(i))

-----------------------------------------------------------------------------
RingTypeOK == /\ size \in SetSizes
              /\ wrote \in [Stations -> Nat]
              /\ read \in [Stations -> Nat]
              /\ \A i \in Stations : /\ wrote[i] <= Messages(i)
                                     /\ read[Following(i)] <= wrote[i]
                                     /\ wrote[i] <= read[Following(i)] + Window

(* What the ring holds: every stream's window, and the message that each   *)
(* member has read and not yet sent on.                                    *)
Capacity == NumParties * Window + (NumParties - 1)

(* The leader's polynomial: a count and size + 1 coefficients.             *)
FitsTheRing == size + 2 <= Capacity

(* The leader gets as far as reading the product only if its polynomial    *)
(* fits into the ring: with a larger set, every station waits to write.    *)
ReadsOnlyWhatFits == read[0] > 0 => FitsTheRing

(* And if it does, the leader receives the product.                        *)
Received == read[0] = Messages(NumParties - 1)

LeaderReceives == <>(Received \/ ~ FitsTheRing)
=============================================================================
