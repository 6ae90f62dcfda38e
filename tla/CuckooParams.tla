---------------------------- MODULE CuckooParams ----------------------------
(***************************************************************************)
(* How many bins the hash tables of XZH26 have, and how many frames the    *)
(* tables of an OPPRF take (CuckooHasher1.cpp, SimpleHasher1.cpp,          *)
(* OPPRFSender.cpp), for sets of up to 128 elements: the first entry of    *)
(* the parameter tables of both hashers.                                   *)
(***************************************************************************)
EXTENDS Naturals

(* scaler[0] = 1.5 and scaler[1] = 0.17; the product is truncated.         *)
MainBins(n) == (15 * n) \div 10
StashBins(n) == (17 * n) \div 100

(* A frame holds the rows of at most 16 bins of one kind.                  *)
StepSize == 16
Chunks(b) == (b + StepSize - 1) \div StepSize
TableFrames(n) == Chunks(MainBins(n)) + Chunks(StashBins(n))
=============================================================================
