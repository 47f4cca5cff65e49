-------------------------- MODULE MCAdsSymbolCache --------------------------
(***************************************************************************)
(* Instances of AdsSymbolCache for TLC.                                    *)
(***************************************************************************)
EXTENDS AdsSymbolCache, TLC

(***************************************************************************)
(* Names and readers are interchangeable; sound for the runs that check no *)
(* liveness.                                                               *)
(***************************************************************************)
Symmetry == Permutations(Names) \cup Permutations(Readers)
=============================================================================
