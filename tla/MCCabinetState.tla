---------------------------- MODULE MCCabinetState ----------------------------
(***************************************************************************)
(* CabinetState for TLC: threads, locations and cabinets are alike, and no *)
(* definition chooses one of them.                                         *)
(***************************************************************************)
EXTENDS CabinetState, TLC

Symmetry == Permutations(Threads) \union Permutations(Locations)
              \union Permutations(Cabinets)
================================================================================
