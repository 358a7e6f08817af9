--------------------------- MODULE MCPointerList ---------------------------
(***************************************************************************)
(* All addresses are alike, and all pids.                                  *)
(***************************************************************************)
EXTENDS PointerList, TLC

Alike == Permutations(Addrs) \cup Permutations(Pids)
=============================================================================
