------------------------ MODULE MCWarpPipeExtension ------------------------
(* Instances of WarpPipeExtension for TLC: the callers each run assumes. *)
EXTENDS WarpPipeExtension, TLC

CarefulCaller == AllRules
AnyCaller     == {}
NeverReleases == AllRules \ {"release_first"}

Symmetry == Permutations(Adapters) \cup Permutations(Addrs)
=============================================================================
