---------------------------- MODULE DiskCacheMC -----------------------------
(* The instances of DiskCache that TLC checks. *)
EXTENDS DiskCache, TLC

Symmetric == Permutations(Keys) \cup Permutations(Writers)
=============================================================================
