----------------------------- MODULE MCRegionHeap -----------------------------
(* RegionHeap for TLC: objects, regions and registers are interchangeable. *)
EXTENDS RegionHeap, TLC

Symmetry == Permutations(Obj) \cup Permutations(Region) \cup Permutations(Reg)
===============================================================================
