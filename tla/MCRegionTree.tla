----------------------------- MODULE MCRegionTree -----------------------------
(* RegionTree for TLC: regions are model values; three of them make the        *)
(* shortest chain in which an ancestor is not the parent.                      *)
EXTENDS RegionTree
===============================================================================
