----------------------------- MODULE MCBehaviours -----------------------------
(* Behaviours for TLC: main and a few more behaviours, as model values. *)
EXTENDS Behaviours
===============================================================================
