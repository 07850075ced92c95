---------------------------- MODULE MCCallFrames ----------------------------
(* A function that has a variable besides its parameter, and the finalizer. *)
EXTENDS CallFrames

MCFunctions == {"f", "fin"}
MCCalled    == {"f"}
MCRegisters == [f |-> 2, fin |-> 1]
MCParams    == [f |-> 1, fin |-> 1]
=============================================================================
