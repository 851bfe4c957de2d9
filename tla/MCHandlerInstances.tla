------------------------- MODULE MCHandlerInstances -------------------------
(* Instances of HandlerInstances small enough for TLC.                     *)
EXTENDS HandlerInstances, TLC

CONSTANTS h1, c1, c2
Symmetry == Permutations(Callers)
=============================================================================
