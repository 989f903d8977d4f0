--------------------------- MODULE MCDirtyThrottle ---------------------------
(* Model-checking instances of the write throttle.                         *)
EXTENDS DirtyThrottle, TLC

Symmetry == Permutations(Threads)
=============================================================================
