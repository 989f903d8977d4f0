---------------------------- MODULE MCConfigSync ----------------------------
(* Model-checking instances of the commit of a txg: a mirror and a single  *)
(* disk, or two single disks.                                              *)
EXTENDS ConfigSync, TLC

CONSTANTS a, b, d1, d2, d3, d4

MirrorAndDisk == (a :> {d1, d2}) @@ (b :> {d3})
TwoDisks == (a :> {d3}) @@ (b :> {d4})

(* A crash that may leave labels half written, of a pool with a mirror;    *)
(* failed writes and two crashes of one without.                           *)
CrashOrErrors ==
    {[leaves |-> MirrorAndDisk, torn |-> TRUE, errors |-> 0, crashes |-> 1],
     [leaves |-> TwoDisks, torn |-> FALSE, errors |-> 2, crashes |-> 2]}

TwoCrashes == {[leaves |-> TwoDisks, torn |-> FALSE, errors |-> 0, crashes |-> 2]}

MirrorSymmetry == Permutations({d1, d2})
=============================================================================
