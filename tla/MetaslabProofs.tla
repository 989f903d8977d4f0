--------------------------- MODULE MetaslabProofs ---------------------------
(* What the unflushed trees of a metaslab stand for, whatever its size.    *)
EXTENDS Metaslab, TLAPS

(* The space map sm with the changes un appended, as metaslab_flush() does.*)
Flushed(sm, un) == (sm \cup un.allocs) \ un.frees

(* The changes un are ones to sm: none of them is in it already.           *)
ChangesTo(sm, un) == un.allocs \cap sm = {} /\ un.frees \subseteq sm

(* metaslab_sync() adds the blocks of a pass to the unflushed trees with   *)
(* range_tree_remove_xor_add(), so that a block allocated and freed since  *)
(* the last flush is in neither.  To flush them later gives the space map  *)
(* that appending each pass to it would have given, and the trees remain   *)
(* changes to the space map as it is.                                      *)
THEOREM XorKeepsTheMap ==
    ASSUME NEW sm, NEW a, NEW f, NEW allocs, NEW frees,
           ChangesTo(sm, [allocs |-> a, frees |-> f]),
           allocs \cap Flushed(sm, [allocs |-> a, frees |-> f]) = {},
           frees \subseteq Flushed(sm, [allocs |-> a, frees |-> f]) \cup allocs
    PROVE  LET un == Unflushed([allocs |-> a, frees |-> f], allocs, frees)
           IN  /\ Flushed(sm, un) = (Flushed(sm, [allocs |-> a, frees |-> f]) \cup allocs) \ frees
               /\ ChangesTo(sm, un)
<1> DEFINE old == [allocs |-> a, frees |-> f]
           un  == Unflushed(old, allocs, frees)
           a1  == a \cup (allocs \ f)
           f1  == f \ allocs
<1>1. un = [allocs |-> a1 \ frees, frees |-> f1 \cup (frees \ a1)]
  BY DEF Unflushed, XorAdd
<1>2. un.allocs = a1 \ frees /\ un.frees = f1 \cup (frees \ a1)
  BY <1>1
<1>3. Flushed(sm, old) = (sm \cup a) \ f
  BY DEF Flushed
<1>4. a \cap sm = {} /\ f \subseteq sm
  BY DEF ChangesTo
<1>5. Flushed(sm, un) = (sm \cup (a1 \ frees)) \ (f1 \cup (frees \ a1))
  BY <1>2 DEF Flushed
<1> HIDE DEF un, old
<1>6. Flushed(sm, un) = (Flushed(sm, old) \cup allocs) \ frees
  BY <1>3, <1>4, <1>5 DEF old
<1>7. un.allocs \cap sm = {}
  BY <1>2, <1>3, <1>4 DEF old
<1>8. un.frees \subseteq sm
  BY <1>2, <1>3, <1>4 DEF old
<1> QED
  BY <1>6, <1>7, <1>8 DEF ChangesTo, un, old
=============================================================================
