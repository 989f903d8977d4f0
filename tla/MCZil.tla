------------------------------- MODULE MCZil -------------------------------
(* Two threads, two or three records, and one to a block.  What may happen  *)
(* besides is bounded by one of several alternatives.                      *)
EXTENDS ZilReplay

CONSTANTS t1, t2

MCThreads == {t1, t2}
Sym == Permutations(MCThreads)

Calls(r, n) == [recs |-> r, commits |-> n, timeouts |-> 0, alloc_errors |-> 0, write_errors |-> 0,
                suspends |-> 0, crashes |-> 0, failed |-> FALSE, async |-> FALSE]

MCBounds == { [Calls(2, 2) EXCEPT !.timeouts = 1, !.crashes = 1],
              [Calls(2, 2) EXCEPT !.async = TRUE, !.crashes = 1],
              [Calls(2, 2) EXCEPT !.alloc_errors = 1, !.write_errors = 1],
              [Calls(2, 1) EXCEPT !.suspends = 1, !.crashes = 1],
              [Calls(2, 1) EXCEPT !.timeouts = 1, !.crashes = 2],
              [Calls(1, 1) EXCEPT !.suspends = 1, !.alloc_errors = 1],
              [Calls(3, 2) EXCEPT !.alloc_errors = 1],
              Calls(2, 3),
              [Calls(0, 0) EXCEPT !.suspends = 2] }

(* One allocation of a log block fails.                                    *)
FailBounds == { [Calls(2, 2) EXCEPT !.alloc_errors = 1] }
=============================================================================
