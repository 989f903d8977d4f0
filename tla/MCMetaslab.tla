----------------------------- MODULE MCMetaslab -----------------------------
(* Two metaslabs, of two blocks and of one.  What may happen is bounded by *)
(* one of several alternatives.                                            *)
EXTENDS Metaslab

TwoMetaslabs == <<{1, 2}, {3}>>

(* With a log space map or not, and ample space or not; what is used at    *)
(* the start; how often each operation may happen.                         *)
Pool(log, plenty, used, w, a, f, l, e, u, c) ==
    [ log |-> log, roomy |-> plenty, used |-> used,
      bounds |-> [ writes |-> w, allocs |-> a, frees |-> f, loads |-> l, evicts |-> e,
                   unallocs |-> u, crashes |-> c ] ]

MCStarts ==
    { Pool(TRUE,  TRUE,  {<<1, 1>>, <<2, 3>>}, 3, 1, 1, 1, 0, 0, 1),
      Pool(TRUE,  TRUE,  {<<1, 1>>, <<2, 3>>}, 4, 0, 2, 0, 0, 0, 2),
      Pool(TRUE,  FALSE, {<<1, 1>>},           2, 1, 1, 1, 1, 0, 0),
      Pool(TRUE,  FALSE, {<<1, 1>>},           2, 0, 1, 2, 1, 0, 0),
      Pool(TRUE,  FALSE, {<<1, 1>>},           2, 1, 0, 2, 1, 0, 0),
      Pool(TRUE,  TRUE,  {<<1, 1>>},           2, 2, 1, 1, 0, 1, 0),
      Pool(FALSE, FALSE, {<<1, 1>>},           2, 1, 0, 3, 0, 0, 0),
      Pool(FALSE, TRUE,  {<<1, 1>>},           2, 2, 1, 1, 1, 0, 0),
      Pool(FALSE, TRUE,  {<<1, 1>>, <<2, 3>>}, 2, 1, 2, 1, 0, 0, 1) }
=============================================================================
