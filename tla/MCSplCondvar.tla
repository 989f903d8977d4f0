---------------------------- MODULE MCSplCondvar ----------------------------
(* A model-checking instance of the porting layer's locks.                 *)
EXTENDS SplCondvar

CONSTANTS p1, p2, p3, more_cv

(* As txg_delay() and the quiesce thread use tx_quiesce_more_cv.           *)
SharedTimer == [t \in {p1, p2, p3} |-> [c \in {more_cv} |-> {"wait", "timedwait"}]]
=============================================================================
