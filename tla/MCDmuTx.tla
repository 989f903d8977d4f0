------------------------------- MODULE MCDmuTx -------------------------------
(* Model-checking instances of transaction assignment.                     *)
EXTENDS DmuTx

CONSTANTS d1, t1, t2

(* A writer (TXG_WAIT), and a VFS operation that has waited once.          *)
Writer == <<TRUE, FALSE>>
Vfs == <<FALSE, TRUE>>

OneDnode == [t \in Threads |-> {<<d1>>}]
AnyHow == [t \in Threads |-> {Writer, Vfs}]
=============================================================================
