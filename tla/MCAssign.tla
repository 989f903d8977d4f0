------------------------------- MODULE MCAssign -------------------------------
(***************************************************************************)
(* The assignment of transactions, and the reads and writes of a file that *)
(* make them, are checked side by side: a behaviour is one of one of them, *)
(* the other stays as it is.                                               *)
(***************************************************************************)
EXTENDS DmuTx, ZplFile

CONSTANTS d1, d2, t1, t2, t3

VARIABLE active         \* what this behaviour is one of

(* A writer (TXG_WAIT), and one that has been through the throttle.        *)
Writer == <<TRUE, FALSE>>
Delayed == <<TRUE, TRUE>>

(* Three transactions meet on d1, one of them with another dnode.          *)
Lists == [t \in Threads |-> IF t = t3 THEN {<<d2, d1>>} ELSE {<<d1>>}]
How == [t \in Threads |-> IF t = t3 THEN {Writer} ELSE {Delayed}]

(* Readers that overlap in all ways; appends with writes elsewhere; cutting*)
(* the file off under readers and writers; all that changes the size.      *)
Op(kind, off, n) == [kind |-> kind, off |-> off, n |-> n]
Overlaps == {Op("read", o, n) : <<o, n>> \in {x \in (0..2) \X (1..3) : x[1] + x[2] <= 3}}
            \cup {Op("write", 1, 1)}
FileCalls == {
    Overlaps,
    {Op("read", 1, 2), Op("write", 0, 2), Op("write", 2, 1),
     Op("append", 0, 1), Op("append", 0, 2)},
    {Op("read", 0, 2), Op("write", 0, 2), Op("write", 2, 1),
     Op("append", 0, 2), Op("trunc", 1, 0)},
    {Op("extend", 3, 0), Op("write", 2, 1), Op("append", 0, 1),
     Op("free", 1, 1), Op("trunc", 0, 0)}}

Symmetry == Permutations({t1, t2})

-----------------------------------------------------------------------------
AssignInit ==
    /\ active \in {"dmu_tx", "file"}
    /\ Init /\ FileInit
    /\ active # "file" => z_size = 0 /\ z_blksz = 1 /\ zf_ops = Overlaps

AssignNext ==
    /\ UNCHANGED active
    /\ IF active = "dmu_tx" THEN Next ELSE UNCHANGED vars
    /\ IF active = "file" THEN FileNext ELSE UNCHANGED fileVars

AssignSpec == AssignInit /\ [][AssignNext]_<<active, vars, fileVars>>
=============================================================================
