------------------------------- MODULE TxgAbs -------------------------------
(***************************************************************************)
(* What txg.c promises to the transactions that use it.  Txg shows the     *)
(* open / quiescing / quiesced / syncing machinery; this module keeps only *)
(* what a caller of txg_hold_open(), txg_rele_to_quiesce() and             *)
(* txg_rele_to_sync() can rely on.  Txg implements it (TxgRefines), and    *)
(* DmuTx is built on it.                                                   *)
(***************************************************************************)
EXTENDS Integers

CONSTANTS
    Threads,            \* the threads that hold txgs open
    InitTxg             \* the first open txg of this import

VARIABLES
    open,               \* the txg new handles get
    synced,             \* the last txg on disk
    held,               \* the txg of the handle of each thread, 0 if none
    phase               \* "none", "open" or "quiesce": how far it is released

absVars == <<open, synced, held, phase>>

AbsInit ==
    /\ open = InitTxg
    /\ synced = InitTxg - 1
    /\ held = [t \in Threads |-> 0]
    /\ phase = [t \in Threads |-> "none"]

(* txg_hold_open(): the handle is on the txg that is open now.             *)
Hold(t) ==
    /\ phase[t] = "none"
    /\ held' = [held EXCEPT ![t] = open]
    /\ phase' = [phase EXCEPT ![t] = "open"]
    /\ UNCHANGED <<open, synced>>

(* txg_rele_to_quiesce(): from now on the next txg may open.               *)
ToQuiesce(t) ==
    /\ phase[t] = "open"
    /\ phase' = [phase EXCEPT ![t] = "quiesce"]
    /\ UNCHANGED <<open, synced, held>>

(* txg_rele_to_sync(): from now on the txg may sync.                       *)
ToSync(t) ==
    /\ phase[t] = "quiesce"
    /\ held' = [held EXCEPT ![t] = 0]
    /\ phase' = [phase EXCEPT ![t] = "none"]
    /\ UNCHANGED <<open, synced>>

(* The next txg opens: no handle keeps the open txg open, none of an older *)
(* txg is left, and at most one txg is already waiting to be synced.       *)
OpenNext ==
    /\ \A t \in Threads : phase[t] # "open" /\ held[t] \in {0, open}
    /\ open - synced <= 2
    /\ open' = open + 1
    /\ UNCHANGED <<synced, held, phase>>

(* The oldest txg is synced: it is not open and has no handle.             *)
SyncNext ==
    /\ synced + 1 < open
    /\ \A t \in Threads : held[t] # synced + 1
    /\ synced' = synced + 1
    /\ UNCHANGED <<open, held, phase>>

AbsNext ==
    \/ \E t \in Threads : Hold(t) \/ ToQuiesce(t) \/ ToSync(t)
    \/ OpenNext
    \/ SyncNext

AbsSpec == AbsInit /\ [][AbsNext]_absVars

=============================================================================
