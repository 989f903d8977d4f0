----------------------------- MODULE TxgRefines -----------------------------
(***************************************************************************)
(* The threads, locks and condition variables of txg.c implement TxgAbs.   *)
(* A txg counts as synced when the sync thread has finished it; before the *)
(* first one the txgs of earlier imports are (tx_synced_txg is still 0).   *)
(***************************************************************************)
EXTENDS Txg

heldTxg == [t \in Threads |-> IF Holds(t) THEN th_txg[t] ELSE 0]
heldPhase == [t \in Threads |-> IF Holds(t) THEN th_st[t] ELSE "none"]

Abs == INSTANCE TxgAbs WITH
    open <- tx_open_txg, synced <- LastDone, held <- heldTxg, phase <- heldPhase

(* Every step of txg.c is a step of TxgAbs or changes nothing a handle can *)
(* see: txg_quiesce() opens the next txg only when no handle keeps this    *)
(* one open or an older one from quiescing, and txg_sync_thread() syncs    *)
(* the txgs one by one, each when its last handle is gone.                 *)
ImplementsTxgAbs == Abs!AbsSpec

=============================================================================
