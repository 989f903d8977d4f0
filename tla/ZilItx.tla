------------------------------- MODULE ZilItx -------------------------------
(***************************************************************************)
(* The in-memory side of the intent log (zil.c): every logged operation is *)
(* an itx on the lists of its txg, and so is every call of zil_commit().   *)
(* A call moves the lists of the txgs that are not synced yet to           *)
(* zl_itx_commit_list; syncing a txg throws its lists away, because what   *)
(* they log is in the pool.  Each list is protected by the itxg_lock of    *)
(* its txg, so each use of it is one step.                                 *)
(***************************************************************************)
EXTENDS TxgAbs, FiniteSets, SequencesExt

CONSTANTS
    NObjs,              \* objects that have asynchronous itxs
    None                \* no thread

VARIABLES
    itxg,               \* zl_itxg: the lists of each ring slot
    zl_itx_commit_list, \* what the holder of zl_issuer_lock works on
    cleaning,           \* waiters of the lists given to the cleaning taskq
    zcw,                \* the commit waiter of each thread
    zl_suspend          \* how many times the log is suspended

itxVars == <<itxg, zl_itx_commit_list, cleaning, zcw, zl_suspend>>

Slots == 0..3
Slot(txg) == txg % 4

(* TXG_CONCURRENT_STATES txgs can have itxs that are not in the pool.      *)
Concurrent == 3

(* A logged record, and the itx of a call of zil_commit().                 *)
RecItx(r, txg) == [rec |-> r, zcw |-> None, txg |-> txg]
CommitItx(t, txg) == [rec |-> 0, zcw |-> t, txg |-> txg]
IsCommit(itx) == itx.zcw # None

Waiters(list) == {list[i].zcw : i \in DOMAIN list} \ {None}

(* txg 0: the slot has no lists.                                           *)
Itxs(txg) == [txg |-> txg, sync |-> <<>>, async |-> [o \in 1..NObjs |-> <<>>]]

FreshWaiter == [lwb |-> 0, done |-> FALSE, error |-> FALSE]

ItxInit ==
    /\ itxg = [s \in Slots |-> Itxs(0)]
    /\ zl_itx_commit_list = <<>>
    /\ cleaning = {}
    /\ zcw = [t \in Threads |-> FreshWaiter]
    /\ zl_suspend = 0

-----------------------------------------------------------------------------
(* zil_commit_waiter_skip() for each of ts.                                *)
Skipped(ts) ==
    [t \in Threads |-> IF t \in ts THEN [zcw[t] EXCEPT !.done = TRUE] ELSE zcw[t]]

(* zil_itx_assign(): obj is 0 for a synchronous itx.  Lists of an older    *)
(* txg that were not cleaned in time are cleaned now.                      *)
ItxAssign(itx, obj) ==
    LET s == Slot(itx.txg)
        missed == itxg[s].txg # itx.txg
        itxs == IF missed THEN Itxs(itx.txg) ELSE itxg[s]
    IN  /\ itxg' = [itxg EXCEPT ![s] =
               IF obj = 0 THEN [itxs EXCEPT !.sync = Append(@, itx)]
               ELSE [itxs EXCEPT !.async[obj] = Append(@, itx)]]
        /\ zcw' = Skipped(IF missed THEN Waiters(itxg[s].sync) ELSE {})

(* The txgs that zil_async_to_sync() and zil_get_commit_list() look at.    *)
Unsynced == synced + 1 .. synced + Concurrent

(* zil_async_to_sync(): foid 0 means all objects.                          *)
AsyncToSync(foid) ==
    itxg' = [s \in Slots |->
        IF itxg[s].txg \notin Unsynced THEN itxg[s]
        ELSE LET moves(o) == foid \in {0, o}
                 a == itxg[s].async
             IN  [itxg[s] EXCEPT
                     !.sync = @ \o FlattenSeq([o \in 1..NObjs |-> IF moves(o) THEN a[o] ELSE <<>>]),
                     !.async = [o \in 1..NObjs |-> IF moves(o) THEN <<>> ELSE a[o]]]]

(* The txgs whose lists zil_get_commit_list() takes.                       *)
Committable == {txg \in Unsynced : itxg[Slot(txg)].txg = txg}

(* zil_get_commit_list(): the synchronous lists, oldest txg first.  If the *)
(* log is suspended, nothing moves and the caller has to wait for the      *)
(* youngest txg that has something on its list.                            *)
CommitListTxg ==
    LET late == {txg \in Committable : itxg[Slot(txg)].sync # <<>>}
    IN  IF zl_suspend > 0 /\ late # {} THEN Max(late) ELSE 0

Taken ==
    IF zl_suspend > 0 THEN <<>>
    ELSE FlattenSeq([i \in 1..Concurrent |->
            LET txg == synced + i
            IN  IF txg \in Committable THEN itxg[Slot(txg)].sync ELSE <<>>])

GetCommitList ==
    itxg' = [s \in Slots |->
        IF itxg[s].txg \in Committable /\ zl_suspend = 0
        THEN [itxg[s] EXCEPT !.sync = <<>>] ELSE itxg[s]]

-----------------------------------------------------------------------------
(* zil_clean(), after the uberblock of txg has been written: the lists are *)
(* detached and given to a taskq.                                          *)
Clean(txg) ==
    /\ cleaning' = cleaning \cup Waiters(itxg[Slot(txg)].sync)
    /\ itxg' = [itxg EXCEPT ![Slot(txg)] = Itxs(0)]

(* zil_itxg_clean() on the taskq.                                          *)
ItxgClean ==
    /\ cleaning # {}
    /\ zcw' = Skipped(cleaning)
    /\ cleaning' = {}
    /\ UNCHANGED <<itxg, zl_itx_commit_list, zl_suspend>>
=============================================================================
