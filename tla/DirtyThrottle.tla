---------------------------- MODULE DirtyThrottle ----------------------------
(***************************************************************************)
(* The write throttle (dsl_pool.c, dmu_tx.c).  Data dirtied by a           *)
(* transaction is counted for its txg (dp_dirty_pertxg) and for the pool   *)
(* (dp_dirty_total), and no longer counted once it is written.  While the  *)
(* total is at zfs_dirty_data_max, new transactions sleep on               *)
(* dp_spaceavail_cv.  cv_signal() wakes one of them at a time.             *)
(*                                                                         *)
(* txg.c is represented by its contract, TxgAbs.  A critical section of    *)
(* dp_lock is one step; dmu_tx_try_assign() reads the total without it.    *)
(***************************************************************************)
EXTENDS TxgAbs, FiniteSets

CONSTANTS
    DirtyMax,           \* zfs_dirty_data_max
    DelayMin,           \* zfs_delay_min_dirty_percent of it
    WrlogDelayMin,      \* the same share of zfs_wrlog_data_max
    TxSpace,            \* what one transaction dirties at most
    SyncSpace,          \* what syncing a txg dirties at most
    MaxTxg,             \* bound: no txg above it is opened
    MaxWrlog            \* bound on the writes logged in one txg

ASSUME DirtyAssumption ==
    /\ InitTxg \in Nat \ {0} /\ MaxTxg \in Nat
    /\ DirtyMax \in Nat \ {0} /\ DelayMin \in Nat /\ DelayMin < DirtyMax
    /\ WrlogDelayMin \in Nat
    /\ TxSpace \in Nat /\ SyncSpace \in Nat /\ MaxWrlog \in Nat

VARIABLES
    dp_dirty_pertxg,    \* dirty data of each ring slot
    dp_dirty_total,
    dr_accounted,       \* what the dirty records of each slot account for
    dp_wrlog_pertxg, dp_wrlog_total,    \* logged writes, the same way
    pc,                 \* where each thread is
    tx,                 \* its transaction, see Transaction
    asleep,             \* the threads asleep on dp_spaceavail_cv
    syncing,            \* the txg that is being synced, 0 if none
    sync_st,            \* where dsl_pool_sync() is
    sync_space          \* what it may still dirty

dirtyVars == <<dp_dirty_pertxg, dp_dirty_total, dr_accounted>>
logVars == <<dp_wrlog_pertxg, dp_wrlog_total>>
syncVars == <<syncing, sync_st, sync_space>>
vars == <<absVars, dirtyVars, logVars, pc, tx, asleep, syncVars>>

Slots == 0..3
Slot(txg) == txg % 4

Transaction == [
    txg_wait : BOOLEAN,         \* the caller passed TXG_WAIT
    dirty_delayed : BOOLEAN,    \* tx_dirty_delayed
    room : 0..TxSpace ]         \* what it may still dirty

Tx(wait) == [txg_wait |-> wait, dirty_delayed |-> FALSE, room |-> TxSpace]
NoTx == Tx(FALSE)

Goto(t, l) == pc' = [pc EXCEPT ![t] = l]
Destroy(t) == Goto(t, "idle") /\ tx' = [tx EXCEPT ![t] = NoTx]

Init ==
    /\ AbsInit
    /\ dp_dirty_pertxg = [s \in Slots |-> 0]
    /\ dp_dirty_total = 0
    /\ dr_accounted = [s \in Slots |-> 0]
    /\ dp_wrlog_pertxg = [s \in Slots |-> 0]
    /\ dp_wrlog_total = 0
    /\ pc = [t \in Threads |-> "idle"]
    /\ tx = [t \in Threads |-> NoTx]
    /\ asleep = {}
    /\ syncing = 0 /\ sync_st = "idle" /\ sync_space = 0

-----------------------------------------------------------------------------
(* dsl_pool_dirty_delta(): the new total; below the limit one waiter is    *)
(* woken, whether the total grew or shrank.                                *)
DirtyDelta(total) ==
    /\ dp_dirty_total' = total
    /\ IF total < DirtyMax /\ asleep # {}
       THEN \E u \in asleep : asleep' = asleep \ {u}
       ELSE UNCHANGED asleep

(* dsl_pool_dirty_space(), called for a new or a growing dirty record.     *)
(* Its txg_kick() only makes the txg sync sooner.                          *)
DirtySpace(s, k) ==
    /\ dp_dirty_pertxg' = [dp_dirty_pertxg EXCEPT ![s] = @ + k]
    /\ dr_accounted' = [dr_accounted EXCEPT ![s] = @ + k]
    /\ DirtyDelta(dp_dirty_total + k)

(* What dsl_pool_undirty_space() takes off: it never goes below zero.      *)
Taken(s, k) == IF dp_dirty_pertxg[s] < k THEN dp_dirty_pertxg[s] ELSE k

(* dsl_pool_undirty_space().                                               *)
UndirtySpace(s, k) ==
    IF k = 0
    THEN UNCHANGED <<dp_dirty_pertxg, dp_dirty_total, asleep>>
    ELSE /\ dp_dirty_pertxg' = [dp_dirty_pertxg EXCEPT ![s] = @ - Taken(s, k)]
         /\ DirtyDelta(dp_dirty_total - Taken(s, k))

-----------------------------------------------------------------------------
(* A caller of dmu_tx_assign(), with TXG_WAIT or without.  (Those that     *)
(* pass TXG_NOTHROTTLE without having waited dirty no data that counts.)   *)
Create(t, wait) ==
    /\ pc[t] = "idle"
    /\ Goto(t, "check")
    /\ tx' = [tx EXCEPT ![t] = Tx(wait)]
    /\ UNCHANGED <<absVars, dirtyVars, logVars, asleep, syncVars>>

(* dmu_tx_try_assign(): dsl_pool_need_wrlog_delay() and                    *)
(* dsl_pool_need_dirty_delay(), without dp_lock.                           *)
NeedDelay == dp_wrlog_total > WrlogDelayMin \/ dp_dirty_total > DelayMin

Check(t) ==
    /\ pc[t] = "check"
    /\ Goto(t, IF ~tx[t].dirty_delayed /\ NeedDelay THEN "wait" ELSE "hold")
    /\ UNCHANGED <<absVars, dirtyVars, logVars, tx, asleep, syncVars>>

(* Mutant: does not look at the total.                                     *)
WaitDirtyBlind(t) ==
    /\ pc[t] = "wait"
    /\ Goto(t, "check")
    /\ tx' = [tx EXCEPT ![t].dirty_delayed = TRUE]
    /\ UNCHANGED <<absVars, dirtyVars, logVars, asleep, syncVars>>

(* dmu_tx_wait(): sleeps while the total is at the limit.  Then the loop   *)
(* of dmu_tx_assign() goes on.  A caller without TXG_WAIT aborts, starts   *)
(* over and either tries again, with TXG_NOTHROTTLE, or finds that it has  *)
(* nothing to do any more.                                                 *)
WaitDirty(t) ==
    /\ pc[t] = "wait"
    /\ t \notin asleep
    /\ IF dp_dirty_total >= DirtyMax
       THEN asleep' = asleep \cup {t} /\ UNCHANGED <<pc, tx>>
       ELSE /\ UNCHANGED asleep
            /\ \/ /\ Goto(t, "check")
                  /\ tx' = [tx EXCEPT ![t].dirty_delayed = TRUE]
               \/ ~tx[t].txg_wait /\ Destroy(t)
    /\ UNCHANGED <<absVars, dirtyVars, logVars, syncVars>>

TryHold(t) ==
    /\ pc[t] = "hold"
    /\ Hold(t)
    /\ Goto(t, "held")
    /\ UNCHANGED <<dirtyVars, logVars, tx, asleep, syncVars>>

(* dmu_tx_assign() returns.                                                *)
Assigned(t) ==
    /\ pc[t] = "held"
    /\ ToQuiesce(t)
    /\ Goto(t, "assigned")
    /\ UNCHANGED <<dirtyVars, logVars, tx, asleep, syncVars>>

(* A buffer is dirtied: dmu_objset_willuse_space().                        *)
Dirty(t, k) ==
    /\ pc[t] = "assigned"
    /\ k <= tx[t].room
    /\ DirtySpace(Slot(held[t]), k)
    /\ tx' = [tx EXCEPT ![t].room = @ - k]
    /\ UNCHANGED <<absVars, logVars, pc, syncVars>>

(* A dirty buffer shrinks (dbuf_new_size): dsl_pool_dirty_space() ignores  *)
(* the negative change.                                                    *)
Shrink(t, k) ==
    /\ pc[t] = "assigned"
    /\ k <= dr_accounted[Slot(held[t])]
    /\ dr_accounted' = [dr_accounted EXCEPT ![Slot(held[t])] = @ - k]
    /\ UNCHANGED <<absVars, dp_dirty_pertxg, dp_dirty_total, logVars, pc, tx, asleep, syncVars>>

(* A dirty buffer is freed before it is written: dbuf_undirty().           *)
Undirty(t, k) ==
    /\ pc[t] = "assigned"
    /\ k <= dr_accounted[Slot(held[t])]
    /\ dr_accounted' = [dr_accounted EXCEPT ![Slot(held[t])] = @ - k]
    /\ UndirtySpace(Slot(held[t]), k)
    /\ UNCHANGED <<absVars, logVars, pc, tx, syncVars>>

(* A write is logged: dsl_pool_wrlog_count() adds to two aggsums, one      *)
(* after the other and without a lock.                                     *)
WrlogCount(t) ==
    /\ pc[t] = "assigned"
    /\ dp_wrlog_pertxg[Slot(held[t])] < MaxWrlog
    /\ dp_wrlog_pertxg' = [dp_wrlog_pertxg EXCEPT ![Slot(held[t])] = @ + 1]
    /\ Goto(t, "wrlog")
    /\ UNCHANGED <<absVars, dirtyVars, dp_wrlog_total, tx, asleep, syncVars>>

WrlogCountTotal(t) ==
    /\ pc[t] = "wrlog"
    /\ dp_wrlog_total' = dp_wrlog_total + 1
    /\ Goto(t, "assigned")
    /\ UNCHANGED <<absVars, dirtyVars, dp_wrlog_pertxg, tx, asleep, syncVars>>

(* dmu_tx_commit(), or an assignment that failed (dmu_tx_unassign).        *)
Commit(t) ==
    /\ pc[t] = "assigned"
    /\ ToSync(t)
    /\ Destroy(t)
    /\ UNCHANGED <<dirtyVars, logVars, asleep, syncVars>>

-----------------------------------------------------------------------------
TxgOpens ==
    /\ open < MaxTxg
    /\ OpenNext
    /\ UNCHANGED <<dirtyVars, logVars, pc, tx, asleep, syncVars>>

(* Mutant: starts while the txg still has handles.                         *)
SyncBeginEarly ==
    /\ syncing = 0
    /\ synced + 1 < open
    /\ syncing' = synced + 1 /\ sync_st' = "write" /\ sync_space' = SyncSpace
    /\ UNCHANGED <<absVars, dirtyVars, logVars, pc, tx, asleep>>

(* spa_sync() starts on the oldest txg that is not synced, once it has no  *)
(* handles left.                                                           *)
SyncBegin ==
    /\ syncing = 0
    /\ synced + 1 < open
    /\ \A t \in Threads : held[t] # synced + 1
    /\ syncing' = synced + 1 /\ sync_st' = "write" /\ sync_space' = SyncSpace
    /\ UNCHANGED <<absVars, dirtyVars, logVars, pc, tx, asleep>>

(* A dirty record has been written (dbuf_write_done).                      *)
SyncWriteDone(k) ==
    /\ sync_st = "write"
    /\ k <= dr_accounted[Slot(syncing)]
    /\ dr_accounted' = [dr_accounted EXCEPT ![Slot(syncing)] = @ - k]
    /\ UndirtySpace(Slot(syncing), k)
    /\ UNCHANGED <<absVars, logVars, pc, tx, syncVars>>

(* Syncing dirties the MOS, in the txg that is being synced: on behalf of  *)
(* the datasets ("write") or in a sync task ("tasks").                     *)
SyncDirty(k) ==
    /\ sync_st \in {"write", "tasks"}
    /\ k <= sync_space
    /\ sync_space' = sync_space - k
    /\ DirtySpace(Slot(syncing), k)
    /\ UNCHANGED <<absVars, logVars, pc, tx, syncing, sync_st>>

(* Mutant: does not wait for the writes.                                   *)
SyncShoreUpEarly ==
    /\ sync_st = "write"
    /\ UndirtySpace(Slot(syncing), dp_dirty_pertxg[Slot(syncing)])
    /\ sync_st' = "tasks"
    /\ UNCHANGED <<absVars, dr_accounted, logVars, pc, tx, syncing, sync_space>>

(* All records are written (zio_wait, dsl_pool_sync_mos); what is still    *)
(* counted for the txg was leaked, and is taken off.                       *)
SyncShoreUp ==
    /\ sync_st = "write"
    /\ dr_accounted[Slot(syncing)] = 0
    /\ UndirtySpace(Slot(syncing), dp_dirty_pertxg[Slot(syncing)])
    /\ sync_st' = "tasks"
    /\ UNCHANGED <<absVars, dr_accounted, logVars, pc, tx, syncing, sync_space>>

(* What the sync tasks dirtied is written in another pass.                 *)
SyncNextPass ==
    /\ sync_st = "tasks"
    /\ dr_accounted[Slot(syncing)] # 0
    /\ sync_st' = "write"
    /\ UNCHANGED <<absVars, dirtyVars, logVars, pc, tx, asleep, syncing, sync_space>>

(* dsl_pool_sync_done(): dsl_pool_wrlog_clear() reads the per-txg sum and  *)
(* takes it off both; then the txg is synced.                              *)
SyncDone ==
    /\ sync_st = "tasks"
    /\ dr_accounted[Slot(syncing)] = 0
    /\ dp_wrlog_total' = dp_wrlog_total - dp_wrlog_pertxg[Slot(syncing)]
    /\ dp_wrlog_pertxg' = [dp_wrlog_pertxg EXCEPT ![Slot(syncing)] = 0]
    /\ SyncNext
    /\ syncing' = 0 /\ sync_st' = "idle" /\ sync_space' = 0
    /\ UNCHANGED <<dirtyVars, pc, tx, asleep>>

(* The bound on txgs is reached: transactions may wait for ever for the    *)
(* last txg to be synced.                                                  *)
AtBound == open = MaxTxg /\ UNCHANGED vars

ThreadStep(t) ==
    \/ Check(t) \/ WaitDirty(t) \/ TryHold(t) \/ Assigned(t)
    \/ \E k \in 1..TxSpace : Dirty(t, k)
    \/ WrlogCount(t) \/ WrlogCountTotal(t) \/ Commit(t)

SyncStep ==
    \/ SyncBegin \/ SyncShoreUp \/ SyncNextPass \/ SyncDone
    \/ \E k \in 1..TxSpace + SyncSpace : SyncWriteDone(k) \/ SyncDirty(k)

Next ==
    \/ \E t \in Threads :
        \/ \E wait \in BOOLEAN : Create(t, wait)
        \/ \E k \in 1..TxSpace : Shrink(t, k) \/ Undirty(t, k)
        \/ ThreadStep(t)
    \/ TxgOpens \/ SyncStep \/ AtBound

Spec == Init /\ [][Next]_vars

(* Threads run, transactions come to an end, and txgs are opened and       *)
(* synced (Txg).                                                           *)
Fairness ==
    /\ \A t \in Threads : WF_vars(ThreadStep(t)) /\ WF_vars(Commit(t))
    /\ SF_vars(TxgOpens) /\ WF_vars(SyncStep)

FairSpec == Spec /\ Fairness

-----------------------------------------------------------------------------
SlotSum(f) == f[0] + f[1] + f[2] + f[3]

TypeOK ==
    /\ open \in Nat /\ synced \in Nat
    /\ held \in [Threads -> Nat]
    /\ phase \in [Threads -> {"none", "open", "quiesce"}]
    /\ dp_dirty_pertxg \in [Slots -> Nat] /\ dp_dirty_total \in Nat
    /\ dr_accounted \in [Slots -> Nat]
    /\ dp_wrlog_pertxg \in [Slots -> Nat] /\ dp_wrlog_total \in Nat
    /\ pc \in [Threads -> {"idle", "check", "wait", "hold", "held", "assigned", "wrlog"}]
    /\ tx \in [Threads -> Transaction]
    /\ asleep \in SUBSET Threads
    /\ syncing \in Nat /\ sync_space \in 0..SyncSpace
    /\ sync_st \in {"idle", "write", "tasks"}

(* The pool's total is the sum of the txgs', and each txg counts at least  *)
(* what its dirty records account for: dsl_pool_undirty_space() never      *)
(* meets less than it takes off ("XXX writing something we didn't dirty?") *)
(* and its ASSERTs hold, whatever leaked.  A ring slot is handed to its    *)
(* next txg with nothing in it: only the txgs after the last synced one,   *)
(* up to the open one, have dirty data or logged writes.                   *)
Accounting ==
    /\ TypeOK
    /\ dp_dirty_total = SlotSum(dp_dirty_pertxg)
    /\ \A s \in Slots : dr_accounted[s] <= dp_dirty_pertxg[s]
    /\ \A s \in Slots :
        (\A txg \in synced + 1 .. open : Slot(txg) # s) =>
            dp_dirty_pertxg[s] = 0 /\ dr_accounted[s] = 0 /\ dp_wrlog_pertxg[s] = 0

(* dsl_pool_wrlog_clear() takes off the total only what was added to it:   *)
(* the total lags behind the txgs' sums by the calls that are between the  *)
(* two additions, and none of those is for the txg being synced.           *)
WrlogExact ==
    /\ dp_wrlog_total + Cardinality({t \in Threads : pc[t] = "wrlog"})
            = SlotSum(dp_wrlog_pertxg)
    /\ syncing # 0 => \A t \in Threads : pc[t] = "wrlog" => held[t] # syncing

(* How far the pool can go over zfs_dirty_data_max, although the total is  *)
(* tested without dp_lock and long before the data is dirtied: by one      *)
(* transaction of each thread, and by what syncing itself dirties.         *)
OvershootBounded ==
    dp_dirty_total < DirtyMax + Cardinality(Threads) * TxSpace + SyncSpace

(* "This ensures forward progress -- each thread wakes the next waiter"    *)
(* (dsl_pool_dirty_delta): no thread sleeps in dmu_tx_wait() for ever      *)
(* while the total is below the limit.                                     *)
ForwardProgress ==
    \A t \in Threads :
        (t \in asleep /\ dp_dirty_total < DirtyMax)
            ~> (t \notin asleep \/ dp_dirty_total >= DirtyMax)
=============================================================================
