--------------------------------- MODULE Txg ---------------------------------
(***************************************************************************)
(* The transaction-group pipeline of a pool (module/zfs/txg.c):            *)
(*                                                                         *)
(*     open --> quiescing --> quiesced --> syncing --> synced              *)
(*                                                                         *)
(* driven by two kernel threads (quiesce and sync) and used by any number  *)
(* of client threads that hold transaction handles or wait for a txg.      *)
(*                                                                         *)
(* tx_sync_lock is held by at most one thread, so each of its critical     *)
(* sections is one step; condition variables are explicit (a thread that   *)
(* sleeps runs again only after a broadcast on its variable), so a missing *)
(* broadcast is a hang of the model too.  tc_open_lock is held across      *)
(* calls and is explicit.  tx_open_txg is written under all tc_open_locks  *)
(* and *not* under tx_sync_lock.                                           *)
(***************************************************************************)
EXTENDS Integers, FiniteSets

CONSTANTS
    Threads,        \* client threads
    NCpus,          \* max_ncpus
    InitTxg,        \* the txg passed to txg_init()
    MaxTxg,         \* bound: tx_open_txg is not advanced past it
    MaxSuspends,    \* bound: how often the pool is suspended
    ClientOps,      \* the calls each client thread makes
    NoOwner,        \* a mutex nobody holds
    Quiescer        \* the quiesce thread, as the owner of a mutex

Cpus == 1..NCpus

TXG_SIZE == 4
TXG_DEFER_SIZE == 2
Slot(txg) == txg % TXG_SIZE        \* txg & TXG_MASK
Slots == 0..3

ASSUME TxgAssumption ==
    /\ NCpus \in Nat \ {0}
    /\ InitTxg \in Nat \ {0}
    /\ MaxTxg \in Nat
    /\ MaxSuspends \in Nat
    /\ IsFiniteSet(Threads)
    /\ NoOwner \notin Threads
    /\ Quiescer \notin Threads
    /\ NoOwner # Quiescer

VARIABLES
    tx_open_txg, tx_quiescing_txg, tx_quiesced_txg, tx_syncing_txg,
    tx_synced_txg, tx_sync_txg_waiting, tx_quiesce_txg_waiting,
    tx_threads, tx_exiting,
    tc_open_lock,   \* owner of each CPU's tc_open_lock
    tc_count,       \* handles per CPU and ring slot
    tc_callbacks,   \* commit callbacks per CPU and slot, each named by its txg
    cb_taskq,       \* callbacks dispatched to tx_commit_cb_taskq
    sync_pc,        \* where txg_sync_thread is
    sync_due,       \* its timer has run out, or a scan is active
    q_pc, q_cpu,    \* where txg_quiesce_thread is, and its loop index c
    th_st,          \* what each client thread is doing
    th_cpu, th_txg, \* its handle (or, while it waits, the txg waited for)
    asleep,         \* client threads blocked in cv_wait
    suspended,      \* spa_suspended()
    suspends

txgVars == <<tx_open_txg, tx_quiescing_txg, tx_quiesced_txg, tx_syncing_txg,
             tx_synced_txg>>
waitVars == <<tx_sync_txg_waiting, tx_quiesce_txg_waiting>>
exitVars == <<tx_threads, tx_exiting>>
cbVars == <<tc_callbacks, cb_taskq>>
thVars == <<th_st, th_cpu, th_txg, asleep>>
susVars == <<suspended, suspends>>
vars == <<txgVars, waitVars, exitVars, tc_open_lock, tc_count, cbVars,
          sync_pc, sync_due, q_pc, q_cpu, thVars, susVars>>

-----------------------------------------------------------------------------
Larger(a, b) == IF a >= b THEN a ELSE b

(* The sync thread spins on spa_suspended() with tx_sync_lock held.        *)
SyncLockFree == sync_pc # "spin"

(* cv_broadcast on tx_sync_more_cv, tx_quiesce_done_cv (sync thread),      *)
(* tx_quiesce_more_cv (quiesce thread).                                    *)
SyncMore(pc) == IF pc = "idle" THEN "top" ELSE pc
QuiesceDone(pc) == IF pc = "qdone" THEN "handoff" ELSE pc
QuiesceMore(pc) == IF pc = "wait" THEN "top" ELSE pc

(* The client threads that sleep on each condition variable.               *)
(* Mutant: nobody is woken by the broadcast.                               *)
OnSyncDoneLost == {t \in asleep : FALSE}

OnSyncDone == {t \in asleep : th_st[t] \in {"wait_synced", "wait_sig", "stop_sync"}}
OnQuiesceDone == {t \in asleep : th_st[t] = "wait_open"}
OnExit == {t \in asleep : th_st[t] = "stop_exit"}

Holds(t) == th_st[t] \in {"open", "quiesce"}
Stopping == \E t \in Threads : th_st[t] \in {"stop_sync", "stop_kill", "stop_exit", "stopped"}

Init ==
    /\ tx_open_txg = InitTxg
    /\ tx_quiescing_txg = 0
    /\ tx_quiesced_txg = 0
    /\ tx_syncing_txg = 0
    /\ tx_synced_txg = 0
    /\ tx_sync_txg_waiting = 0
    /\ tx_quiesce_txg_waiting = 0
    /\ tx_threads = 2
    /\ tx_exiting = FALSE
    /\ tc_open_lock = [c \in Cpus |-> NoOwner]
    /\ tc_count = [c \in Cpus |-> [g \in Slots |-> 0]]
    /\ tc_callbacks = [c \in Cpus |-> [g \in Slots |-> {}]]
    /\ cb_taskq = {}
    /\ sync_pc = "top"
    /\ sync_due = TRUE
    /\ q_pc = "top"
    /\ q_cpu = 1
    /\ th_st = [t \in Threads |-> "idle"]
    /\ th_cpu = [t \in Threads |-> 0]
    /\ th_txg = [t \in Threads |-> 0]
    /\ asleep = {}
    /\ suspended = FALSE
    /\ suspends = 0

-----------------------------------------------------------------------------
(* Transaction handles.                                                    *)

(* The caller runs on CPU c.  tc_open_lock is kept when the call returns.  *)
HoldOpen(t, c) ==
    /\ "hold" \in ClientOps[t]
    /\ th_st[t] = "idle"
    /\ ~Stopping
    /\ tc_open_lock[c] = NoOwner
    /\ tc_open_lock' = [tc_open_lock EXCEPT ![c] = t]
    /\ tc_count' = [tc_count EXCEPT ![c][Slot(tx_open_txg)] = @ + 1]
    /\ th_st' = [th_st EXCEPT ![t] = "open"]
    /\ th_cpu' = [th_cpu EXCEPT ![t] = c]
    /\ th_txg' = [th_txg EXCEPT ![t] = tx_open_txg]
    /\ UNCHANGED <<txgVars, waitVars, exitVars, cbVars, sync_pc, sync_due,
                   q_pc, q_cpu, asleep, susVars>>

ReleToQuiesce(t) ==
    /\ th_st[t] = "open"
    /\ tc_open_lock' = [tc_open_lock EXCEPT ![th_cpu[t]] = NoOwner]
    /\ th_st' = [th_st EXCEPT ![t] = "quiesce"]
    /\ UNCHANGED <<txgVars, waitVars, exitVars, tc_count, cbVars, sync_pc,
                   sync_due, q_pc, q_cpu, th_cpu, th_txg, asleep, susVars>>

(* Mutant: the callbacks go to the slot of the txg that is open now.       *)
RegisterCallbacksOpen(t) ==
    /\ "callback" \in ClientOps[t] /\ th_st[t] = "quiesce"
    /\ tc_callbacks' = [tc_callbacks EXCEPT
            ![th_cpu[t]][Slot(tx_open_txg)] = @ \cup {th_txg[t]}]
    /\ UNCHANGED <<txgVars, waitVars, exitVars, tc_open_lock, tc_count, cb_taskq,
                   sync_pc, sync_due, q_pc, q_cpu, thVars, susVars>>

RegisterCallbacks(t) ==
    /\ "callback" \in ClientOps[t]
    /\ th_st[t] = "quiesce"
    /\ tc_callbacks' = [tc_callbacks EXCEPT
            ![th_cpu[t]][Slot(th_txg[t])] = @ \cup {th_txg[t]}]
    /\ UNCHANGED <<txgVars, waitVars, exitVars, tc_open_lock, tc_count, cb_taskq,
                   sync_pc, sync_due, q_pc, q_cpu, thVars, susVars>>

(* The quiesce thread sleeps on tc_cv[g] of the CPU it is draining, if any. *)
WakesDrain(t) ==
    /\ q_pc = "drainwait"
    /\ q_cpu = th_cpu[t]
    /\ Slot(tx_quiescing_txg) = Slot(th_txg[t])
    /\ tc_count[th_cpu[t]][Slot(th_txg[t])] = 1

ReleToSync(t) ==
    /\ th_st[t] = "quiesce"
    /\ tc_count' = [tc_count EXCEPT ![th_cpu[t]][Slot(th_txg[t])] = @ - 1]
    /\ q_pc' = IF WakesDrain(t) THEN "drain" ELSE q_pc
    /\ th_st' = [th_st EXCEPT ![t] = "idle"]
    /\ th_cpu' = [th_cpu EXCEPT ![t] = 0]
    /\ th_txg' = [th_txg EXCEPT ![t] = 0]
    /\ UNCHANGED <<txgVars, waitVars, exitVars, tc_open_lock, cbVars, sync_pc,
                   sync_due, q_cpu, asleep, susVars>>

-----------------------------------------------------------------------------
(* Waiting for a txg.  The first operand of each loop is what the caller   *)
(* waits for; the loop body broadcasts and sleeps.                         *)

Returned(st) == IF st = "stop_sync" THEN "stop_kill" ELSE "idle"

SyncedLoop(t, txg, st) ==
    IF tx_synced_txg < txg
    THEN /\ sync_pc' = SyncMore(sync_pc)
         /\ th_st' = [th_st EXCEPT ![t] = st]
         /\ th_txg' = [th_txg EXCEPT ![t] = txg]
         /\ asleep' = asleep \cup {t}
    ELSE /\ th_st' = [th_st EXCEPT ![t] = Returned(st)]
         /\ th_txg' = [th_txg EXCEPT ![t] = 0]
         /\ UNCHANGED <<sync_pc, asleep>>

(* txg_wait_synced_impl(txg): 0 stands for everything deferred so far.     *)
WaitSynced(t, n, st) ==
    /\ SyncLockFree
    /\ LET txg == IF n = 0 THEN tx_open_txg + TXG_DEFER_SIZE ELSE n IN
       /\ txg < MaxTxg
       /\ tx_sync_txg_waiting' = Larger(tx_sync_txg_waiting, txg)
       /\ SyncedLoop(t, txg, st)
    /\ UNCHANGED <<txgVars, tx_quiesce_txg_waiting, exitVars, tc_open_lock,
                   tc_count, cbVars, sync_due, q_pc, q_cpu, th_cpu, susVars>>

CallWaitSynced(t, n) ==
    /\ "wait_synced" \in ClientOps[t]
    /\ th_st[t] = "idle"
    /\ ~Stopping
    /\ WaitSynced(t, n, "wait_synced")

CallWaitSyncedSig(t, n) ==
    /\ "wait_sig" \in ClientOps[t]
    /\ th_st[t] = "idle"
    /\ ~Stopping
    /\ WaitSynced(t, n, "wait_sig")

(* Awake after a broadcast of tx_sync_done_cv: test again.                 *)
WaitSyncedAgain(t) ==
    /\ SyncLockFree
    /\ th_st[t] \in {"wait_synced", "wait_sig", "stop_sync"}
    /\ t \notin asleep
    /\ SyncedLoop(t, th_txg[t], th_st[t])
    /\ UNCHANGED <<txgVars, waitVars, exitVars, tc_open_lock, tc_count, cbVars,
                   sync_due, q_pc, q_cpu, th_cpu, susVars>>

(* cv_wait_io_sig() returned 0: the call returns with its txg not synced.  *)
WaitSyncedSignalled(t) ==
    /\ SyncLockFree
    /\ th_st[t] = "wait_sig"
    /\ t \in asleep
    /\ asleep' = asleep \ {t}
    /\ th_st' = [th_st EXCEPT ![t] = "idle"]
    /\ th_txg' = [th_txg EXCEPT ![t] = 0]
    /\ UNCHANGED <<txgVars, waitVars, exitVars, tc_open_lock, tc_count, cbVars,
                   sync_pc, sync_due, q_pc, q_cpu, th_cpu, susVars>>

OpenLoop(t, txg) ==
    IF tx_open_txg < txg
    THEN /\ q_pc' = QuiesceMore(q_pc)
         /\ th_st' = [th_st EXCEPT ![t] = "wait_open"]
         /\ th_txg' = [th_txg EXCEPT ![t] = txg]
         /\ asleep' = asleep \cup {t}
    ELSE /\ th_st' = [th_st EXCEPT ![t] = "idle"]
         /\ th_txg' = [th_txg EXCEPT ![t] = 0]
         /\ UNCHANGED <<q_pc, asleep>>

WaitOpen(t, n, should_quiesce) ==
    /\ "wait_open" \in ClientOps[t]
    /\ th_st[t] = "idle"
    /\ ~Stopping
    /\ SyncLockFree
    /\ LET txg == IF n = 0 THEN tx_open_txg + 1 ELSE n IN
       /\ txg <= MaxTxg
       /\ tx_quiesce_txg_waiting' = IF should_quiesce
                                    THEN Larger(tx_quiesce_txg_waiting, txg)
                                    ELSE tx_quiesce_txg_waiting
       /\ OpenLoop(t, txg)
    /\ UNCHANGED <<txgVars, tx_sync_txg_waiting, exitVars, tc_open_lock, tc_count,
                   cbVars, sync_pc, sync_due, q_cpu, th_cpu, susVars>>

WaitOpenAgain(t) ==
    /\ SyncLockFree
    /\ th_st[t] = "wait_open"
    /\ t \notin asleep
    /\ OpenLoop(t, th_txg[t])
    /\ UNCHANGED <<txgVars, waitVars, exitVars, tc_open_lock, tc_count, cbVars,
                   sync_pc, sync_due, q_cpu, th_cpu, susVars>>

(* A transaction kicks its own txg (dsl_pool_dirty_space).                 *)
Kick(t) ==
    /\ "kick" \in ClientOps[t]
    /\ th_st[t] = "quiesce"
    /\ SyncLockFree
    /\ tx_sync_txg_waiting < th_txg[t]
    /\ tx_sync_txg_waiting' = th_txg[t]
    /\ sync_pc' = SyncMore(sync_pc)
    /\ UNCHANGED <<txgVars, tx_quiesce_txg_waiting, exitVars, tc_open_lock,
                   tc_count, cbVars, sync_due, q_pc, q_cpu, thVars, susVars>>

-----------------------------------------------------------------------------
(* txg_sync_stop(), called when nobody else uses the pool any more.        *)

(* Mutant: waits for the txgs before the open one only.                    *)
SyncStopEarly(t) ==
    /\ "stop" \in ClientOps[t]
    /\ \A u \in Threads : th_st[u] = "idle"
    /\ WaitSynced(t, tx_open_txg - 1, "stop_sync")

SyncStop(t) ==
    /\ "stop" \in ClientOps[t]
    /\ \A u \in Threads : th_st[u] = "idle"
    /\ WaitSynced(t, tx_open_txg + TXG_DEFER_SIZE, "stop_sync")

(* Mutant: no broadcast of tx_quiesce_done_cv.                             *)
SyncStopKillNoQuiesceDone(t) ==
    /\ SyncLockFree /\ th_st[t] = "stop_kill"
    /\ tx_exiting' = TRUE
    /\ q_pc' = QuiesceMore(q_pc)
    /\ sync_pc' = SyncMore(sync_pc)
    /\ th_st' = [th_st EXCEPT ![t] = "stop_exit"]
    /\ asleep' = asleep \cup {t}
    /\ UNCHANGED <<txgVars, waitVars, tx_threads, tc_open_lock, tc_count, cbVars,
                   sync_due, q_cpu, th_cpu, th_txg, susVars>>

SyncStopKill(t) ==
    /\ SyncLockFree
    /\ th_st[t] = "stop_kill"
    /\ tx_exiting' = TRUE
    /\ q_pc' = QuiesceMore(q_pc)
    /\ sync_pc' = QuiesceDone(SyncMore(sync_pc))
    /\ th_st' = [th_st EXCEPT ![t] = "stop_exit"]
    /\ asleep' = (asleep \ OnQuiesceDone) \cup {t}
    /\ UNCHANGED <<txgVars, waitVars, tx_threads, tc_open_lock, tc_count, cbVars,
                   sync_due, q_cpu, th_cpu, th_txg, susVars>>

SyncStopExit(t) ==
    /\ SyncLockFree
    /\ th_st[t] = "stop_exit"
    /\ t \notin asleep
    /\ IF tx_threads # 0
       THEN /\ asleep' = asleep \cup {t}
            /\ UNCHANGED <<tx_exiting, th_st>>
       ELSE /\ tx_exiting' = FALSE
            /\ th_st' = [th_st EXCEPT ![t] = "stopped"]
            /\ UNCHANGED asleep
    /\ UNCHANGED <<txgVars, waitVars, tx_threads, tc_open_lock, tc_count, cbVars,
                   sync_pc, sync_due, q_pc, q_cpu, th_cpu, th_txg, susVars>>

-----------------------------------------------------------------------------
(* txg_sync_thread().                                                      *)

(* The condition of its first loop: nothing to sync yet.                   *)
SyncIdle ==
    /\ ~sync_due
    /\ ~tx_exiting
    /\ tx_synced_txg >= tx_sync_txg_waiting
    /\ tx_quiesced_txg = 0

SyncThreadIdle ==
    /\ sync_pc = "top"
    /\ SyncIdle
    /\ sync_pc' = "idle"
    /\ UNCHANGED <<txgVars, waitVars, exitVars, tc_open_lock, tc_count, cbVars,
                   sync_due, q_pc, q_cpu, thVars, susVars>>

(* Mutant: the wait has no timeout.                                        *)
SyncThreadNoTimeout ==
    /\ sync_pc = "idle"
    /\ sync_pc' = "top"
    /\ UNCHANGED <<txgVars, waitVars, exitVars, tc_open_lock, tc_count, cbVars,
                   sync_due, q_pc, q_cpu, thVars, susVars>>

(* cv_timedwait_idle() timed out after zfs_txg_timeout, or a scan began.   *)
SyncThreadTimeout ==
    /\ sync_pc = "idle"
    /\ sync_pc' = "top"
    /\ sync_due' = TRUE
    /\ UNCHANGED <<txgVars, waitVars, exitVars, tc_open_lock, tc_count, cbVars,
                   q_pc, q_cpu, thVars, susVars>>

(* "continue" while suspended: the thread loops without dropping the lock. *)
SyncThreadSuspended ==
    /\ sync_pc = "top"
    /\ ~SyncIdle
    /\ suspended
    /\ sync_pc' = "spin"
    /\ UNCHANGED <<txgVars, waitVars, exitVars, tc_open_lock, tc_count, cbVars,
                   sync_due, q_pc, q_cpu, thVars, susVars>>

(* At its second loop, the one that waits for a quiesced txg.              *)
AtHandoff ==
    \/ sync_pc = "handoff"
    \/ /\ sync_pc \in {"top", "spin"}
       /\ ~SyncIdle
       /\ ~suspended

SyncThreadPrompt ==
    /\ AtHandoff
    /\ ~tx_exiting
    /\ tx_quiesced_txg = 0
    /\ IF tx_quiescing_txg # 0
       THEN UNCHANGED <<tx_quiesce_txg_waiting, q_pc>>
       ELSE /\ tx_quiesce_txg_waiting' = Larger(tx_quiesce_txg_waiting, tx_open_txg + 1)
            /\ q_pc' = QuiesceMore(q_pc)
    /\ sync_pc' = "qdone"
    /\ UNCHANGED <<txgVars, tx_sync_txg_waiting, exitVars, tc_open_lock, tc_count,
                   cbVars, sync_due, q_cpu, thVars, susVars>>

SyncThreadExit ==
    /\ AtHandoff
    /\ tx_exiting
    /\ tx_threads' = tx_threads - 1
    /\ asleep' = asleep \ OnExit
    /\ sync_pc' = "exit"
    /\ UNCHANGED <<txgVars, waitVars, tx_exiting, tc_open_lock, tc_count, cbVars,
                   sync_due, q_pc, q_cpu, th_st, th_cpu, th_txg, susVars>>

SyncThreadBegin ==
    /\ AtHandoff
    /\ ~tx_exiting
    /\ tx_quiesced_txg # 0
    /\ tx_syncing_txg' = tx_quiesced_txg
    /\ tx_quiesced_txg' = 0
    /\ q_pc' = QuiesceMore(q_pc)
    /\ sync_pc' = "sync"
    /\ UNCHANGED <<tx_open_txg, tx_quiescing_txg, tx_synced_txg, waitVars, exitVars,
                   tc_open_lock, tc_count, cbVars, sync_due, q_cpu, thVars, susVars>>

(* All callback lists of the txg's slot go to the taskq.                   *)
DispatchCallbacks(txg) ==
    /\ cb_taskq' = cb_taskq \cup UNION {tc_callbacks[c][Slot(txg)] : c \in Cpus}
    /\ tc_callbacks' = [c \in Cpus |-> [tc_callbacks[c] EXCEPT ![Slot(txg)] = {}]]

(* spa_sync() returned (it may have taken longer than zfs_txg_timeout);    *)
(* txg_dispatch_callbacks() runs in the same critical section.             *)
SyncThreadDone ==
    /\ sync_pc = "sync"
    /\ tx_synced_txg' = tx_syncing_txg
    /\ tx_syncing_txg' = 0
    /\ asleep' = asleep \ OnSyncDone
    /\ DispatchCallbacks(tx_syncing_txg)
    /\ sync_due' \in BOOLEAN
    /\ sync_pc' = "top"
    /\ UNCHANGED <<tx_open_txg, tx_quiescing_txg, tx_quiesced_txg, waitVars, exitVars,
                   tc_open_lock, tc_count, q_pc, q_cpu, th_st, th_cpu, th_txg, susVars>>

(* A tx_commit_cb worker runs one list of callbacks (txg_do_callbacks).    *)
DoCallbacks(txg) ==
    /\ txg \in cb_taskq
    /\ cb_taskq' = cb_taskq \ {txg}
    /\ UNCHANGED <<txgVars, waitVars, exitVars, tc_open_lock, tc_count, tc_callbacks,
                   sync_pc, sync_due, q_pc, q_cpu, thVars, susVars>>

-----------------------------------------------------------------------------
(* txg_quiesce_thread() and txg_quiesce().                                 *)

QuiesceIdle ==
    /\ ~tx_exiting
    /\ \/ tx_open_txg >= tx_quiesce_txg_waiting
       \/ tx_quiesced_txg # 0

QuiesceThreadWait ==
    /\ SyncLockFree
    /\ q_pc = "top"
    /\ QuiesceIdle
    /\ q_pc' = "wait"
    /\ UNCHANGED <<txgVars, waitVars, exitVars, tc_open_lock, tc_count, cbVars,
                   sync_pc, sync_due, q_cpu, thVars, susVars>>

QuiesceThreadExit ==
    /\ SyncLockFree
    /\ q_pc = "top"
    /\ tx_exiting
    /\ tx_threads' = tx_threads - 1
    /\ asleep' = asleep \ OnExit
    /\ q_pc' = "exit"
    /\ UNCHANGED <<txgVars, waitVars, tx_exiting, tc_open_lock, tc_count, cbVars,
                   sync_pc, sync_due, q_cpu, th_st, th_cpu, th_txg, susVars>>

QuiesceThreadBegin ==
    /\ SyncLockFree
    /\ q_pc = "top"
    /\ ~tx_exiting
    /\ ~QuiesceIdle
    /\ tx_open_txg < MaxTxg
    /\ tx_quiescing_txg' = tx_open_txg
    /\ q_pc' = "lock"
    /\ q_cpu' = 1
    /\ UNCHANGED <<tx_open_txg, tx_quiesced_txg, tx_syncing_txg, tx_synced_txg,
                   waitVars, exitVars, tc_open_lock, tc_count, cbVars, sync_pc,
                   sync_due, thVars, susVars>>

(* Mutant: takes the mutex from its owner.                                 *)
QuiesceLockSteal ==
    /\ q_pc = "lock"
    /\ q_cpu \in Cpus
    /\ tc_open_lock' = [tc_open_lock EXCEPT ![q_cpu] = Quiescer]
    /\ q_cpu' = q_cpu + 1
    /\ UNCHANGED <<txgVars, waitVars, exitVars, tc_count, cbVars, sync_pc, sync_due,
                   q_pc, thVars, susVars>>

QuiesceLock ==
    /\ q_pc = "lock"
    /\ q_cpu \in Cpus
    /\ tc_open_lock[q_cpu] = NoOwner
    /\ tc_open_lock' = [tc_open_lock EXCEPT ![q_cpu] = Quiescer]
    /\ q_cpu' = q_cpu + 1
    /\ UNCHANGED <<txgVars, waitVars, exitVars, tc_count, cbVars, sync_pc, sync_due,
                   q_pc, thVars, susVars>>

(* With all tc_open_locks held: advance tx_open_txg and drop the locks.    *)
QuiesceOpenNext ==
    /\ q_pc = "lock"
    /\ q_cpu = NCpus + 1
    /\ tx_open_txg' = tx_open_txg + 1
    /\ tc_open_lock' = [c \in Cpus |-> NoOwner]
    /\ q_pc' = "drain"
    /\ q_cpu' = 1
    /\ UNCHANGED <<tx_quiescing_txg, tx_quiesced_txg, tx_syncing_txg, tx_synced_txg,
                   waitVars, exitVars, tc_count, cbVars, sync_pc, sync_due, thVars,
                   susVars>>

(* Mutant: does not wait for the handles of the last CPU.                  *)
QuiesceDrainShort ==
    /\ q_pc = "drain"
    /\ q_cpu \in Cpus
    /\ IF q_cpu # NCpus /\ tc_count[q_cpu][Slot(tx_quiescing_txg)] # 0
       THEN q_pc' = "drainwait" /\ UNCHANGED q_cpu
       ELSE q_cpu' = q_cpu + 1 /\ UNCHANGED q_pc
    /\ UNCHANGED <<txgVars, waitVars, exitVars, tc_open_lock, tc_count, cbVars,
                   sync_pc, sync_due, thVars, susVars>>

QuiesceDrain ==
    /\ q_pc = "drain"
    /\ q_cpu \in Cpus
    /\ IF tc_count[q_cpu][Slot(tx_quiescing_txg)] # 0
       THEN /\ q_pc' = "drainwait"
            /\ UNCHANGED q_cpu
       ELSE /\ q_cpu' = q_cpu + 1
            /\ UNCHANGED q_pc
    /\ UNCHANGED <<txgVars, waitVars, exitVars, tc_open_lock, tc_count, cbVars,
                   sync_pc, sync_due, thVars, susVars>>

QuiesceHandoff ==
    /\ SyncLockFree
    /\ q_pc = "drain"
    /\ q_cpu = NCpus + 1
    /\ tx_quiesced_txg' = tx_quiescing_txg
    /\ tx_quiescing_txg' = 0
    /\ sync_pc' = QuiesceDone(SyncMore(sync_pc))
    /\ asleep' = asleep \ OnQuiesceDone
    /\ q_pc' = "top"
    /\ q_cpu' = 1
    /\ UNCHANGED <<tx_open_txg, tx_syncing_txg, tx_synced_txg, waitVars, exitVars,
                   tc_open_lock, tc_count, cbVars, sync_due, th_st, th_cpu, th_txg,
                   susVars>>

-----------------------------------------------------------------------------
(* zio_suspend() and zio_resume(); neither takes tx_sync_lock.             *)
Suspend ==
    /\ ~suspended
    /\ suspends < MaxSuspends
    /\ suspended' = TRUE
    /\ suspends' = suspends + 1
    /\ UNCHANGED <<txgVars, waitVars, exitVars, tc_open_lock, tc_count, cbVars,
                   sync_pc, sync_due, q_pc, q_cpu, thVars>>

Resume ==
    /\ suspended
    /\ suspended' = FALSE
    /\ UNCHANGED <<txgVars, waitVars, exitVars, tc_open_lock, tc_count, cbVars,
                   sync_pc, sync_due, q_pc, q_cpu, thVars, suspends>>

-----------------------------------------------------------------------------
(* The txgs callers wait for: 0, the one they hold, or the next one.       *)
Targets == {0, tx_open_txg, tx_open_txg + 1}

SyncThread ==
    \/ SyncThreadIdle \/ SyncThreadTimeout \/ SyncThreadSuspended
    \/ SyncThreadPrompt \/ SyncThreadExit \/ SyncThreadBegin \/ SyncThreadDone

QuiesceThread ==
    \/ QuiesceThreadWait \/ QuiesceThreadExit \/ QuiesceThreadBegin
    \/ QuiesceLock \/ QuiesceOpenNext \/ QuiesceDrain \/ QuiesceHandoff

ClientThread(t) ==
    \/ \E c \in Cpus : HoldOpen(t, c)
    \/ ReleToQuiesce(t) \/ RegisterCallbacks(t) \/ ReleToSync(t)
    \/ \E n \in Targets : CallWaitSynced(t, n) \/ CallWaitSyncedSig(t, n)
    \/ WaitSyncedAgain(t) \/ WaitSyncedSignalled(t)
    \/ \E n \in Targets, b \in BOOLEAN : WaitOpen(t, n, b)
    \/ WaitOpenAgain(t) \/ Kick(t)
    \/ SyncStop(t) \/ SyncStopKill(t) \/ SyncStopExit(t)

(* The pool has been stopped: both threads have exited.                    *)
Stopped ==
    /\ \E t \in Threads : th_st[t] = "stopped"
    /\ UNCHANGED vars

Next ==
    \/ SyncThread
    \/ QuiesceThread
    \/ \E t \in Threads : ClientThread(t)
    \/ \E txg \in cb_taskq : DoCallbacks(txg)
    \/ Suspend
    \/ Resume
    \/ Stopped

Spec == Init /\ [][Next]_vars

(* What the scheduling gives: the kernel threads run, a blocked            *)
(* mutex_enter() is not overtaken for ever, transactions finish, woken     *)
(* waiters run, and a suspended pool is resumed.  spa_sync() is only       *)
(* promised to return while the pool is not suspended.                     *)
Fairness ==
    /\ WF_vars(SyncThreadIdle) /\ WF_vars(SyncThreadTimeout)
    /\ WF_vars(SyncThreadSuspended) /\ WF_vars(SyncThreadPrompt)
    /\ WF_vars(SyncThreadExit) /\ WF_vars(SyncThreadBegin)
    /\ WF_vars(SyncThreadDone /\ ~suspended)
    /\ WF_vars(QuiesceThreadWait) /\ WF_vars(QuiesceThreadExit)
    /\ WF_vars(QuiesceThreadBegin) /\ SF_vars(QuiesceLock)
    /\ WF_vars(QuiesceOpenNext) /\ WF_vars(QuiesceDrain) /\ WF_vars(QuiesceHandoff)
    /\ \A t \in Threads :
        /\ WF_vars(ReleToQuiesce(t)) /\ WF_vars(ReleToSync(t))
        /\ WF_vars(WaitSyncedAgain(t)) /\ WF_vars(WaitOpenAgain(t))
        /\ WF_vars(SyncStopKill(t)) /\ WF_vars(SyncStopExit(t))
    /\ WF_vars(Resume)

FairSpec == Spec /\ Fairness

-----------------------------------------------------------------------------
ThreadStates == {"idle", "open", "quiesce", "wait_synced", "wait_sig", "wait_open",
                 "stop_sync", "stop_kill", "stop_exit", "stopped"}

SyncStates == {"top", "idle", "spin", "handoff", "qdone", "sync", "exit"}
QuiesceStates == {"top", "wait", "lock", "drain", "drainwait", "exit"}

(* Type invariant of the tx_state_t, the tx_cpu_t's and the threads.       *)
TypeOK ==
    /\ tx_open_txg \in Nat /\ tx_quiescing_txg \in Nat /\ tx_quiesced_txg \in Nat
    /\ tx_syncing_txg \in Nat /\ tx_synced_txg \in Nat
    /\ tx_sync_txg_waiting \in Nat /\ tx_quiesce_txg_waiting \in Nat
    /\ tx_threads \in Int /\ tx_exiting \in BOOLEAN
    /\ tc_open_lock \in [Cpus -> Threads \cup {NoOwner, Quiescer}]
    /\ tc_count \in [Cpus -> [Slots -> Int]]
    /\ tc_callbacks \in [Cpus -> [Slots -> SUBSET Nat]]
    /\ cb_taskq \in SUBSET Nat
    /\ sync_pc \in SyncStates
    /\ sync_due \in BOOLEAN
    /\ q_pc \in QuiesceStates
    /\ q_cpu \in 1..(NCpus + 1)
    /\ th_st \in [Threads -> ThreadStates]
    /\ th_cpu \in [Threads -> 0..NCpus]
    /\ th_txg \in [Threads -> Nat]
    /\ asleep \in SUBSET Threads
    /\ suspended \in BOOLEAN /\ suspends \in Nat

(* The txgs in flight are consecutive: the ones quiescing or quiesced,     *)
(* syncing and synced follow the open one without a gap, at most one txg   *)
(* is quiescing or quiesced, and none is in two states (txg.c 30-109).     *)
(* tx_synced_txg is 0 until the first txg of this import has been synced.  *)
Draining == q_pc \in {"drain", "drainwait"}
Behind == IF Draining \/ tx_quiesced_txg # 0 THEN tx_open_txg - 2 ELSE tx_open_txg - 1
LastDone == IF tx_syncing_txg # 0 THEN Behind - 1 ELSE Behind
Pipeline ==
    /\ tx_quiescing_txg = IF q_pc = "lock" THEN tx_open_txg
                          ELSE IF Draining THEN tx_open_txg - 1 ELSE 0
    /\ tx_quiesced_txg # 0 => /\ tx_quiescing_txg = 0
                              /\ tx_quiesced_txg = tx_open_txg - 1
    /\ tx_syncing_txg # 0 => tx_syncing_txg = Behind
    /\ tx_synced_txg = IF LastDone < InitTxg THEN 0 ELSE LastDone

(* The guarantee of txg_hold_open(): the txg of a handle stays open until  *)
(* txg_rele_to_quiesce(), and from then on it does not leave the quiescing *)
(* state until txg_rele_to_sync(): it is never quiesced, syncing, synced.  *)
HandlesHoldTxg ==
    \A t \in Threads :
        /\ th_st[t] = "open" => th_txg[t] = tx_open_txg
        /\ th_st[t] = "quiesce" =>
                \/ th_txg[t] = tx_open_txg
                \/ Draining /\ th_txg[t] = tx_quiescing_txg

(* tc_count[g] is the number of handles on that CPU whose txg uses slot g. *)
HandlesIn(c, g) == {t \in Threads : Holds(t) /\ th_cpu[t] = c /\ Slot(th_txg[t]) = g}
CountsAreHandles ==
    \A c \in Cpus, g \in Slots : tc_count[c][g] = Cardinality(HandlesIn(c, g))

(* Who may own a tc_open_lock: a handle that is still open owns its CPU's  *)
(* lock, and the quiesce thread owns those it has taken so far.            *)
LockOwners ==
    /\ \A t \in Threads :
        /\ Holds(t) => th_cpu[t] \in Cpus
        /\ th_st[t] = "open" => tc_open_lock[th_cpu[t]] = t
    /\ q_pc = "lock" => \A c \in 1..(q_cpu - 1) : tc_open_lock[c] = Quiescer

(* The CPUs txg_quiesce() has drained hold no handle of the quiescing txg. *)
Drained ==
    Draining => \A t \in Threads :
        Holds(t) /\ th_txg[t] = tx_quiescing_txg => th_cpu[t] >= q_cpu

(* The progress of the sync thread, and the first txgs of an import.       *)
SyncProgress ==
    /\ sync_pc = "sync" <=> tx_syncing_txg # 0
    /\ LastDone >= InitTxg - 1

(* A callback waits in the slot of its txg, which is active.               *)
CallbackSlots ==
    \A c \in Cpus, g \in Slots : \A txg \in tc_callbacks[c][g] :
        Slot(txg) = g /\ txg <= tx_open_txg /\ txg > LastDone

(* A commit callback is handed to the taskq exactly when its txg is        *)
(* synced: none before, none left behind in the slot for a later txg.      *)
CallbacksAtSync ==
    /\ \A c \in Cpus, g \in Slots : \A txg \in tc_callbacks[c][g] : txg > tx_synced_txg
    /\ \A txg \in cb_taskq : txg <= tx_synced_txg

(* The inductive invariant behind the safety properties.                  *)
IInv ==
    /\ TypeOK /\ Pipeline /\ SyncProgress /\ LockOwners /\ Drained
    /\ HandlesHoldTxg /\ CountsAreHandles /\ CallbackSlots
    /\ \A txg \in cb_taskq : txg <= tx_synced_txg

(* Nobody waits for a txg when the threads that would finish it are gone   *)
(* (ASSERT3U(tx->tx_threads, ==, 2) of the wait functions), and a stopped  *)
(* pool has no unsynced callback, open handle or running thread left.      *)
StopIsClean ==
    \A t \in Threads :
        /\ th_st[t] \in {"wait_synced", "wait_sig", "wait_open", "stop_sync", "stop_kill"}
                => tx_threads = 2
        /\ th_st[t] = "stopped" =>
                /\ tx_threads = 0
                /\ \A c \in Cpus, g \in Slots : tc_callbacks[c][g] = {} /\ tc_count[c][g] = 0

(* Every txg is synced once, in order, and the open txg never goes back    *)
(* (so txg_hold_open() returns monotonic txgs).                            *)
TxgsInOrder ==
    [][ /\ tx_open_txg' \in {tx_open_txg, tx_open_txg + 1}
        /\ tx_synced_txg' \in {tx_synced_txg, tx_synced_txg + 1}
           \/ (tx_synced_txg = 0 /\ tx_synced_txg' = InitTxg) ]_vars

(* txg_wait_synced() returns.                                              *)
WaitSyncedReturns == \A t \in Threads : th_st[t] = "wait_synced" ~> th_st[t] = "idle"

(* txg_wait_open() returns, also when should_quiesce is not set.           *)
WaitOpenReturns == \A t \in Threads : th_st[t] = "wait_open" ~> th_st[t] = "idle"

(* txg_sync_stop() returns: both threads leave their loops and exit.       *)
SyncStopReturns == \A t \in Threads : th_st[t] = "stop_sync" ~> th_st[t] = "stopped"
=============================================================================
