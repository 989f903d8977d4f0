------------------------------- MODULE ZilLwb -------------------------------
(***************************************************************************)
(* The log write blocks of zil.c: a chain of blocks on disk, each with a   *)
(* pointer to the next one.  A block is filled while it is open, closed,   *)
(* and issued once the block before it has allocated its place on disk.    *)
(* Its write and the flush of the disks' caches complete in callbacks; the *)
(* order of these follows from the zio dependencies that                   *)
(* zil_lwb_set_zio_dependency() makes.                                     *)
(*                                                                         *)
(* A block is named by its place in the order of allocation, so the lwbs   *)
(* of zl_lwb_list are the interval DOMAIN lwb, and b + 1 follows b.        *)
(***************************************************************************)
EXTENDS ZilItx

CONSTANTS
    LwbMax,             \* how many records fit in a block
    NVdevs,             \* devices the blocks are spread over
    Bounds              \* how often each bounded event may happen: alternatives

VARIABLES
    lwb,                \* zl_lwb_list
    zl_last_lwb_opened, \* 0 if none
    next_blk,           \* the name of the next block
    zl_lwb_inflight,    \* issued and not done, for each slot
    disk,               \* the log blocks whose write was issued
    written,            \* those whose write has completed without error
    stable,             \* those that a loss of power leaves in place
    budget              \* what is left of it; has an allocation or a write failed?

lwbVars == <<lwb, zl_last_lwb_opened, next_blk, zl_lwb_inflight>>
diskVars == <<disk, written, stable>>

Spend(k) ==
    /\ budget[k] > 0
    /\ budget' = [budget EXCEPT ![k] = @ - 1, !.failed = @ \/ k \in {"alloc_errors", "write_errors"}]

(* zil_alloc_lwb(): bp tells whether it has its block pointer.             *)
AllocLwb(state, bp, txg) ==
    [ state |-> state, bp |-> bp, error |-> FALSE, itxs |-> <<>>, waiters |-> {},
      alloc_txg |-> txg, max_txg |-> 0, issued_txg |-> 0,
      vdevs |-> {},             \* lwb_vdev_tree
      child |-> [write |-> FALSE, root |-> FALSE],  \* waits for the previous lwb's zios
      failed |-> [write |-> FALSE, root |-> FALSE], \* errors of its zios
      defer |-> FALSE, flush |-> {} ]  \* zil_lwb_write_done(): nlwb; blocks being flushed

LwbInit ==
    /\ lwb = <<AllocLwb("new", TRUE, 0)>>
    /\ zl_last_lwb_opened = 0
    /\ next_blk = 2
    /\ zl_lwb_inflight = [s \in Slots |-> 0]
    /\ disk = <<>> /\ written = {} /\ stable = {}
    /\ budget \in Bounds

Tail_lwb == Max(DOMAIN lwb)
Vdev(b) == b % NVdevs
Full(l) == Len(lwb[l].itxs) = LwbMax

-----------------------------------------------------------------------------
(* zil_lwb_write_close(): the new list, and whether a next lwb was chained *)
(* to it.  Its place on disk is allocated when l is issued.                *)
Chained(l) == ~lwb[l].error
Closed(l, list, state) ==
    LET closed == [list EXCEPT ![l].state = "closed"]
    IN  IF Chained(l) THEN closed @@ (l + 1 :> AllocLwb(state, FALSE, 0)) ELSE closed

(* zil_lwb_write_open().                                                   *)
Opened(l) == [lwb EXCEPT ![l].state = "opened"]

(* zil_lwb_assign() for a commit itx: zil_commit_waiter_link_lwb().        *)
LinkWaiter(t, l, list) ==
    /\ lwb' = [list EXCEPT ![l].waiters = @ \cup {t}]
    /\ zcw' = [zcw EXCEPT ![t].lwb = l]

(* zil_lwb_assign() for a record that goes into block l.                   *)
WithRecord(itx, l, list) ==
    [list EXCEPT ![l].itxs = Append(@, itx),
                 ![l].max_txg = IF itx.txg > @ THEN itx.txg ELSE @]

(* zil_prune_commit_list(): where the commit itxs at the head of the list  *)
(* go; there is nothing to wait for if the last lwb is done.               *)
NothingPending ==
    zl_last_lwb_opened = 0 \/ lwb[zl_last_lwb_opened].state = "flush_done"

PruneCommitList(list) ==
    LET n == SelectInSeq(list, LAMBDA itx : ~IsCommit(itx))
        head == IF n = 0 THEN list ELSE SubSeq(list, 1, n - 1)
    IN  /\ zl_itx_commit_list' = IF n = 0 THEN <<>> ELSE SubSeq(list, n, Len(list))
        /\ IF NothingPending
           THEN zcw' = Skipped(Waiters(head)) /\ UNCHANGED lwb
           ELSE /\ zcw' = [t \in Threads |-> IF t \in Waiters(head)
                        THEN [zcw[t] EXCEPT !.lwb = zl_last_lwb_opened] ELSE zcw[t]]
                /\ lwb' = [lwb EXCEPT ![zl_last_lwb_opened].waiters = @ \cup Waiters(head)]

-----------------------------------------------------------------------------
(* zil_lwb_write_issue(), in three steps.  First the block is filled.  A   *)
(* record whose data cannot be read is left out, once its txg is synced.   *)
(* The block is ready; without a block pointer it is left to the thread    *)
(* that issues the block before it.                                        *)
Ready(l) == lwb[l].bp \/ lwb[l].error

WriteFill(l) ==
    \E lost \in SUBSET {itx \in Range(lwb[l].itxs) : itx.txg <= synced} :
        lwb' = [lwb EXCEPT ![l].state = "ready",
                           ![l].itxs = SelectSeq(@, LAMBDA itx : itx \notin lost)]

(* Second, in a transaction, the next block's place is allocated, which    *)
(* may fail, and the write is counted for zil_sync() to wait for.          *)
WriteAlloc(l, error) ==
    /\ lwb[l].error => error
    /\ IF error /\ ~lwb[l].error THEN Spend("alloc_errors") ELSE UNCHANGED budget
    /\ lwb' = [lwb EXCEPT ![l].issued_txg = open]
    /\ zl_lwb_inflight' = [zl_lwb_inflight EXCEPT ![Slot(open)] = @ + 1]

(* zil_lwb_set_zio_dependency(): the zios of l that have those of the      *)
(* previous lwb as children.                                               *)
Dependency(l) ==
    LET prev == l - 1
        pending == prev \in DOMAIN lwb /\ lwb[prev].state # "flush_done"
    IN  [write |-> pending /\ lwb[prev].state = "issued", root |-> pending]

(* Third, under zl_lock, l is issued and the next lwb gets its pointer.    *)
(* After an allocation failure there is nothing to write: a null zio       *)
(* carries the error.                                                      *)
WriteIssue(l, txg, error) ==
    LET issued == [lwb EXCEPT
            ![l].state = "issued", ![l].child = Dependency(l),
            ![l].failed = [write |-> lwb[l].error, root |-> FALSE],
            ![l].vdevs = IF lwb[l].error THEN @ ELSE @ \cup {Vdev(l)}]
    IN  /\ lwb' = IF l + 1 \in DOMAIN lwb
                  THEN [issued EXCEPT ![l + 1].bp = ~error, ![l + 1].error = error,
                                      ![l + 1].alloc_txg = txg]
                  ELSE issued
        /\ disk' = IF lwb[l].error THEN disk
                   ELSE disk @@ (l :> [itxs |-> lwb[l].itxs, next |-> ~error])

(* Mutant: it leaves the next lwb alone.                                   *)
NextReadyNever(l) == FALSE

(* It is on this thread to issue the next lwb if that is ready already.    *)
NextReady(l) == l + 1 \in DOMAIN lwb /\ lwb[l + 1].state = "ready"

-----------------------------------------------------------------------------
(* The previous lwb, if it is still there, is in one of states.            *)
PrevIn(l, states) == l - 1 \in DOMAIN lwb => lwb[l - 1].state \in states

(* zil_lwb_write_done(), in two steps: under zl_lock it looks whether the  *)
(* next lwb is issued; what it does with its vdevs follows without a lock. *)
WriteDone(l, fail) ==
    /\ lwb[l].state = "issued"
    /\ lwb[l].child.write => PrevIn(l, {"write_done", "flush_done"})
    /\ IF fail THEN ~lwb[l].failed.write /\ Spend("write_errors") ELSE UNCHANGED budget
    /\ lwb' = [lwb EXCEPT
           ![l].state = "write_done_locked",
           ![l].failed.write = @ \/ fail,
           ![l].defer = l + 1 \in DOMAIN lwb /\ lwb[l + 1].state = "issued"]
    /\ written' = IF fail \/ lwb[l].error THEN written ELSE written \cup {l}
    /\ UNCHANGED <<absVars, itxVars, zl_last_lwb_opened, next_blk, zl_lwb_inflight, disk, stable>>

(* Mutant: the flush is left to the next lwb although somebody waits.      *)
DefersAlways(l) == lwb[l].vdevs # {} /\ ~lwb[l].failed.write /\ lwb[l].defer

(* Nobody waits for l: the next lwb flushes for it.                        *)
Defers(l) == lwb[l].vdevs # {} /\ ~lwb[l].failed.write /\ lwb[l].waiters = {} /\ lwb[l].defer

Flushed(l) ==
    IF lwb[l].failed.write \/ Defers(l) THEN {}
    ELSE {b \in written : Vdev(b) \in lwb[l].vdevs}

WriteDoneFlush(l) ==
    LET down == [lwb EXCEPT
            ![l].state = "write_done", ![l].vdevs = {}, ![l].flush = Flushed(l),
            ![l].failed.root = @ \/ lwb[l].failed.write]
        up == [down EXCEPT
            ![l + 1].vdevs = IF Defers(l) THEN @ \cup lwb[l].vdevs ELSE @,
            ![l + 1].failed.write = @ \/ (lwb[l + 1].child.write /\ lwb[l].failed.write)]
    IN  /\ lwb[l].state = "write_done_locked"
        /\ lwb' = IF l + 1 \in DOMAIN lwb THEN up ELSE down
        /\ UNCHANGED <<absVars, itxVars, zl_last_lwb_opened, next_blk, zl_lwb_inflight, diskVars, budget>>

(* zil_lwb_flush_vdevs_done(): the flushes are done and so is the previous *)
(* lwb.  The waiters get the error, if any; only the txgs of a done lwb    *)
(* matter.                                                                 *)
FlushDone(l) ==
    LET done == [lwb EXCEPT ![l] = [AllocLwb("flush_done", @.bp, @.alloc_txg) EXCEPT
            !.max_txg = lwb[l].max_txg, !.issued_txg = lwb[l].issued_txg]]
    IN  /\ lwb[l].state = "write_done"
        /\ lwb[l].child.root => PrevIn(l, {"flush_done"})
        /\ lwb' = IF l + 1 \in DOMAIN lwb
                  THEN [done EXCEPT ![l + 1].failed.root =
                           @ \/ (lwb[l + 1].child.root /\ lwb[l].failed.root)]
                  ELSE done
        /\ zcw' = [t \in Threads |-> IF t \in lwb[l].waiters
               THEN [lwb |-> 0, done |-> TRUE, error |-> lwb[l].failed.root] ELSE zcw[t]]
        /\ zl_lwb_inflight' = [zl_lwb_inflight EXCEPT ![Slot(lwb[l].issued_txg)] = @ - 1]
        /\ stable' = stable \cup (lwb[l].flush \cap DOMAIN disk)
        /\ UNCHANGED <<absVars, itxg, zl_itx_commit_list, cleaning, zl_suspend,
                       zl_last_lwb_opened, next_blk, disk, written, budget>>

-----------------------------------------------------------------------------
(* The lwbs that zil_sync() of txg frees: the head of the list, as far as  *)
(* it is done and everything in it is in the pool with this txg.           *)
Freeable(l, txg) ==
    lwb[l].state = "flush_done" /\ lwb[l].alloc_txg <= txg /\ lwb[l].max_txg <= txg

FreedBy(txg) == {l \in DOMAIN lwb : \A k \in DOMAIN lwb : k <= l => Freeable(k, txg)}

(* The block zh_log points at once they are freed; log is what it was.     *)
HeadAfter(txg, log) ==
    LET left == DOMAIN lwb \ FreedBy(txg)
    IN  IF left # {} THEN (IF lwb[Min(left)].bp THEN Min(left) ELSE 0)
        ELSE IF DOMAIN lwb # {} THEN 0 ELSE log
=============================================================================
