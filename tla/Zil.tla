-------------------------------- MODULE Zil --------------------------------
(***************************************************************************)
(* zil_commit(): threads log operations in transactions and ask for them   *)
(* to be made permanent, while txgs are synced, blocks are written, and    *)
(* the log is suspended.  zl_issuer_lock and the waits of the code are     *)
(* explicit; a critical section of zl_lock, of zl_lwb_io_lock or of an     *)
(* itxg_lock is one step.                                                  *)
(***************************************************************************)
EXTENDS ZilLwb

CONSTANTS
    MaxRecs,            \* bound: records that are logged
    QuietSuspend        \* the log is suspended only while it is idle

ASSUME ZilAssumption ==
    /\ InitTxg \in Nat \ {0, 1} /\ NObjs \in Nat /\ LwbMax \in Nat \ {0}
    /\ NVdevs \in Nat \ {0} /\ MaxRecs \in Nat /\ QuietSuspend \in BOOLEAN
    /\ None \notin Threads

VARIABLES
    pc,                 \* where each thread is
    th,                 \* its local variables, see NoCall
    zl_issuer,          \* the holder of zl_issuer_lock
    zl_parallel,        \* zl_parallel is not 0: more calls are expected
    zl_suspending,
    zl_destroy_txg, zl_keep_first,
    zl_replayed_seq,    \* how far the log was replayed in each txg
    zh,                 \* the log header, as the syncing txg leaves it
    ub,                 \* what is on disk: the synced txg and the header
    sync_st,            \* where spa_sync() of txg synced + 1 is
    fs,                 \* the txg in which each record took effect, 0 if none
    obj,                \* its object, 0 if it is synchronous
    acked               \* records that zil_commit() has promised

threadVars == <<pc, th, zl_issuer>>
destroyVars == <<zl_suspending, zl_destroy_txg, zl_keep_first, zl_replayed_seq>>
headVars == <<zl_parallel, destroyVars, zh>>
poolVars == <<ub, sync_st>>
recVars == <<fs, obj, acked>>
zilVars == <<absVars, itxVars, lwbVars, diskVars, budget, threadVars, headVars, poolVars, recVars>>

NoCall == [
    rec |-> 0,                  \* the record of its transaction
    need |-> {},                \* what this call of zil_commit() is to make permanent
    wtxg |-> 0,                 \* from zil_get_commit_list()
    sync |-> 0,                 \* the txg it waits for in txg_wait_synced()
    ilwbs |-> <<>>,             \* the lwbs it has to issue
    cur |-> 0, error |-> FALSE, \* zil_lwb_write_issue(): lwb; allocation failed
    nolwb |-> FALSE,            \* there is no lwb to commit to
    nolwb_waiters |-> {},
    stall |-> FALSE,            \* zil_commit_writer_stall() comes next
    suspends |-> FALSE ]        \* called from zil_suspend()

Header == [log |-> 0, claim_txg |-> 0, replay_seq |-> 0, replay |-> FALSE]

(* A mounted file system with an empty log: the mount has destroyed the    *)
(* log in txg InitTxg - 1, has kept its first block, and zil_create() has  *)
(* opened that.                                                            *)
ZilInit ==
    /\ AbsInit /\ ItxInit /\ LwbInit
    /\ pc = [t \in Threads |-> "idle"]
    /\ th = [t \in Threads |-> NoCall]
    /\ zl_issuer = None
    /\ zl_parallel = FALSE
    /\ zl_suspending = FALSE /\ zl_destroy_txg = InitTxg - 1 /\ zl_keep_first = TRUE
    /\ zl_replayed_seq = [s \in Slots |-> 0]
    /\ zh = [Header EXCEPT !.log = 1]
    /\ ub = [txg |-> synced, zh |-> zh]
    /\ sync_st = "idle"
    /\ fs = [r \in 1..MaxRecs |-> 0]
    /\ obj = [r \in 1..MaxRecs |-> 0]
    /\ acked = {}

Goto(t, l) == pc' = [pc EXCEPT ![t] = l]

(* txg_wait_synced(): 0 stands for everything up to now and                *)
(* TXG_DEFER_SIZE more txgs.                                               *)
Target(txg) == IF txg = 0 THEN open + 2 ELSE txg
WaitAt(t, l, txg) == Goto(t, l) /\ th' = [th EXCEPT ![t].sync = Target(txg)]
Synced(t) == synced >= th[t].sync

-----------------------------------------------------------------------------
(* An operation of the file system: a transaction that changes the pool    *)
(* and logs what it does.  It may be asynchronous for one object.          *)
Objs == IF budget.async THEN 0..NObjs ELSE {0}
Logged == {r \in 1..MaxRecs : fs[r] # 0}

Begin(t) ==
    /\ pc[t] = "idle"
    /\ Spend("recs")
    /\ Hold(t)
    /\ Goto(t, "tx")
    /\ th' = [th EXCEPT ![t].rec = MaxRecs - budget'.recs]
    /\ UNCHANGED <<itxVars, lwbVars, diskVars, zl_issuer, headVars, poolVars, recVars>>

Log(t, o) ==
    LET r == th[t].rec
    IN  /\ pc[t] = "tx"
        /\ ItxAssign(RecItx(r, held[t]), o)
        /\ fs' = [fs EXCEPT ![r] = held[t]]
        /\ obj' = [obj EXCEPT ![r] = o]
        /\ held' = [held EXCEPT ![t] = 0] /\ phase' = [phase EXCEPT ![t] = "none"]
        /\ Goto(t, "idle")
        /\ th' = [th EXCEPT ![t] = NoCall]
        /\ UNCHANGED <<open, synced, zl_itx_commit_list, cleaning, zl_suspend, lwbVars, diskVars,
                       budget, zl_issuer, headVars, poolVars, acked>>

-----------------------------------------------------------------------------
(* zil_commit(): foid 0 asks for all objects.  While the log is suspended  *)
(* it waits for the pool instead.                                          *)
Promised(foid) == {r \in Logged : obj[r] = 0 \/ foid \in {0, obj[r]}}

Commit(t, foid) ==
    /\ pc[t] = "idle"
    /\ Spend("commits")
    /\ IF zl_suspend > 0
       THEN /\ Goto(t, "wait_pool")
            /\ th' = [th EXCEPT ![t].need = Promised(foid), ![t].sync = Target(0)]
            /\ UNCHANGED <<itxg, zcw>>
       ELSE /\ Goto(t, "assign")
            /\ th' = [th EXCEPT ![t].need = Promised(foid)]
            /\ AsyncToSync(foid)
            /\ zcw' = [zcw EXCEPT ![t] = FreshWaiter]
    /\ UNCHANGED <<absVars, zl_itx_commit_list, cleaning, zl_suspend, lwbVars, diskVars,
                   zl_issuer, headVars, poolVars, recVars>>

(* zil_commit_itx_assign(), in a transaction of the open txg.              *)
CommitAssign(t) ==
    /\ pc[t] = "assign"
    /\ ItxAssign(CommitItx(t, open), 0)
    /\ Goto(t, "writer")
    /\ UNCHANGED <<absVars, zl_itx_commit_list, cleaning, zl_suspend, lwbVars, diskVars, budget,
                   th, zl_issuer, headVars, poolVars, recVars>>

(* zil_commit_writer(): another thread may have done the work already.     *)
CommitWriter(t) ==
    /\ pc[t] = "writer"
    /\ zl_issuer = None
    /\ IF zcw[t].lwb # 0 \/ zcw[t].done
       THEN /\ Goto(t, "waiter")
            /\ UNCHANGED <<itxg, zl_itx_commit_list, zcw, lwb, th, zl_issuer>>
       ELSE /\ zl_issuer' = t
            /\ GetCommitList
            /\ PruneCommitList(zl_itx_commit_list \o Taken)
            /\ th' = [th EXCEPT ![t].wtxg = CommitListTxg]
            /\ Goto(t, "process")
    /\ UNCHANGED <<absVars, cleaning, zl_suspend, zl_last_lwb_opened, next_blk, zl_lwb_inflight,
                   diskVars, budget, headVars, poolVars, recVars>>

-----------------------------------------------------------------------------
(* zil_process_commit_list(): with nothing on the list it returns, without *)
(* an lwb it creates one.                                                  *)
Unlock(t) == zl_issuer' = None

ProcessNothing(t) ==
    /\ pc[t] = "process"
    /\ zl_itx_commit_list = <<>>
    /\ Goto(t, "waiter") /\ Unlock(t)
    /\ UNCHANGED <<absVars, itxVars, lwbVars, diskVars, budget, th, headVars, poolVars, recVars>>

(* The txg that zil_create() waits for first.                              *)
CreateAfter == zl_destroy_txg

ProcessStart(t) ==
    /\ pc[t] = "process"
    /\ zl_itx_commit_list # <<>>
    /\ IF DOMAIN lwb = {}
       THEN WaitAt(t, "create", CreateAfter) /\ UNCHANGED zl_parallel
       ELSE /\ Goto(t, "commit_list")
            /\ zl_parallel' = (zl_parallel \/ lwb[Tail_lwb].state = "opened"
                  \/ (Tail_lwb - 1 \in DOMAIN lwb /\ lwb[Tail_lwb - 1].state # "flush_done"))
            /\ UNCHANGED th
    /\ UNCHANGED <<absVars, itxVars, lwbVars, diskVars, budget, zl_issuer, destroyVars, zh,
                   poolVars, recVars>>

(* zil_create(): the previous log is gone; the first block may be there    *)
(* already, else it is allocated and the header has to reach the disk.     *)
Create(t, error) ==
    /\ pc[t] = "create"
    /\ Synced(t)
    /\ IF zh.log # 0
       THEN /\ ~error
            /\ lwb' = zh.log :> AllocLwb("new", TRUE, 0)
            /\ Goto(t, "commit_list")
            /\ UNCHANGED <<th, next_blk, budget>>
       ELSE /\ IF error THEN Spend("alloc_errors") ELSE UNCHANGED budget
            /\ lwb' = IF error THEN lwb ELSE next_blk :> AllocLwb("new", TRUE, open)
            /\ next_blk' = IF error THEN next_blk ELSE next_blk + 1
            /\ Goto(t, "created")
            /\ th' = [th EXCEPT ![t].sync = open, ![t].nolwb = error]
    /\ UNCHANGED <<absVars, itxVars, zl_last_lwb_opened, zl_lwb_inflight, diskVars,
                   zl_issuer, headVars, poolVars, recVars>>

Created(t) ==
    /\ pc[t] = "created"
    /\ Synced(t)
    /\ Goto(t, "commit_list")
    /\ UNCHANGED <<absVars, itxVars, lwbVars, diskVars, budget, th, zl_issuer, headVars, poolVars, recVars>>

-----------------------------------------------------------------------------
(* The loop of zil_process_commit_list(), one itx at a time.               *)
Itx == Head(zl_itx_commit_list)

(* The itxs of synced txgs are not needed; commit itxs always are.         *)
Needed(itx) == IsCommit(itx) \/ itx.txg > synced

(* The thread's own lwb is done: the rest is left to somebody else.        *)
OwnDone(t, tail) == (zcw[t].lwb # 0 /\ zcw[t].lwb # tail) \/ zcw[t].done

Continue(t, tail) ==
    IF OwnDone(t, tail)
    THEN Goto(t, "list_done") /\ zl_parallel' = TRUE
    ELSE UNCHANGED <<pc, zl_parallel>>

CommitOne(t) ==
    LET l == Tail_lwb
        open_l == Opened(l)
    IN  /\ pc[t] = "commit_list"
        /\ zl_itx_commit_list # <<>>
        /\ zl_itx_commit_list' = Tail(zl_itx_commit_list)
        /\ CASE ~Needed(Itx) ->
                   UNCHANGED <<lwb, zl_last_lwb_opened, next_blk, zcw, th, pc, zl_parallel>>
             [] Needed(Itx) /\ th[t].nolwb ->
                   /\ th' = [th EXCEPT ![t].nolwb_waiters = @ \cup ({Itx.zcw} \ {None})]
                   /\ UNCHANGED <<lwb, zl_last_lwb_opened, next_blk, zcw, pc, zl_parallel>>
             [] Needed(Itx) /\ ~th[t].nolwb /\ IsCommit(Itx) ->
                   /\ LinkWaiter(Itx.zcw, l, open_l)
                   /\ zl_last_lwb_opened' = l
                   /\ UNCHANGED <<next_blk, th>>
                   /\ IF Itx.zcw = t THEN UNCHANGED <<pc, zl_parallel>> ELSE Continue(t, l)
             [] Needed(Itx) /\ ~th[t].nolwb /\ ~IsCommit(Itx) /\ ~Full(l) ->
                   /\ lwb' = WithRecord(Itx, l, open_l)
                   /\ zl_last_lwb_opened' = l
                   /\ UNCHANGED <<next_blk, zcw, th>>
                   /\ Continue(t, l)
             [] Needed(Itx) /\ ~th[t].nolwb /\ ~IsCommit(Itx) /\ Full(l) /\ Chained(l) ->
                   /\ lwb' = WithRecord(Itx, l + 1, Closed(l, open_l, "opened"))
                   /\ zl_last_lwb_opened' = l + 1
                   /\ next_blk' = l + 2
                   /\ th' = [th EXCEPT ![t].ilwbs = Append(@, l)]
                   /\ Continue(t, l + 1)
                   /\ UNCHANGED zcw
             [] Needed(Itx) /\ ~th[t].nolwb /\ ~IsCommit(Itx) /\ Full(l) /\ ~Chained(l) ->
                   /\ lwb' = Closed(l, open_l, "opened")
                   /\ zl_last_lwb_opened' = l
                   /\ th' = [th EXCEPT ![t].ilwbs = Append(@, l), ![t].nolwb = TRUE]
                   /\ UNCHANGED <<next_blk, zcw, pc, zl_parallel>>
        /\ UNCHANGED <<absVars, itxg, cleaning, zl_suspend, zl_lwb_inflight, diskVars, budget,
                       zl_issuer, destroyVars, zh, poolVars, recVars>>

(* The end of zil_process_commit_list().  An open block is closed at once, *)
(* or, if more calls are expected, left open for them to fill.  Without an *)
(* lwb the thread stalls, still holding the lock.                          *)
ListDone(t) ==
    LET l == Tail_lwb
    IN  /\ \/ pc[t] = "list_done"
           \/ pc[t] = "commit_list" /\ zl_itx_commit_list = <<>>
        /\ Goto(t, "issue")
        /\ CASE th[t].nolwb ->
                   /\ th' = [th EXCEPT ![t].stall = TRUE]
                   /\ UNCHANGED <<lwb, next_blk, zl_issuer>>
             [] ~th[t].nolwb /\ (lwb[l].state # "opened" \/ zl_parallel) ->
                   Unlock(t) /\ UNCHANGED <<lwb, next_blk, th>>
             [] ~th[t].nolwb /\ lwb[l].state = "opened" /\ ~zl_parallel ->
                   /\ lwb' = Closed(l, lwb, "new")
                   /\ next_blk' = IF Chained(l) THEN l + 2 ELSE next_blk
                   /\ th' = [th EXCEPT ![t].ilwbs = Append(@, l), ![t].stall = ~Chained(l)]
                   /\ IF Chained(l) THEN Unlock(t) ELSE UNCHANGED zl_issuer
        /\ UNCHANGED <<absVars, itxVars, zl_last_lwb_opened, zl_lwb_inflight, diskVars, budget,
                       headVars, poolVars, recVars>>

-----------------------------------------------------------------------------
(* zil_lwb_write_issue() for each lwb of the list, and then for those      *)
(* behind it that were waiting for their block pointer.                    *)
IssueFill(t) ==
    LET l == Head(th[t].ilwbs)
    IN  /\ pc[t] = "issue"
        /\ th[t].ilwbs # <<>>
        /\ WriteFill(l)
        /\ IF Ready(l)
           THEN Goto(t, "alloc") /\ th' = [th EXCEPT ![t].cur = l, ![t].ilwbs = Tail(@)]
           ELSE UNCHANGED pc /\ th' = [th EXCEPT ![t].ilwbs = Tail(@)]
        /\ UNCHANGED <<absVars, itxVars, zl_last_lwb_opened, next_blk, zl_lwb_inflight, diskVars,
                       budget, zl_issuer, headVars, poolVars, recVars>>

IssueAlloc(t, error) ==
    /\ pc[t] = "alloc"
    /\ WriteAlloc(th[t].cur, error)
    /\ th' = [th EXCEPT ![t].error = error]
    /\ Goto(t, "send")
    /\ UNCHANGED <<absVars, itxVars, zl_last_lwb_opened, next_blk, diskVars,
                   zl_issuer, headVars, poolVars, recVars>>

IssueSend(t) ==
    LET l == th[t].cur
    IN  /\ pc[t] = "send"
        /\ WriteIssue(l, lwb[l].issued_txg, th[t].error)
        /\ IF NextReady(l)
           THEN Goto(t, "alloc") /\ th' = [th EXCEPT ![t].cur = l + 1, ![t].error = FALSE]
           ELSE Goto(t, "issue") /\ th' = [th EXCEPT ![t].cur = 0, ![t].error = FALSE]
        /\ UNCHANGED <<absVars, itxVars, zl_last_lwb_opened, next_blk, zl_lwb_inflight, written, stable,
                       budget, zl_issuer, headVars, poolVars, recVars>>

IssueDone(t) ==
    /\ pc[t] = "issue"
    /\ th[t].ilwbs = <<>>
    /\ IF th[t].stall THEN WaitAt(t, "stall", 0) ELSE Goto(t, "waiter") /\ UNCHANGED th
    /\ UNCHANGED <<absVars, itxVars, lwbVars, diskVars, budget, zl_issuer, headVars, poolVars, recVars>>

(* zil_commit_writer_stall(), and what follows it.                         *)
StallDone(t) ==
    /\ pc[t] = "stall"
    /\ Synced(t)
    /\ zcw' = Skipped(th[t].nolwb_waiters)
    /\ th' = [th EXCEPT ![t].nolwb = FALSE, ![t].nolwb_waiters = {}, ![t].stall = FALSE, ![t].sync = 0]
    /\ Unlock(t)
    /\ Goto(t, "waiter")
    /\ UNCHANGED <<absVars, itxg, zl_itx_commit_list, cleaning, zl_suspend, lwbVars, diskVars, budget,
                   headVars, poolVars, recVars>>

-----------------------------------------------------------------------------
(* zil_commit_waiter(): after a while the thread closes its block itself.  *)
WaiterTimeout(t) ==
    /\ pc[t] = "waiter"
    /\ ~zcw[t].done /\ zcw[t].lwb # 0 /\ lwb[zcw[t].lwb].state = "opened"
    /\ Goto(t, "timeout")
    /\ UNCHANGED <<absVars, itxVars, lwbVars, diskVars, budget, th, zl_issuer, headVars, poolVars, recVars>>

(* zil_burst_done(): the counter may reach 0, unless the burst goes on.    *)
BurstDone ==
    zl_parallel' \in IF zl_itx_commit_list = <<>> THEN {zl_parallel, FALSE} ELSE {zl_parallel}

(* zil_commit_waiter_timeout(): zl_issuer_lock comes before zcw_lock, so   *)
(* everything is looked at again.                                          *)
TimeoutClose(t) ==
    LET l == zcw[t].lwb
    IN  /\ pc[t] = "timeout"
        /\ zl_issuer = None
        /\ IF zcw[t].done \/ lwb[l].state # "opened"
           THEN Goto(t, "waiter") /\ UNCHANGED <<lwb, next_blk, th, zl_issuer, zl_parallel>>
           ELSE /\ lwb' = Closed(l, lwb, "new")
                /\ next_blk' = IF Chained(l) THEN l + 2 ELSE next_blk
                /\ th' = [th EXCEPT ![t].ilwbs = <<l>>, ![t].stall = ~Chained(l)]
                /\ zl_issuer' = IF Chained(l) THEN None ELSE t
                /\ Goto(t, "issue")
                /\ BurstDone
        /\ UNCHANGED <<absVars, itxVars, zl_last_lwb_opened, zl_lwb_inflight, diskVars, budget,
                       destroyVars, zh, poolVars, recVars>>

(* The rest of zil_commit_impl(): after an error, and for what was not     *)
(* taken because the log is suspended, the pool has to be synced.          *)
WaiterDone(t) ==
    /\ pc[t] = "waiter"
    /\ zcw[t].done
    /\ Goto(t, "wait_pool")
    /\ th' = [th EXCEPT ![t].sync = IF zcw[t].error THEN Target(0) ELSE th[t].wtxg, ![t].wtxg = 0]
    /\ UNCHANGED <<absVars, itxVars, lwbVars, diskVars, budget, zl_issuer, headVars, poolVars, recVars>>

(* zil_commit() returns.                                                   *)
CommitDone(t) ==
    /\ pc[t] = "wait_pool"
    /\ Synced(t)
    /\ acked' = acked \cup th[t].need
    /\ zcw' = [zcw EXCEPT ![t] = FreshWaiter]
    /\ IF th[t].suspends
       THEN WaitAt(t, "suspend_wait", 0)
       ELSE Goto(t, "idle") /\ th' = [th EXCEPT ![t] = NoCall]
    /\ UNCHANGED <<absVars, itxg, zl_itx_commit_list, cleaning, zl_suspend, lwbVars, diskVars, budget,
                   zl_issuer, headVars, poolVars, fs, obj>>

-----------------------------------------------------------------------------
(* zil_suspend() of a mounted file system.                                 *)
Idle == zl_issuer = None /\ zl_itx_commit_list = <<>>
            /\ \A l \in DOMAIN lwb : lwb[l].state \in {"new", "flush_done"}

Suspend(t) ==
    /\ pc[t] = "idle"
    /\ Spend("suspends")
    /\ QuietSuspend => Idle
    /\ ~zh.replay
    /\ zl_suspend' = zl_suspend + 1
    /\ CASE zl_suspend > 0 -> Goto(t, "suspend_other") /\ UNCHANGED <<itxg, zcw, th, zl_suspending>>
         [] zl_suspend = 0 /\ zh.log = 0 -> Goto(t, "suspended") /\ UNCHANGED <<itxg, zcw, th, zl_suspending>>
         [] zl_suspend = 0 /\ zh.log # 0 ->
               /\ zl_suspending' = TRUE
               /\ AsyncToSync(0)
               /\ zcw' = [zcw EXCEPT ![t] = FreshWaiter]
               /\ th' = [th EXCEPT ![t].suspends = TRUE, ![t].need = Logged]
               /\ Goto(t, "assign")
    /\ UNCHANGED <<absVars, zl_itx_commit_list, cleaning, lwbVars, diskVars, zl_issuer, zl_parallel,
                   zl_destroy_txg, zl_keep_first, zl_replayed_seq, zh, poolVars, recVars>>

(* Someone else is suspending it.                                          *)
SuspendOther(t) ==
    /\ pc[t] = "suspend_other"
    /\ ~zl_suspending
    /\ Goto(t, "suspended")
    /\ UNCHANGED <<absVars, itxVars, lwbVars, diskVars, budget, th, zl_issuer, headVars, poolVars, recVars>>

(* zil_destroy() waits for a destroy that is in progress.                  *)
SuspendWait(t) ==
    /\ pc[t] = "suspend_wait"
    /\ Synced(t)
    /\ WaitAt(t, "suspend_destroy", zl_destroy_txg)
    /\ UNCHANGED <<absVars, itxVars, lwbVars, diskVars, budget, zl_issuer, headVars, poolVars, recVars>>

Destroy(keep_first) ==
    IF zh.log = 0
    THEN UNCHANGED <<lwb, zl_last_lwb_opened, zl_destroy_txg, zl_keep_first>>
    ELSE /\ zl_destroy_txg' = open /\ zl_keep_first' = keep_first
         /\ lwb' = <<>> /\ zl_last_lwb_opened' = 0

SuspendDestroy(t) ==
    /\ pc[t] = "suspend_destroy"
    /\ Synced(t)
    /\ Destroy(FALSE)
    /\ zl_suspending' = FALSE
    /\ Goto(t, "suspended")
    /\ th' = [th EXCEPT ![t] = NoCall]
    /\ UNCHANGED <<absVars, itxVars, next_blk, zl_lwb_inflight, diskVars, budget, zl_issuer,
                   zl_parallel, zl_replayed_seq, zh, poolVars, recVars>>

(* zil_resume().                                                           *)
Resume(t) ==
    /\ pc[t] = "suspended"
    /\ zl_suspend' = zl_suspend - 1
    /\ Goto(t, "idle")
    /\ UNCHANGED <<absVars, itxg, zl_itx_commit_list, cleaning, zcw, lwbVars, diskVars, budget, th,
                   zl_issuer, headVars, poolVars, recVars>>

-----------------------------------------------------------------------------
(* Somebody waits for the open txg to be synced, or for zil_clean() to     *)
(* release an itx of it.                                                   *)
Demand ==
    \E t \in Threads :
        \/ th[t].sync >= open
        \/ pc[t] = "waiter" /\ t \in Waiters(itxg[Slot(open)].sync)

(* The next txg opens because it is waited for, or by the timer of         *)
(* txg_sync_thread().                                                      *)
TxgOpens(demand) ==
    /\ OpenNext
    /\ IF demand THEN UNCHANGED budget ELSE Spend("timeouts")
    /\ UNCHANGED <<itxVars, lwbVars, diskVars, threadVars, headVars, poolVars, recVars>>

(* spa_sync(): zil_sync() in its first pass waits for the writes that were *)
(* issued in this txg, and frees what the pool now holds.                  *)
Syncing == synced + 1

Destroys == zl_destroy_txg = Syncing

HeaderAfter ==
    LET seq == zl_replayed_seq[Slot(Syncing)]
    IN  IF Destroys THEN [Header EXCEPT !.log = IF zl_keep_first THEN next_blk ELSE 0]
        ELSE IF seq # 0 THEN [zh EXCEPT !.replay_seq = seq] ELSE zh

(* Mutant: it does not wait.                                               *)
FlushUnawaited == TRUE

(* zil_lwb_flush_wait_all().                                               *)
FlushWaitAll == zl_lwb_inflight[Slot(Syncing)] = 0

(* zil_free_lwb() forgets the lwb.                                         *)
LastAfter == IF zl_last_lwb_opened \in FreedBy(Syncing) THEN 0 ELSE zl_last_lwb_opened

ZilSync ==
    /\ sync_st = "idle"
    /\ Syncing < open
    /\ \A t \in Threads : held[t] # Syncing
    /\ FlushWaitAll
    /\ sync_st' = "write"
    /\ zh' = [HeaderAfter EXCEPT !.log = HeadAfter(Syncing, @)]
    /\ next_blk' = IF Destroys /\ zl_keep_first THEN next_blk + 1 ELSE next_blk
    /\ zl_replayed_seq' = [s \in Slots |-> IF Destroys \/ s = Slot(Syncing) THEN 0 ELSE zl_replayed_seq[s]]
    /\ lwb' = [l \in DOMAIN lwb \ FreedBy(Syncing) |-> lwb[l]]
    /\ zl_last_lwb_opened' = LastAfter
    /\ UNCHANGED <<absVars, itxVars, zl_lwb_inflight, diskVars, budget, threadVars,
                   zl_parallel, zl_suspending, zl_destroy_txg, zl_keep_first, ub, recVars>>

(* The uberblock is written: the txg is in the pool, with the header.      *)
(* Blocks that the header no longer reaches are free to be used again.     *)
WriteUberblock ==
    LET inUse == {b \in DOMAIN disk : zh.log # 0 /\ b >= zh.log}
    IN  /\ sync_st = "write"
        /\ sync_st' = "clean"
        /\ ub' = [txg |-> Syncing, zh |-> zh]
        /\ disk' = [b \in inUse |-> disk[b]]
        /\ written' = written \cap inUse
        /\ stable' = stable \cap inUse
        /\ UNCHANGED <<absVars, itxVars, lwbVars, budget, threadVars, headVars, recVars>>

(* dsl_pool_sync_done(), and spa_last_synced_txg().                        *)
SyncDone ==
    /\ sync_st = "clean"
    /\ sync_st' = "idle"
    /\ SyncNext
    /\ Clean(Syncing)
    /\ UNCHANGED <<zl_itx_commit_list, zcw, zl_suspend, lwbVars, diskVars, budget,
                   threadVars, headVars, ub, recVars>>

CleanTask ==
    /\ ItxgClean
    /\ UNCHANGED <<absVars, lwbVars, diskVars, budget, threadVars, headVars, poolVars, recVars>>

WriteZio(l) ==
    /\ \E fail \in BOOLEAN : WriteDone(l, fail)
    /\ UNCHANGED <<threadVars, headVars, poolVars, recVars>>

FlushZio(l) ==
    /\ WriteDoneFlush(l)
    /\ UNCHANGED <<threadVars, headVars, poolVars, recVars>>

RootZio(l) ==
    /\ FlushDone(l)
    /\ UNCHANGED <<threadVars, headVars, poolVars, recVars>>

-----------------------------------------------------------------------------
Call(t) ==
    \/ \E foid \in Objs : Commit(t, foid)
    \/ Begin(t) \/ Suspend(t)

Step(t) ==
    \/ \E o \in Objs : Log(t, o)
    \/ CommitAssign(t) \/ CommitWriter(t)
    \/ ProcessNothing(t) \/ ProcessStart(t) \/ Created(t) \/ CommitOne(t) \/ ListDone(t)
    \/ \E error \in BOOLEAN : Create(t, error) \/ IssueAlloc(t, error)
    \/ IssueFill(t) \/ IssueSend(t) \/ IssueDone(t) \/ StallDone(t)
    \/ WaiterTimeout(t) \/ TimeoutClose(t) \/ WaiterDone(t) \/ CommitDone(t)
    \/ SuspendOther(t) \/ SuspendWait(t) \/ SuspendDestroy(t) \/ Resume(t)

Zio == \E l \in DOMAIN lwb : WriteZio(l) \/ FlushZio(l) \/ RootZio(l)

SpaSync == ZilSync \/ WriteUberblock \/ SyncDone \/ CleanTask
=============================================================================
