----------------------------- MODULE ZilReplay -----------------------------
(***************************************************************************)
(* The intent log across a loss of power: what a log is for.  Memory is    *)
(* lost, and so are writes that were not flushed; the pool goes back to    *)
(* its last uberblock.  The import claims the log, and the mount replays   *)
(* it, each record in a transaction that also records how far the replay   *)
(* is, and destroys it.  The power may fail again in between.              *)
(***************************************************************************)
EXTENDS Zil

VARIABLES
    mount,              \* "up", or where import and mount are
    mount_txg,          \* the txg that it waits for
    replaying_seq       \* zl_replaying_seq

vars == <<zilVars, mount, mount_txg, replaying_seq>>
mountVars == <<mount, mount_txg, replaying_seq>>

Init == ZilInit /\ mount = "up" /\ mount_txg = 0 /\ replaying_seq = 0

(* What zil_parse() reads: the blocks from the header on, up to one that   *)
(* is not there, and the records in them.                                  *)
Chain(log, blocks) ==
    IF log = 0 THEN {}
    ELSE {b \in blocks : b >= log /\ \A k \in log..(b - 1) : k \in blocks /\ disk[k].next}

Records(log, blocks) ==
    LET chain == Chain(log, blocks)
    IN  FlattenSeq([i \in 1..Cardinality(chain) |-> disk[log + i - 1].itxs])

(* Mutant: what has reached the pool in its own txg is replayed.           *)
ReplaysAgain(h, itx, i) == i > h.replay_seq

(* zil_replay_log_record(): is record i of the log of header h replayed?   *)
Replays(h, itx, i) == i > h.replay_seq /\ itx.txg >= h.claim_txg

-----------------------------------------------------------------------------
Crash ==
    \E lost \in SUBSET (DOMAIN disk \ stable) :
        LET kept == DOMAIN disk \ lost
        IN  /\ Spend("crashes")
            /\ disk' = [b \in kept |-> disk[b]] /\ written' = kept /\ stable' = kept
            /\ zh' = ub.zh
            /\ synced' = ub.txg /\ open' = ub.txg + 1
            /\ held' = [t \in Threads |-> 0] /\ phase' = [t \in Threads |-> "none"]
            /\ itxg' = [s \in Slots |-> Itxs(0)] /\ zl_itx_commit_list' = <<>> /\ cleaning' = {}
            /\ zcw' = [t \in Threads |-> FreshWaiter] /\ zl_suspend' = 0
            /\ lwb' = <<>> /\ zl_last_lwb_opened' = 0
            /\ zl_lwb_inflight' = [s \in Slots |-> 0]
            /\ pc' = [t \in Threads |-> "idle"] /\ th' = [t \in Threads |-> NoCall]
            /\ zl_issuer' = None /\ zl_suspending' = FALSE /\ zl_parallel' = FALSE
            /\ zl_destroy_txg' = 0 /\ zl_keep_first' = FALSE
            /\ zl_replayed_seq' = [s \in Slots |-> 0]
            /\ sync_st' = "idle"
            /\ fs' = [r \in 1..MaxRecs |-> IF fs[r] > ub.txg THEN 0 ELSE fs[r]]
            /\ mount' = "claim" /\ mount_txg' = 0 /\ replaying_seq' = 0
            /\ UNCHANGED <<next_blk, ub, obj, acked>>

(* zil_claim(), in the first txg of the import, before any txg is synced.  *)
Claim ==
    /\ mount = "claim"
    /\ zh' = IF zh.claim_txg # 0 \/ zh.log = 0 THEN zh
             ELSE [zh EXCEPT !.claim_txg = open,
                             !.replay = \E b \in Chain(zh.log, DOMAIN disk) :
                                 disk[b].itxs # <<>> \/ disk[b].next]
    /\ mount' = "replay"
    /\ UNCHANGED <<absVars, itxVars, lwbVars, diskVars, budget, threadVars, zl_parallel, zl_suspending,
                   zl_destroy_txg, zl_keep_first, zl_replayed_seq, poolVars, recVars,
                   mount_txg, replaying_seq>>

(* zil_replay(): an empty log keeps its first block.                       *)
Replay ==
    /\ mount = "replay"
    /\ mount' = IF zh.replay THEN "replay_wait" ELSE "keep_first"
    /\ mount_txg' = Target(0)
    /\ UNCHANGED <<zilVars, replaying_seq>>

Mounted(s) == mount = s /\ synced >= mount_txg

KeepFirst ==
    /\ Mounted("keep_first")
    /\ Destroy(TRUE)
    /\ mount' = "up"
    /\ UNCHANGED <<absVars, itxVars, next_blk, zl_lwb_inflight, diskVars, budget, threadVars,
                   zl_parallel, zl_suspending, zl_replayed_seq, zh, poolVars, recVars, mount_txg, replaying_seq>>

(* zil_replay_log_record(), with the replay function's transaction.        *)
ReplayRecord ==
    LET log == Records(zh.log, DOMAIN disk)
        i == replaying_seq + 1
    IN  /\ Mounted("replay_wait")
        /\ i <= Len(log)
        /\ replaying_seq' = i
        /\ IF Replays(zh, log[i], i)
           THEN /\ fs' = [fs EXCEPT ![log[i].rec] = open]
                /\ zl_replayed_seq' = [zl_replayed_seq EXCEPT ![Slot(open)] = i]
           ELSE UNCHANGED <<fs, zl_replayed_seq>>
        /\ UNCHANGED <<absVars, itxVars, lwbVars, diskVars, budget, threadVars, zl_parallel, zl_suspending,
                       zl_destroy_txg, zl_keep_first, zh, poolVars, obj, acked, mount, mount_txg>>

ReplayDone ==
    /\ Mounted("replay_wait")
    /\ replaying_seq = Len(Records(zh.log, DOMAIN disk))
    /\ mount' = "destroy"
    /\ mount_txg' = Target(zl_destroy_txg)
    /\ UNCHANGED <<zilVars, replaying_seq>>

ReplayDestroy ==
    /\ Mounted("destroy")
    /\ Destroy(FALSE)
    /\ mount' = "destroy_wait"
    /\ mount_txg' = open
    /\ UNCHANGED <<absVars, itxVars, next_blk, zl_lwb_inflight, diskVars, budget, threadVars,
                   zl_parallel, zl_suspending, zl_replayed_seq, zh, poolVars, recVars, replaying_seq>>

MountDone ==
    /\ Mounted("destroy_wait")
    /\ mount' = "up"
    /\ UNCHANGED <<zilVars, mount_txg, replaying_seq>>

-----------------------------------------------------------------------------
(* Between "claim" and "up" the file system is not mounted.                *)
Running ==
    /\ \E t \in Threads : (mount = "up" /\ Call(t)) \/ Step(t)
    /\ UNCHANGED mountVars

Background ==
    /\ mount # "claim"
    /\ Zio \/ SpaSync \/ TxgOpens(Demand \/ mount_txg >= open)
    /\ UNCHANGED mountVars

Import ==
    Claim \/ Replay \/ KeepFirst \/ ReplayRecord \/ ReplayDone \/ ReplayDestroy \/ MountDone

Next == Running \/ Background \/ Import \/ Crash

Spec == Init /\ [][Next]_vars

-----------------------------------------------------------------------------
TypeOK ==
    /\ open \in Nat /\ synced \in Nat
    /\ \A t \in Threads : held[t] \in 0..open /\ zcw[t].done \in BOOLEAN /\ zcw[t].lwb \in {0} \cup DOMAIN lwb
    /\ \A s \in Slots : zl_lwb_inflight[s] \in Nat
    /\ zl_last_lwb_opened \in {0} \cup DOMAIN lwb
    /\ \A l \in DOMAIN lwb : lwb[l].state \in
           {"new", "opened", "closed", "ready", "issued", "write_done_locked", "write_done", "flush_done"}
    /\ zl_issuer \in Threads \cup {None}
    /\ stable \subseteq DOMAIN disk /\ acked \subseteq 1..MaxRecs

(* The records that a loss of power now, with all unflushed writes lost,   *)
(* leaves: those in the pool, and those an import would replay.            *)
InPool(r) == fs[r] # 0 /\ fs[r] <= ub.txg

InLog(r) ==
    LET h == IF ub.zh.claim_txg # 0 THEN ub.zh ELSE [ub.zh EXCEPT !.claim_txg = ub.txg + 1]
        log == Records(h.log, stable)
    IN  \E i \in DOMAIN log : log[i].rec = r /\ Replays(h, log[i], i)

Recoverable(r) == InPool(r) \/ InLog(r)

(* zil_commit() keeps its promise: every record that a call was to make    *)
(* permanent is there after a loss of power at any time after the call has *)
(* returned, as long as no log block could not be allocated or written.    *)
Durable == ~budget.failed => \A r \in acked : Recoverable(r)

(* The same with failed writes: the waiters of a failed block and of the   *)
(* blocks after it fall back to txg_wait_synced().                         *)
DurableDespiteErrors == \A r \in acked : Recoverable(r)

(* No record is replayed on top of a pool that has it already: neither one *)
(* that reached the pool before the power failed nor one that an earlier   *)
(* replay, cut short, has brought there.                                   *)
AppliedOnce == [][\A r \in 1..MaxRecs : fs[r] # 0 => fs'[r] \in {0, fs[r]}]_vars

(* What zil.c asserts where it relies on other threads: once everything is *)
(* synced zil_commit_writer_stall() finds no block, so that the next call  *)
(* starts a new chain; a log that is being destroyed has none either,      *)
(* since nobody creates one before the header is on disk (zil_sync()); and *)
(* no block that was issued in a txg is in flight when the header of that  *)
(* txg is settled (zil_lwb_flush_wait_all()).                              *)
BlocksSettled ==
    /\ TypeOK
    /\ \A t \in Threads : pc[t] = "stall" /\ Synced(t) => DOMAIN lwb = {}
    /\ zl_destroy_txg > synced => DOMAIN lwb = {}
    /\ sync_st # "idle" => \A l \in DOMAIN lwb :
        lwb[l].issued_txg \in 1..Syncing => lwb[l].state = "flush_done"

(* Every call returns, every import ends in a mounted file system, and no  *)
(* block that was closed is left behind: where nothing but a new call or a *)
(* loss of power can happen, nobody is waiting.  As no step can be undone  *)
(* for ever within the bounds, this is what the waits of zil.c, the        *)
(* hand-over of a ready block to the thread that issues the block before   *)
(* it, and zil_clean() have to achieve.                                    *)
Work == (\E t \in Threads : Step(t) /\ UNCHANGED mountVars) \/ Background \/ Import

NobodyStuck ==
    \/ ENABLED Work
    \/ /\ mount = "up" /\ \A t \in Threads : pc[t] = "idle"
       /\ \A l \in DOMAIN lwb : lwb[l].state \in {"new", "opened", "flush_done"}
=============================================================================
