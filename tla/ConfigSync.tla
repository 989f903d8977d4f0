----------------------------- MODULE ConfigSync -----------------------------
(***************************************************************************)
(* How a txg is committed (vdev_config_sync(), called by spa_sync()):      *)
(* flush the data, write the even labels of the vdevs whose configuration  *)
(* changed, write the uberblock, write the odd labels, with a cache flush  *)
(* after each; retry harder, then suspend the pool, when writes fail.  A   *)
(* crash may come at any time and loses what the write caches hold;        *)
(* opening the pool takes the best uberblock that is left.                 *)
(*                                                                         *)
(* The writes of a pass are issued together, so a pass is one step that    *)
(* puts them into the caches and one that flushes them; a crash in between *)
(* keeps any of them.  The four copies of an uberblock on a leaf are one:  *)
(* a copy that cannot be read is not looked at.                            *)
(***************************************************************************)
EXTENDS Integers, FiniteSets, FiniteSetsExt

CONSTANTS
    Tops,               \* the top-level vdevs
    UbCount,            \* VDEV_UBERBLOCK_COUNT
    SyncMinVdevs,       \* SPA_SYNC_MIN_VDEVS
    InitTxg,            \* the txg the pool was created in
    MaxTxg,             \* bound: the last txg
    Pools               \* pools, and bounds on what happens to them

ASSUME ConfigAssumption ==
    /\ UbCount \in Nat \ {0} /\ SyncMinVdevs \in Nat \ {0}
    /\ InitTxg \in Nat \ {0}
    /\ \A p \in Pools :
        /\ p.torn \in BOOLEAN /\ p.errors \in Nat /\ p.crashes \in Nat
        /\ \A v \in Tops : p.leaves[v] # {}

VARIABLES
    pool,               \* the one of Pools this behaviour is of
    label,              \* the txg of each label of each leaf, 0 if unreadable
    label_cache,        \* the labels in the write cache, likewise, 0 if none
    ring,               \* the txgs of the uberblocks in each slot of a leaf
    ub_cache,           \* the uberblock in its write cache, 0 if none
    data_cache,         \* the vdevs that cache data of the syncing txg
    txg,                \* spa_syncing_txg
    ub_txg,             \* ub_txg of spa_uberblock
    config_dirty,       \* spa_config_dirty_list
    svd, tryhard,       \* the vdevs that get the uberblock, ZIO_FLAG_TRYHARD
    good,               \* enough writes of the pass have succeeded
    pc,                 \* where the sync thread is
    errors, crashes,    \* how many there were
    changed,            \* the last txg that has something to commit
    committed,          \* the last such txg that spa_sync() has finished
    configs             \* the txgs in which a vdev's configuration changed

LeavesOf == pool.leaves     \* the leaves of each top-level vdev
Leaves == UNION {LeavesOf[v] : v \in Tops}
TornLabels == pool.torn     \* a label write that does not finish ruins the label
MaxErrors == pool.errors    \* bound on failed writes
MaxCrashes == pool.crashes  \* bound on crashes

diskVars == <<label, label_cache, ring, ub_cache, data_cache>>
txgVars == <<txg, changed, committed, configs>>
vars == <<pool, diskVars, txgVars, ub_txg, config_dirty, svd, tryhard, good, pc, errors, crashes>>

Labels == 0..3          \* VDEV_LABELS
UbSlot(t) == t % UbCount

(* Every label of the pool, and those the pass for l (0 even, 1 odd)       *)
(* writes: of all leaves of the dirty vdevs.                               *)
Cached == {x \in Leaves \X Labels : label_cache[x[1]][x[2]] # 0}
LabelsOf(l) ==
    {x \in (UNION {LeavesOf[v] : v \in config_dirty}) \X Labels : x[2] % 2 = l}
SvdLeaves == UNION {LeavesOf[v] : v \in svd}

(* The uberblock vdev_uberblock_load() chooses, and the configuration      *)
(* vdev_label_read_config() finds on a leaf for it.                        *)
BestUb == Max({ring[d][s] : d \in Leaves, s \in 0..UbCount - 1})
ReadConfig(d, max_txg) ==
    Max({0} \cup {label[d][i] : i \in {j \in Labels : label[d][j] <= max_txg}})

Init ==
    /\ pool \in Pools
    /\ label = [d \in Leaves |-> [i \in Labels |-> InitTxg]]
    /\ label_cache = [d \in Leaves |-> [i \in Labels |-> 0]]
    /\ ring = [d \in Leaves |-> [s \in 0..UbCount - 1 |-> IF s = UbSlot(InitTxg) THEN InitTxg ELSE 0]]
    /\ ub_cache = [d \in Leaves |-> 0]
    /\ data_cache = {}
    /\ txg = InitTxg /\ ub_txg = InitTxg
    /\ config_dirty = {} /\ svd = {} /\ tryhard = FALSE /\ good = FALSE
    /\ pc = "open"
    /\ errors = 0 /\ crashes = 0
    /\ changed = InitTxg /\ committed = InitTxg
    /\ configs = [v \in Tops |-> {InitTxg}]

-----------------------------------------------------------------------------
(* spa_sync() has written the data of the next txg.  A new configuration   *)
(* is part of it (the config object in the MOS).                           *)
BeginTxg(data, dirty) ==
    /\ pc = "open"
    /\ txg < MaxTxg
    /\ dirty # {} => data # {}
    /\ txg' = txg + 1
    /\ data_cache' = data
    /\ config_dirty' = dirty
    /\ changed' = IF data # {} THEN txg + 1 ELSE changed
    /\ configs' = [v \in Tops |-> configs[v] \cup (IF v \in dirty THEN {txg + 1} ELSE {})]
    /\ pc' = "rewrite"
    /\ UNCHANGED <<label, label_cache, ring, ub_cache, ub_txg, svd, tryhard, good,
                   errors, crashes, committed>>

(* spa_sync_rewrite_vdev_config(): which vdevs get the uberblock.  Without *)
(* configuration changes, a few at random.                                 *)
RewriteVdevConfig(vds) ==
    /\ pc = "rewrite"
    /\ IF config_dirty = {}
       THEN vds \subseteq Tops /\ Cardinality(vds) = Min({SyncMinVdevs, Cardinality(Tops)})
       ELSE vds = Tops
    /\ svd' = vds
    /\ tryhard' = FALSE
    /\ pc' = "start"
    /\ UNCHANGED <<diskVars, txgVars, ub_txg, config_dirty, good, errors, crashes>>

StartNoFlush ==
    /\ pc = "start"
    /\ ub_txg' = txg
    /\ pc' = IF ub_txg < txg /\ changed < txg /\ config_dirty = {} THEN "done" ELSE "even"
    /\ UNCHANGED <<diskVars, txgVars, config_dirty, svd, tryhard, good, errors, crashes>>

(* vdev_config_sync(), from retry: update the uberblock, stop if there is  *)
(* nothing to commit, flush the data.                                      *)
Start ==
    /\ pc = "start"
    /\ ub_txg' = txg
    /\ IF ub_txg < txg /\ changed < txg /\ config_dirty = {}
       THEN pc' = "done" /\ UNCHANGED data_cache
       ELSE pc' = "even" /\ data_cache' = {}
    /\ UNCHANGED <<label, label_cache, ring, ub_cache, txgVars, config_dirty, svd, tryhard,
                   good, errors, crashes>>

(* A pass failed: once more with ZIO_FLAG_TRYHARD, then give up.           *)
Retry ==
    IF tryhard THEN pc' = "failed" /\ UNCHANGED tryhard
               ELSE pc' = "start" /\ tryhard' = TRUE

(* vdev_label_sync_list(): the even or odd labels of the dirty vdevs.      *)
(* Some writes fail, and may ruin the label; one good write per vdev is    *)
(* enough.                                                                 *)
LabelSync(l, here, next, failed, torn) ==
    /\ pc = here
    /\ failed \subseteq LabelsOf(l)
    /\ torn \subseteq failed /\ (torn # {} => TornLabels)
    /\ errors' = errors + Cardinality(failed)
    /\ errors' <= MaxErrors
    /\ label_cache' = [d \in Leaves |-> [i \in Labels |->
            IF <<d, i>> \in LabelsOf(l) \ failed THEN txg ELSE label_cache[d][i]]]
    /\ label' = [d \in Leaves |-> [i \in Labels |->
            IF <<d, i>> \in torn THEN 0 ELSE label[d][i]]]
    /\ good' = \A v \in config_dirty : \E x \in LabelsOf(l) \ failed : x[1] \in LeavesOf[v]
    /\ pc' = next
    /\ UNCHANGED <<ring, ub_cache, data_cache, txgVars, ub_txg, config_dirty, svd, tryhard, crashes>>

LabelFlushNone(here, next) ==
    /\ pc = here
    /\ pc' = next
    /\ UNCHANGED <<diskVars, txgVars, ub_txg, config_dirty, svd, tryhard, good, errors, crashes>>

LabelFlush(here, next) ==
    /\ pc = here
    /\ label' = [d \in Leaves |-> [i \in Labels |->
            IF label_cache[d][i] # 0 THEN label_cache[d][i] ELSE label[d][i]]]
    /\ label_cache' = [d \in Leaves |-> [i \in Labels |-> 0]]
    /\ IF good THEN pc' = next /\ UNCHANGED tryhard ELSE Retry
    /\ UNCHANGED <<ring, ub_cache, data_cache, txgVars, ub_txg, config_dirty, svd, good,
                   errors, crashes>>

UberblockSyncLax(failed) ==
    /\ pc = "ub"
    /\ failed \subseteq SvdLeaves
    /\ errors' = errors + Cardinality(failed)
    /\ errors' <= MaxErrors
    /\ ub_cache' = [d \in Leaves |-> IF d \in SvdLeaves \ failed THEN ub_txg ELSE 0]
    /\ good' = TRUE
    /\ pc' = "ub_flush"
    /\ UNCHANGED <<label, label_cache, ring, data_cache, txgVars, ub_txg, config_dirty, svd,
                   tryhard, crashes>>

(* vdev_uberblock_sync_list(): the uberblock to the leaves of svd.  One    *)
(* good write is enough.                                                   *)
UberblockSync(failed) ==
    /\ pc = "ub"
    /\ failed \subseteq SvdLeaves
    /\ errors' = errors + Cardinality(failed)
    /\ errors' <= MaxErrors
    /\ ub_cache' = [d \in Leaves |-> IF d \in SvdLeaves \ failed THEN ub_txg ELSE 0]
    /\ good' = (failed # SvdLeaves)
    /\ pc' = "ub_flush"
    /\ UNCHANGED <<label, label_cache, ring, data_cache, txgVars, ub_txg, config_dirty, svd,
                   tryhard, crashes>>

(* An uberblock reaches its slot of the ring of a leaf.                    *)
RingWith(written) ==
    [d \in Leaves |-> [s \in 0..UbCount - 1 |->
        IF d \in written /\ ub_cache[d] # 0 /\ s = UbSlot(ub_cache[d])
        THEN ub_cache[d] ELSE ring[d][s]]]

UberblockFlush ==
    /\ pc = "ub_flush"
    /\ ring' = RingWith(Leaves)
    /\ ub_cache' = [d \in Leaves |-> 0]
    /\ IF good THEN pc' = "odd" /\ UNCHANGED tryhard ELSE Retry
    /\ UNCHANGED <<label, label_cache, data_cache, txgVars, ub_txg, config_dirty, svd, good,
                   errors, crashes>>

(* zio_suspend() and zio_resume_wait(): then everything again.             *)
Resume ==
    /\ pc = "failed"
    /\ pc' = "rewrite"
    /\ UNCHANGED <<diskVars, txgVars, ub_txg, config_dirty, svd, tryhard, good, errors, crashes>>

(* The end of spa_sync(): the dirty list is cleared, spa_ubsync set.       *)
Done ==
    /\ pc = "done"
    /\ config_dirty' = {}
    /\ committed' = changed
    /\ pc' = "open"
    /\ UNCHANGED <<diskVars, txg, changed, configs, ub_txg, svd, tryhard, good, errors, crashes>>

-----------------------------------------------------------------------------
(* Power is lost.  Any of the cached writes may have reached the disk; a   *)
(* label may be half written, an uberblock is not.                         *)
Crash(kept, torn, ubs) ==
    /\ pc # "down"
    /\ crashes < MaxCrashes
    /\ kept \subseteq Cached /\ torn \subseteq Cached \ kept
    /\ torn # {} => TornLabels
    /\ ubs \subseteq {d \in Leaves : ub_cache[d] # 0}
    /\ label' = [d \in Leaves |-> [i \in Labels |->
            CASE <<d, i>> \in kept -> label_cache[d][i]
              [] <<d, i>> \in torn -> 0
              [] OTHER -> label[d][i]]]
    /\ ring' = RingWith(ubs)
    /\ label_cache' = [d \in Leaves |-> [i \in Labels |-> 0]]
    /\ ub_cache' = [d \in Leaves |-> 0]
    /\ pc' = "down"
    /\ crashes' = crashes + 1
    /\ UNCHANGED <<data_cache, txgVars, ub_txg, config_dirty, svd, tryhard, good, errors>>

(* The pool is opened from its best uberblock.                             *)
Open ==
    /\ pc = "down"
    /\ txg' = BestUb /\ ub_txg' = BestUb
    /\ changed' = BestUb /\ committed' = BestUb
    /\ configs' = [v \in Tops |-> {t \in configs[v] : t <= BestUb}]
    /\ data_cache' = {} /\ config_dirty' = {}
    /\ svd' = {} /\ tryhard' = FALSE /\ good' = FALSE
    /\ pc' = "open"
    /\ UNCHANGED <<label, label_cache, ring, ub_cache, errors, crashes>>

AtBound == pc = "open" /\ txg = MaxTxg /\ UNCHANGED vars

(* The label writes that may be left half done, of some that do not finish.  *)
Torn(unfinished) == IF TornLabels THEN SUBSET unfinished ELSE {{}}

Next ==
    /\ UNCHANGED pool
    /\ \/ \E data, dirty \in SUBSET Tops : BeginTxg(data, dirty)
       \/ \E vds \in SUBSET Tops : RewriteVdevConfig(vds)
       \/ Start \/ Resume \/ Done \/ Open \/ AtBound
       \/ \E failed \in SUBSET LabelsOf(0) : \E torn \in Torn(failed) :
               LabelSync(0, "even", "even_flush", failed, torn)
       \/ LabelFlush("even_flush", "ub")
       \/ \E failed \in SUBSET SvdLeaves : UberblockSync(failed)
       \/ UberblockFlush
       \/ \E failed \in SUBSET LabelsOf(1) : \E torn \in Torn(failed) :
               LabelSync(1, "odd", "odd_flush", failed, torn)
       \/ LabelFlush("odd_flush", "done")
       \/ \E kept \in SUBSET Cached, ubs \in SUBSET {d \in Leaves : ub_cache[d] # 0} :
               \E torn \in Torn(Cached \ kept) : Crash(kept, torn, ubs)

Spec == Init /\ [][Next]_vars

-----------------------------------------------------------------------------
Txgs == 0..MaxTxg

TypeOK ==
    /\ label \in [Leaves -> [Labels -> Txgs]]
    /\ label_cache \in [Leaves -> [Labels -> Txgs]]
    /\ ring \in [Leaves -> [0..UbCount - 1 -> Txgs]]
    /\ ub_cache \in [Leaves -> Txgs]
    /\ data_cache \in SUBSET Tops /\ config_dirty \in SUBSET Tops /\ svd \in SUBSET Tops
    /\ {txg, ub_txg, changed, committed} \subseteq Txgs
    /\ tryhard \in BOOLEAN /\ good \in BOOLEAN
    /\ pc \in {"open", "rewrite", "start", "even", "even_flush", "ub", "ub_flush", "odd",
               "odd_flush", "done", "failed", "down"}
    /\ configs \in [Tops -> SUBSET Txgs]

(* No uberblock of a txg is written, not even to a cache, while data of    *)
(* that txg may still be lost: vdev_config_sync() flushes the data first,  *)
(* on every path that leads to vdev_uberblock_sync_list().                 *)
DataBeforeUberblock ==
    /\ TypeOK
    /\ data_cache # {} =>
        \A d \in Leaves : ub_cache[d] # txg /\ \A s \in 0..UbCount - 1 : ring[d][s] # txg

(* After a crash every top-level vdev still has a label that was written   *)
(* for the configuration it has at the best uberblock: "Given arbitrary    *)
(* failure, we can determine the correct label to use based on the         *)
(* transaction group".                                                     *)
LabelsCurrent ==
    pc = "down" =>
        \A v \in Tops : \E d \in LeavesOf[v] :
            ReadConfig(d, BestUb) = Max({t \in configs[v] : t <= BestUb})

(* LabelsCurrent is so for the first crash, whichever cached writes were   *)
(* lost or half done, and the configuration any leaf's label gives for the *)
(* best uberblock is then one that was committed.  For the second crash    *)
(* neither is so: the first one may have left the odd labels behind, while *)
(* the even labels, the only good ones, are those vdev_config_sync()       *)
(* rewrites next; and the number of the txg the first one undid is used    *)
(* again, which makes the labels that were written for it look valid.      *)
LabelsCurrentOnce ==
    crashes <= 1 /\ errors = 0 =>
        /\ LabelsCurrent
        /\ pc = "down" => \A v \in Tops : \A d \in LeavesOf[v] :
            ReadConfig(d, BestUb) \in {t \in configs[v] : t <= BestUb} \cup {0}

(* What spa_sync() promises: a txg is committed as a whole or not at all,  *)
(* in spite of crashes and failed writes, and once it has finished the txg *)
(* is what a later open finds.                                             *)
Commit == INSTANCE PoolCommit WITH
    durable <- BestUb, tip <- changed, acked <- committed, up <- (pc # "down")

CommitsAtomically == Commit!CommitSpec
=============================================================================
