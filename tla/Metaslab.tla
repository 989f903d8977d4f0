------------------------------ MODULE Metaslab ------------------------------
(***************************************************************************)
(* The space of a pool (metaslab.c, spa_log_spacemap.c and the sync loop   *)
(* of spa.c): which blocks are free.  A metaslab's free blocks are in      *)
(* memory while it is loaded; on disk they follow from its space map and   *)
(* from the log space maps of the txgs since it was flushed.  Blocks move  *)
(* between the two through range trees of the txg that changes them, while *)
(* other threads allocate, load and evict.  A range tree is a set of       *)
(* blocks here, and a space map is the set of blocks it leaves allocated.  *)
(***************************************************************************)
EXTENDS Integers, FiniteSets, Sequences, Functions

CONSTANTS
    MsSpace,            \* the blocks of each metaslab; its domain is 1..n
    DisturbCondense,    \* may a metaslab change while it is condensed?
    MsLastTxg,          \* bound: no txg beyond it is synced
    MsStarts            \* the pools to start from, with bounds on what happens

VARIABLES
    ms,                 \* the metaslabs in memory, see NewMs
    ms_list,            \* vdev_ms_list: the dirty metaslabs of each txg
    log_open,           \* spa_syncing_log_sm is not NULL
    mos,                \* what the meta-objset says of the space, see MsInit
    ms_ub,              \* the last uberblock: its txg, mos and blocks
    ms_hist,            \* the blocks of the two txgs before it
    ms_born,            \* the txg a block was allocated in, 0 when free
    log_enabled,        \* SPA_FEATURE_LOG_SPACEMAP is enabled
    roomy,              \* the pool never runs short of space
    sync_at,            \* where spa_sync() is
    sync_pass,          \* spa_sync_pass
    synced_txg,         \* the last txg that spa_sync() has done
    born_root,          \* dsl_pool_sync() had something to write
    mos_dirty,          \* dmu_objset_is_dirty(mos, txg)
    ms_curr,            \* the metaslab spa_sync() is at, 0 if none
    ms_visited,         \* those spa_flush_metaslabs() has seen
    ms_budget

msCoreVars == <<ms, ms_list, ms_born>>
msDiskVars == <<mos, ms_ub, ms_hist>>
msKindVars == <<log_enabled, roomy>>
msSpaVars  == <<sync_at, sync_pass, synced_txg, born_root, mos_dirty, ms_curr, ms_visited, log_open>>
msVars   == <<msCoreVars, msDiskVars, msKindVars, msSpaVars, ms_budget>>

TXG_SIZE == 4
TXG_DEFER_SIZE == 2
TXG_CONCURRENT_STATES == 3
zfs_sync_pass_deferred_free == 2
ChangePasses == 2       \* bound: the passes that allocate and free blocks

MsIds == DOMAIN MsSpace
MsBlocks == UNION {{m} \X MsSpace[m] : m \in MsIds}
MsSlot(t) == t % TXG_SIZE
MsClean(t) == MsSlot(t - 1)           \* TXG_CLEAN()
syncing == synced_txg + 1
Of(m, blocks) == {p[2] : p \in {q \in blocks : q[1] = m}}

NewMs(sm, un, dirty) ==
    [ loaded      |-> FALSE, allocatable |-> {},        \* ms_loaded, ms_allocatable
      loading     |-> "no",             \* "flush": waits for it, "read": of the space map
      read        |-> {},               \* what the load reads, up to ms_synced_length
      allocating  |-> [s \in 0..(TXG_SIZE - 1) |-> {}],
      this_txg    |-> {},               \* ms_allocated_this_txg
      freeing     |-> {}, freed |-> {},
      defer       |-> [d \in 0..(TXG_DEFER_SIZE - 1) |-> {}],
      allocs      |-> un.allocs, frees |-> un.frees,    \* ms_unflushed_allocs, _frees
      dirty       |-> dirty,            \* ms_unflushed_dirty
      synced      |-> sm,               \* the space map up to ms_synced_length
      busy        |-> "no",             \* "flushing" or "condensing"
      condense    |-> {} ]              \* condense_tree

(* A pool whose space maps are all there is.                               *)
MsInit ==
    \E start \in MsStarts :
        /\ mos = [ sm |-> [m \in MsIds |-> Of(m, start.used)], unflushed |-> [m \in MsIds |-> 0],
                   zap |-> FALSE, logs |-> <<>>, deferred |-> {} ]
        /\ ms_ub = [txg |-> 1, mos |-> mos, used |-> start.used]
        /\ ms_hist = <<start.used, start.used>>
        /\ ms = [m \in MsIds |-> NewMs(mos.sm[m], [allocs |-> {}, frees |-> {}], FALSE)]
        /\ ms_born = [b \in MsBlocks |-> IF b \in start.used THEN 1 ELSE 0]
        /\ ms_list = [s \in 0..(TXG_SIZE - 1) |-> {}]
        /\ log_enabled = start.log /\ roomy = start.roomy
        /\ sync_at = "idle" /\ sync_pass = 0 /\ synced_txg = 1
        /\ born_root = FALSE /\ mos_dirty = FALSE /\ log_open = FALSE
        /\ ms_curr = 0 /\ ms_visited = {}
        /\ ms_budget = start.bounds

MsSpend(what) == ms_budget[what] > 0 /\ ms_budget' = [ms_budget EXCEPT ![what] = @ - 1]

-----------------------------------------------------------------------------
(* Open context, and the writes of dsl_pool_sync().                        *)

(* Is txg t one that blocks are allocated for?  The syncing txg while      *)
(* dsl_pool_sync() writes, and the open and quiescing ones at any time.    *)
AllocatesFor(t) ==
    \/ t = syncing /\ \/ sync_at = "idle"
                      \/ sync_at = "write" /\ born_root /\ sync_pass <= ChangePasses
    \/ t = syncing + 1
    \/ t = syncing + 2 /\ sync_at # "idle"

metaslab_block_alloc(m, b, t) ==
    /\ MsSpend("allocs")
    /\ AllocatesFor(t) /\ t <= MsLastTxg
    /\ ms[m].loaded /\ ms[m].busy # "condensing" /\ b \in ms[m].allocatable
    /\ ms' = [ms EXCEPT ![m].allocatable = @ \ {b}, ![m].allocating[MsSlot(t)] = @ \cup {b}]
    /\ ms_list' = IF ms[m].allocating[MsSlot(t)] = {}
                  THEN [ms_list EXCEPT ![MsSlot(t)] = @ \cup {m}] ELSE ms_list
    /\ ms_born' = [ms_born EXCEPT ![<<m, b>>] = t]
    /\ UNCHANGED <<msDiskVars, msKindVars, msSpaVars>>

(* The write of a block just allocated has failed (zio_done()).            *)
metaslab_unalloc_dva(m, b, t) ==
    /\ MsSpend("unallocs")
    /\ AllocatesFor(t) /\ ms_born[<<m, b>>] = t /\ b \in ms[m].allocating[MsSlot(t)]
    /\ ms[m].busy = "condensing" => DisturbCondense
    /\ ms' = [ms EXCEPT ![m].allocating[MsSlot(t)] = @ \ {b}, ![m].allocatable = @ \cup {b}]
    /\ ms_born' = [ms_born EXCEPT ![<<m, b>>] = 0]
    /\ UNCHANGED <<ms_list, msDiskVars, msKindVars, msSpaVars>>

(* metaslab_free_concrete(), for all of a set of blocks.                   *)
FreeConcrete(blocks) ==
    LET to == {m \in MsIds : Of(m, blocks) # {}}
    IN  /\ ms' = [m \in MsIds |-> [ms[m] EXCEPT !.freeing = @ \cup Of(m, blocks)]]
        /\ ms_list' = [ms_list EXCEPT ![MsSlot(syncing)] = @ \cup {m \in to : ms[m].freeing = {}}]

(* A block is freed while dsl_pool_sync() writes: at once (spa_sync_frees),*)
(* or put on spa_deferred_bpobj for the next txg.                          *)
spa_free(b) ==
    /\ MsSpend("frees")
    /\ sync_at = "write" /\ born_root /\ sync_pass <= ChangePasses
    /\ ms_born[b] \in 1..syncing
    /\ ms_born' = [ms_born EXCEPT ![b] = 0]
    /\ \/ /\ sync_pass < zfs_sync_pass_deferred_free \/ mos.zap
          /\ FreeConcrete({b})
          /\ UNCHANGED <<mos, mos_dirty>>
       \/ /\ sync_pass >= zfs_sync_pass_deferred_free /\ ~mos.zap
          /\ mos' = [mos EXCEPT !.deferred = @ \cup {b}] /\ mos_dirty' = TRUE
          /\ UNCHANGED <<ms, ms_list>>
    /\ UNCHANGED <<ms_ub, ms_hist, msKindVars, sync_at, sync_pass, synced_txg, born_root, ms_curr,
                   ms_visited, log_open>>

-----------------------------------------------------------------------------
(* Loading and evicting.                                                   *)

(* Mutant: what has been written this txg no longer counts.                *)
NoTreeAllocating(m) == \A s \in 0..(TXG_SIZE - 1) : ms[m].allocating[s] = {}

(* ms_allocating_total = 0: it counts until the txg is synced.             *)
NoneAllocating(m) == ms[m].this_txg = {} /\ \A s \in 0..(TXG_SIZE - 1) : ms[m].allocating[s] = {}

Unloaded(m) == [ms[m] EXCEPT !.loaded = FALSE, !.allocatable = {}]

(* metaslab_potentially_evict(): what it may unload when m is loaded.      *)
Evictable(m) ==
    {n \in MsIds \ {m} : /\ ms[n].loaded /\ NoneAllocating(n)
                         /\ ms[n].busy = "condensing" => DisturbCondense}

(* Another metaslab may be evicted; then metaslab_load_impl() drops ms_lock*)
(* and reads the space map up to ms_synced_length.                         *)
StartsToRead(m) ==
    \E out \in {{}} \cup {{n} : n \in Evictable(m)} :
        ms' = [n \in MsIds |-> IF n \in out THEN Unloaded(n)
                              ELSE IF n = m THEN [ms[m] EXCEPT !.loading = "read", !.read = ms[m].synced]
                              ELSE ms[n]]

(* metaslab_load(): a flush that goes on is waited for first.              *)
metaslab_load(m) ==
    /\ MsSpend("loads")
    /\ ~ms[m].loaded /\ ms[m].loading = "no"
    /\ \/ ms[m].busy = "flushing" /\ ms' = [ms EXCEPT ![m].loading = "flush"]
       \/ ms[m].busy # "flushing" /\ StartsToRead(m)
    /\ UNCHANGED <<ms_list, ms_born, msDiskVars, msKindVars, msSpaVars>>

metaslab_flush_wait(m) ==
    /\ ms[m].loading = "flush" /\ ms[m].busy # "flushing"
    /\ StartsToRead(m)
    /\ UNCHANGED <<ms_list, ms_born, msDiskVars, msKindVars, msSpaVars, ms_budget>>

(* What is free once the space map has been read.                          *)
Loaded(m) ==
    LET f == (MsSpace[m] \ (ms[m].read \cup ms[m].allocs)) \cup ms[m].frees
    IN  (IF log_open THEN f \ ms[m].freed ELSE f) \ UNION Range(ms[m].defer)

(* The end of metaslab_load(), under ms_sync_lock, which spa_sync() holds  *)
(* while it is at the metaslab.  The read may have failed.                 *)
MsLoadDone(m) ==
    /\ ms[m].loading = "read" /\ ms_curr # m
    /\ \E ok \in BOOLEAN :
           ms' = [ms EXCEPT ![m].loading = "no", ![m].read = {}, ![m].loaded = ok,
                            ![m].allocatable = IF ok THEN Loaded(m) ELSE {}]
    /\ UNCHANGED <<ms_list, ms_born, msDiskVars, msKindVars, msSpaVars, ms_budget>>

(* metaslab_class_evict_old(), at the end of spa_sync(), of a metaslab that*)
(* has long not been allocated from.                                       *)
metaslab_evict(m) ==
    /\ MsSpend("evicts")
    /\ sync_at = "done" /\ ms_list[MsClean(syncing)] = {}
    /\ ms[m].loaded /\ NoneAllocating(m)
    /\ ms' = [ms EXCEPT ![m] = Unloaded(m)]
    /\ UNCHANGED <<ms_list, ms_born, msDiskVars, msKindVars, msSpaVars>>

-----------------------------------------------------------------------------
(* spa_sync().                                                             *)

spa_sync ==
    /\ sync_at = "idle" /\ syncing <= MsLastTxg
    /\ sync_at' = "write" /\ sync_pass' = 1 /\ mos_dirty' = FALSE
    /\ \/ born_root' = TRUE /\ MsSpend("writes")
       \/ born_root' = FALSE /\ UNCHANGED ms_budget
    /\ UNCHANGED <<msCoreVars, msDiskVars, msKindVars, synced_txg, ms_curr, ms_visited, log_open>>

(* spa_generate_syncing_log_sm(): what it makes of the meta-objset.        *)
WithLog(mo) ==
    IF ~log_enabled THEN mo
    ELSE [mo EXCEPT !.zap = TRUE,
                    !.logs = [t \in DOMAIN mo.logs \cup {syncing} |->
                                 IF t \in DOMAIN mo.logs THEN mo.logs[t] ELSE <<>>]]

(* Mutant: the log that the oldest metaslab was flushed in is removed too. *)
CleanedUpTooFar(mo) ==
    LET kept == {t \in DOMAIN mo.logs : \E m \in MsIds : mo.unflushed[m] \in 1..(t - 1)}
    IN  [mo EXCEPT !.logs = [t \in kept |-> mo.logs[t]]]

(* spa_cleanup_old_sm_logs()                                               *)
CleanedUp(mo) ==
    LET kept == {t \in DOMAIN mo.logs : \E m \in MsIds : mo.unflushed[m] \in 1..t}
    IN  [mo EXCEPT !.logs = [t \in kept |-> mo.logs[t]]]

(* metaslab_unflushed_bump()                                               *)
Bumped(mo, m) == CleanedUp([mo EXCEPT !.unflushed[m] = syncing])

(* spa_flush_metaslabs(), before its loop.                                 *)
spa_flush_metaslabs ==
    /\ sync_at = "write"
    /\ IF sync_pass = 1 /\ mos.zap /\ born_root /\ \E m \in MsIds : mos.unflushed[m] # 0
       THEN /\ mos' = WithLog(mos) /\ mos_dirty' = TRUE /\ log_open' = TRUE
            /\ sync_at' = "flush"
       ELSE UNCHANGED <<mos, mos_dirty, log_open>> /\ sync_at' = "vdev_sync"
    /\ ms_visited' = {}
    /\ UNCHANGED <<msCoreVars, ms_ub, ms_hist, msKindVars, sync_pass, synced_txg, born_root, ms_curr,
                   ms_budget>>

(* spa_metaslabs_by_flushed: does m come before n?                         *)
FlushedBefore(m, n) ==
    \/ mos.unflushed[m] < mos.unflushed[n]
    \/ mos.unflushed[m] = mos.unflushed[n] /\ m <= n

(* The start of metaslab_condense(): ms_condensing keeps allocations off   *)
(* while ms_lock is dropped.                                               *)
Condensing(m) ==
    [ms[m] EXCEPT !.busy = "condensing", !.allocs = {}, !.frees = {},
                  !.condense = UNION Range(ms[m].defer) \cup
                               UNION {ms[m].allocating[MsSlot(syncing + t)] :
                                         t \in 0..(TXG_CONCURRENT_STATES - 1)}]

(* metaslab_should_condense() may go either way, but for a full metaslab.  *)
NeedNotCondense(m) == ms[m].allocatable # {}

(* One turn of its loop: metaslab_flush() of a metaslab with changes, up   *)
(* to where it drops ms_lock.  One that is loading is passed over.         *)
FlushTurn(m) ==
    /\ sync_at = "flush" /\ ms_curr = 0
    /\ LET left == {n \in MsIds \ ms_visited : mos.unflushed[n] # 0}
       IN  m \in left /\ (\A n \in left : FlushedBefore(m, n)) /\ mos.unflushed[m] # syncing
    /\ ms_visited' = ms_visited \cup {m}
    /\ \/ /\ ~ms[m].dirty
          /\ mos' = Bumped(mos, m)
          /\ UNCHANGED <<ms, ms_curr>>
       \/ /\ ms[m].dirty /\ ms[m].loading # "no"
          /\ UNCHANGED <<ms, ms_curr, mos>>
       \/ /\ ms[m].dirty /\ ms[m].loading = "no"
          /\ \/ ms[m].loaded /\ ms' = [ms EXCEPT ![m] = Condensing(m)]
             \/ /\ ms[m].loaded => NeedNotCondense(m)
                /\ ms' = [ms EXCEPT ![m].busy = "flushing"]
          /\ ms_curr' = m
          /\ UNCHANGED mos
    /\ UNCHANGED <<ms_list, ms_born, ms_ub, ms_hist, msKindVars, sync_at, sync_pass, synced_txg,
                   born_root, mos_dirty, log_open, ms_budget>>

(* Enough has been flushed, or all.                                        *)
FlushedEnough ==
    /\ sync_at = "flush" /\ ms_curr = 0
    /\ sync_at' = "vdev_sync"
    /\ UNCHANGED <<msCoreVars, msDiskVars, msKindVars, sync_pass, synced_txg, born_root, mos_dirty, ms_curr,
                   ms_visited, log_open, ms_budget>>

(* metaslab_flush_update(): the space map of m is now sm.                  *)
FlushUpdate(m, sm) ==
    LET mo     == [mos EXCEPT !.sm[m] = sm]
        active == mos.zap /\ mos.unflushed[m] # 0
    IN  /\ mos' = IF active THEN Bumped(mo, m) ELSE mo
        /\ ms' = [ms EXCEPT ![m].synced = sm, ![m].allocs = {}, ![m].frees = {}, ![m].busy = "no",
                            ![m].condense = {}, ![m].dirty = IF active THEN FALSE ELSE @]

(* The rest of metaslab_flush(): the changes are appended to the space map.*)
MsFlushDone(m) ==
    /\ ms_curr = m /\ ms[m].busy = "flushing"
    /\ FlushUpdate(m, (mos.sm[m] \cup ms[m].allocs) \ ms[m].frees)
    /\ ms_curr' = 0
    /\ UNCHANGED <<ms_list, ms_born, ms_ub, ms_hist, msKindVars, sync_at, sync_pass, synced_txg,
                   born_root, mos_dirty, ms_visited, log_open, ms_budget>>

(* The rest of metaslab_condense(): the space map is written anew.         *)
CondenseDone(m) ==
    /\ ms_curr = m /\ ms[m].busy = "condensing"
    /\ FlushUpdate(m, MsSpace[m] \ (ms[m].allocatable \cup ms[m].condense))
    /\ ms_curr' = IF sync_at = "flush" THEN 0 ELSE m
    /\ UNCHANGED <<ms_list, ms_born, ms_ub, ms_hist, msKindVars, sync_at, sync_pass, synced_txg,
                   born_root, mos_dirty, ms_visited, log_open, ms_budget>>

-----------------------------------------------------------------------------
(* vdev_sync().                                                            *)

MsWork(m) == ms[m].allocating[MsSlot(syncing)] # {} \/ ms[m].freeing # {}

(* metaslab_sync() condenses first.                                        *)
SyncCondense(m) ==
    /\ sync_at = "vdev_sync" /\ ms_curr = 0 /\ m \in ms_list[MsSlot(syncing)]
    /\ MsWork(m) /\ sync_pass = 1 /\ ms[m].loaded
    /\ mos' = WithLog(mos) /\ mos_dirty' = TRUE /\ log_open' = log_enabled
    /\ ms' = [ms EXCEPT ![m] = Condensing(m)]
    /\ ms_curr' = m
    /\ UNCHANGED <<ms_list, ms_born, ms_ub, ms_hist, msKindVars, sync_at, sync_pass, synced_txg,
                   born_root, ms_visited, ms_budget>>

(* range_tree_remove_xor_add()                                             *)
XorAdd(set, from, to) == [from |-> from \ set, to |-> to \cup (set \ from)]

(* The unflushed trees after the blocks of "allocs" are allocated and those*)
(* of "frees" freed.                                                       *)
Unflushed(un, allocs, frees) ==
    LET a == XorAdd(allocs, un.frees, un.allocs)
        f == XorAdd(frees, a.to, a.from)
    IN  [allocs |-> f.from, frees |-> f.to]

(* What metaslab_sync() writes, of the blocks allocated and freed: to the  *)
(* log space map, or without one to the space map of the metaslab.         *)
SyncWrites(m, allocs, frees) ==
    LET mo  == WithLog(mos)
        new == mo.unflushed[m] = 0 \/ ~ms[m].dirty
        lm  == IF mo.unflushed[m] = 0 THEN [mo EXCEPT !.unflushed[m] = syncing]
               ELSE IF new THEN Bumped(mo, m) ELSE mo
    IN  IF log_enabled
        THEN [lm EXCEPT !.logs[syncing] = Append(@, [m |-> m, allocs |-> allocs, frees |-> frees])]
        ELSE [mo EXCEPT !.sm[m] = (@ \cup allocs) \ frees]

metaslab_sync(m) ==
    LET slot   == MsSlot(syncing)
        allocs == ms[m].allocating[slot]
        frees  == ms[m].freeing
        un     == IF log_enabled
                  THEN Unflushed([allocs |-> ms[m].allocs, frees |-> ms[m].frees], allocs, frees)
                  ELSE [allocs |-> ms[m].allocs, frees |-> ms[m].frees]
    IN  /\ sync_at = "vdev_sync" /\ m \in ms_list[slot]
        /\ \/ ms_curr = m /\ ms[m].busy = "no"
           \/ /\ ms_curr = 0
              /\ MsWork(m) /\ sync_pass = 1 /\ ms[m].loaded => NeedNotCondense(m)
        /\ IF MsWork(m)
           THEN /\ mos' = SyncWrites(m, allocs, frees) /\ mos_dirty' = TRUE /\ log_open' = log_enabled
                /\ ms' = [ms EXCEPT ![m].allocating[slot] = {}, ![m].this_txg = @ \cup allocs,
                                    ![m].freeing = IF sync_pass = 1 THEN ms[m].freed ELSE {},
                                    ![m].freed = IF sync_pass = 1 THEN frees ELSE @ \cup frees,
                                    ![m].allocs = un.allocs, ![m].frees = un.frees,
                                    ![m].dirty = log_enabled]
           ELSE UNCHANGED <<mos, mos_dirty, log_open, ms>>
        /\ ms_list' = [ms_list EXCEPT ![slot] = @ \ {m}, ![MsClean(syncing)] = @ \cup {m}]
        /\ ms_curr' = 0
        /\ UNCHANGED <<ms_born, ms_ub, ms_hist, msKindVars, sync_at, sync_pass, synced_txg, born_root,
                       ms_visited, ms_budget>>

-----------------------------------------------------------------------------
(* The end of a pass.  A first pass that changed nothing makes the txg a   *)
(* no-op.  Else it ends by freeing what was deferred in earlier txgs       *)
(* (spa_sync_deferred_frees()), and there is another if the meta-objset is *)
(* dirty.                                                                  *)
NoOpTxg == sync_pass = 1 /\ ~born_root /\ ~mos_dirty

PassDone ==
    /\ sync_at = "vdev_sync" /\ ms_curr = 0 /\ ms_list[MsSlot(syncing)] = {}
    /\ \/ NoOpTxg /\ sync_at' = "commit" /\ UNCHANGED <<ms, ms_list, mos, sync_pass, mos_dirty>>
       \/ /\ ~NoOpTxg
          /\ LET frees == IF sync_pass = 1 THEN mos.deferred ELSE {}
             IN  /\ FreeConcrete(frees)
                 /\ mos' = [mos EXCEPT !.deferred = @ \ frees]
                 /\ IF mos_dirty \/ frees # {}
                    THEN sync_at' = "write" /\ sync_pass' = sync_pass + 1 /\ mos_dirty' = FALSE
                    ELSE sync_at' = "commit" /\ UNCHANGED <<sync_pass, mos_dirty>>
    /\ UNCHANGED <<ms_born, ms_ub, ms_hist, msKindVars, synced_txg, born_root, ms_curr, ms_visited,
                   log_open, ms_budget>>

MsUsed(t) == {b \in MsBlocks : ms_born[b] \in 1..t}

(* spa_sync_rewrite_vdev_config(): the uberblock of the txg is written.    *)
MsCommit ==
    /\ sync_at = "commit" /\ sync_at' = "done"
    /\ ms_hist' = <<ms_ub.used, ms_hist[1]>>
    /\ ms_ub' = IF NoOpTxg THEN ms_ub ELSE [txg |-> syncing, mos |-> mos, used |-> MsUsed(syncing)]
    /\ UNCHANGED <<msCoreVars, mos, msKindVars, sync_pass, synced_txg, born_root, mos_dirty, ms_curr,
                   ms_visited, log_open, ms_budget>>

(* Mutant: one tree only, which was filled a txg ago.                      *)
OneDeferTree(t) == 0

(* ms_defer[txg % TXG_DEFER_SIZE]: filled TXG_DEFER_SIZE txgs ago.         *)
DeferTree(t) == t % TXG_DEFER_SIZE

(* vdev_sync_done().  Without a log space map it waits for a load.  When   *)
(* space is short, what was freed is not deferred.                         *)
metaslab_sync_done(m) ==
    LET d == DeferTree(syncing)
    IN  /\ sync_at = "done" /\ m \in ms_list[MsClean(syncing)]
        /\ ~log_open => ms[m].loading = "no"
        /\ \E defer_allowed \in {TRUE, roomy} :
               LET back  == ms[m].defer[d] \cup IF defer_allowed THEN {} ELSE ms[m].freed
                   defer == [ms[m].defer EXCEPT ![d] = IF defer_allowed THEN ms[m].freed ELSE {}]
               IN  /\ ms' = [ms EXCEPT ![m].defer = defer, ![m].freed = {}, ![m].this_txg = {},
                                       ![m].allocatable = IF ms[m].loaded THEN @ \cup back ELSE @,
                                       ![m].synced = mos.sm[m]]
                   /\ ms_list' = [ms_list EXCEPT ![MsClean(syncing)] = @ \ {m},
                                                 ![MsSlot(syncing + 1)] =
                                                     IF UNION Range(defer) # {} THEN @ \cup {m} ELSE @]
        /\ UNCHANGED <<ms_born, msDiskVars, msKindVars, msSpaVars, ms_budget>>

(* The end of spa_sync(), with spa_sync_close_syncing_log_sm().            *)
SyncEnd ==
    /\ sync_at = "done" /\ ms_list[MsClean(syncing)] = {}
    /\ sync_at' = "idle" /\ sync_pass' = 0 /\ log_open' = FALSE /\ synced_txg' = syncing
    /\ born_root' = FALSE /\ mos_dirty' = FALSE /\ ms_visited' = {}
    /\ ms_born' = [b \in MsBlocks |-> IF ms_born[b] \in 1..syncing THEN 1 ELSE ms_born[b]]
    /\ UNCHANGED <<ms, ms_list, msDiskVars, msKindVars, ms_curr, ms_budget>>

-----------------------------------------------------------------------------
(* A loss of power, and the import of the last uberblock.                  *)

(* spa_ld_log_sm_data(): the unflushed changes of m that the logs give, in *)
(* the order of the txgs, but for those from before it was flushed.        *)
LogReplayed(mo, m) ==
    LET after[t \in 1..MsLastTxg] ==
            LET before == IF t = 1 THEN [allocs |-> {}, frees |-> {}] ELSE after[t - 1]
                of[i \in 0..(IF t \in DOMAIN mo.logs THEN Len(mo.logs[t]) ELSE 0)] ==
                    IF i = 0 THEN before
                    ELSE IF mo.logs[t][i].m # m THEN of[i - 1]
                    ELSE Unflushed(of[i - 1], mo.logs[t][i].allocs, mo.logs[t][i].frees)
            IN  IF t < mo.unflushed[m] THEN before
                ELSE of[IF t \in DOMAIN mo.logs THEN Len(mo.logs[t]) ELSE 0]
    IN  after[MsLastTxg]

(* Has it any, even ones that cancel each other?                           *)
Dirtied(mo, m) ==
    \E t \in DOMAIN mo.logs : /\ t >= mo.unflushed[m]
                              /\ \E i \in DOMAIN mo.logs[t] : mo.logs[t][i].m = m

MsCrash ==
    /\ MsSpend("crashes")
    /\ mos' = ms_ub.mos /\ ms_hist' = <<ms_ub.used, ms_ub.used>>
    /\ ms' = [m \in MsIds |-> NewMs(mos'.sm[m], LogReplayed(mos', m), Dirtied(mos', m))]
    /\ ms_list' = [s \in 0..(TXG_SIZE - 1) |-> {}]
    /\ ms_born' = [b \in MsBlocks |-> IF b \in ms_ub.used THEN 1 ELSE 0]
    /\ synced_txg' = ms_ub.txg
    /\ sync_at' = "idle" /\ sync_pass' = 0 /\ born_root' = FALSE /\ mos_dirty' = FALSE
    /\ log_open' = FALSE /\ ms_curr' = 0 /\ ms_visited' = {}
    /\ UNCHANGED <<ms_ub, msKindVars>>

-----------------------------------------------------------------------------
MsNext ==
    \/ \E m \in MsIds : \E b \in MsSpace[m], t \in syncing..(syncing + 2) :
           metaslab_block_alloc(m, b, t) \/ metaslab_unalloc_dva(m, b, t)
    \/ \E b \in MsBlocks : spa_free(b)
    \/ \E m \in MsIds : \/ metaslab_load(m) \/ metaslab_flush_wait(m) \/ MsLoadDone(m)
                         \/ metaslab_evict(m)
                         \/ FlushTurn(m) \/ MsFlushDone(m) \/ CondenseDone(m)
                         \/ SyncCondense(m) \/ metaslab_sync(m) \/ metaslab_sync_done(m)
    \/ spa_sync \/ spa_flush_metaslabs \/ FlushedEnough \/ PassDone \/ MsCommit \/ SyncEnd
    \/ MsCrash

MsSpec == MsInit /\ [][MsNext]_msVars

-----------------------------------------------------------------------------
MsTypeOK ==
    /\ \A m \in MsIds :
           /\ ms[m].loaded \in BOOLEAN /\ ms[m].dirty \in BOOLEAN
           /\ ms[m].loading \in {"no", "flush", "read"}
           /\ ms[m].busy \in {"no", "flushing", "condensing"}
           /\ UNION Range(ms[m].allocating) \cup ms[m].allocatable \subseteq MsSpace[m]
    /\ ms_born \in [MsBlocks -> 0..MsLastTxg] /\ ms_list \in [0..(TXG_SIZE - 1) -> SUBSET MsIds]
    /\ sync_at \in {"idle", "write", "flush", "vdev_sync", "commit", "done"}
    /\ ms_curr \in {0} \cup MsIds /\ DOMAIN mos.logs \subseteq 1..MsLastTxg

(* The blocks of a metaslab that are on their way to be free.              *)
Leaving(m) == <<ms[m].freeing, ms[m].freed, ms[m].defer[0], ms[m].defer[1], Of(m, mos.deferred)>>

(* Every block is in one place: used, on its way to be free in exactly one *)
(* tree or list, or free, and then ms_allocatable of a loaded metaslab has *)
(* it, whatever was synced, flushed, condensed or evicted while it was     *)
(* loaded (metaslab_load_impl(), metaslab_sync_done()).  Between two syncs *)
(* only the deferred ones are still on their way, and their metaslab is    *)
(* dirty, so that the next sync takes them on.  A metaslab that is being   *)
(* condensed is not loaded anew (ASSERT(!ms_condensing), metaslab_load()). *)
TreesExact ==
    /\ MsTypeOK
    /\ \A m \in MsIds :
        LET leaving == Leaving(m)
            live    == Of(m, MsUsed(syncing + 2))
        IN  /\ ms[m].busy = "condensing" => ms[m].loading = "no"
            /\ \A i, j \in DOMAIN leaving : i # j => leaving[i] \cap leaving[j] = {}
            /\ live \cap UNION Range(leaving) = {}
            /\ ms[m].loaded => ms[m].allocatable = MsSpace[m] \ (live \cup UNION Range(leaving))
            /\ sync_at = "idle" => /\ ms[m].freeing = {} /\ ms[m].freed = {} /\ ms[m].this_txg = {}
                                   /\ UNION Range(ms[m].defer) # {} => m \in ms_list[MsSlot(syncing)]

(* An import finds exactly the blocks that the last uberblock uses, or has *)
(* yet to free, in the space maps and the logs it names: no log that a     *)
(* metaslab still needs has been removed, and none is applied to a space   *)
(* map that has it already (spa_cleanup_old_sm_logs(), spa_ld_log_sm_cb(), *)
(* metaslab_condense()).  The unflushed changes in memory are those that   *)
(* the logs would give back.                                               *)
MapsExact ==
    \A m \in MsIds :
        LET disk == ms_ub.mos
            un   == LogReplayed(disk, m)
        IN  /\ (disk.sm[m] \cup un.allocs) \ un.frees = Of(m, ms_ub.used \cup disk.deferred)
            /\ disk.unflushed[m] # 0 => disk.unflushed[m] \in DOMAIN disk.logs
            /\ un.allocs \cap disk.sm[m] = {} /\ un.frees \subseteq disk.sm[m]
            /\ ms[m].busy # "condensing" =>
                   LogReplayed(mos, m) = [allocs |-> ms[m].allocs, frees |-> ms[m].frees]

(* No block that the last uberblock uses can be allocated, nor, while      *)
(* frees are deferred, one that an uberblock of the TXG_DEFER_SIZE txgs    *)
(* before it uses (metaslab_sync_done(), metaslab_load_impl()).            *)
NeverReused ==
    \A m \in MsIds : ms[m].loaded =>
        ms[m].allocatable \cap Of(m, ms_ub.used \cup IF roomy THEN UNION Range(ms_hist) ELSE {}) = {}
=============================================================================
