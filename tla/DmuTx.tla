-------------------------------- MODULE DmuTx --------------------------------
(***************************************************************************)
(* Transactions (dmu_tx.c): dmu_tx_assign() puts a transaction and all the *)
(* dnodes it holds into the open txg, or backs out and waits; dmu_tx_      *)
(* commit() lets go of them.  A dnode takes part in one txg at a time, so  *)
(* a transaction that finds one of its dnodes still assigned to the        *)
(* previous txg gives everything back and sleeps on dn_notxholds.          *)
(*                                                                         *)
(* txg.c is represented by its contract, TxgAbs; tx_txg is held.  A        *)
(* critical section of dn_mtx is one step.                                 *)
(***************************************************************************)
EXTENDS TxgAbs, Sequences, FiniteSets

CONSTANTS
    Dnodes,             \* the dnodes of a dataset
    NewDnodes,          \* those of them that are not allocated at first
    HoldLists,          \* the hold lists (tx_holds) each thread builds
    TxgHow,             \* the <<TXG_WAIT, TXG_NOTHROTTLE>> it passes
    MaxTxg,             \* bound: no txg above it is opened without need
    MaxSuspends         \* bound on the number of pool suspensions

ASSUME DmuTxAssumption ==
    /\ InitTxg \in Nat \ {0}
    /\ NewDnodes \subseteq Dnodes
    /\ \A t \in Threads : HoldLists[t] \subseteq Seq(Dnodes)
    /\ \A t \in Threads : TxgHow[t] \subseteq BOOLEAN \X BOOLEAN
    /\ \A t \in Threads : \A h \in HoldLists[t] : \A i, j \in DOMAIN h : h[i] = h[j] => i = j

VARIABLES
    dn_assigned_txg,    \* the txg each dnode takes part in, 0 if none
    dn_tx_holds,        \* the threads whose transaction holds the dnode
    allocated,          \* the dnodes that are objects
    pc,                 \* where each thread is
    tx,                 \* its transaction, see Transaction
    asleep,             \* the threads asleep on a dn_notxholds
    suspended, suspends \* the pool has stopped I/O, and how often it did

dnVars == <<dn_assigned_txg, dn_tx_holds, allocated>>
susVars == <<suspended, suspends>>
vars == <<absVars, dnVars, susVars, pc, tx, asleep>>

(* A dmu_tx_t; tx_txg is held[t] and txg_wait is TXG_WAIT of the caller.   *)
Transaction == [
    holds : Seq(Dnodes),                    \* tx_holds
    i : Nat,                                \* where the current loop is in it
    err : {"none", "ERESTART", "ENOSPC"},   \* what the attempt returned
    needassign : Nat,                       \* tx_needassign_txh, 0 for NULL
    lasttried : Nat,                        \* tx_lasttried_txg
    wait_dirty : BOOLEAN,                   \* tx_wait_dirty
    dirty_delayed : BOOLEAN,                \* tx_dirty_delayed
    txg_wait : BOOLEAN,
    target : Int ]                          \* what txg_wait_synced() waits for

Tx(holds, wait, nothrottle) ==
    [holds |-> holds, i |-> 1, err |-> "none", needassign |-> 0, lasttried |-> 0,
     wait_dirty |-> FALSE, dirty_delayed |-> nothrottle, txg_wait |-> wait, target |-> 0]
NoTx == Tx(<<>>, FALSE, FALSE)

Waiting == {"wait", "wait_dirty", "wait_synced", "wait_dnode"}
States == Waiting \cup {"idle", "check", "hold", "dnodes", "rele", "unassign",
                        "assigned", "commit"}

Goto(t, l) == pc' = [pc EXCEPT ![t] = l]

(* dmu_tx_abort() or the end of dmu_tx_commit(): dmu_tx_destroy().         *)
Destroy(t) == Goto(t, "idle") /\ tx' = [tx EXCEPT ![t] = NoTx]

Init ==
    /\ AbsInit
    /\ dn_assigned_txg = [d \in Dnodes |-> 0]
    /\ dn_tx_holds = [d \in Dnodes |-> {}]
    /\ allocated = Dnodes \ NewDnodes
    /\ pc = [t \in Threads |-> "idle"]
    /\ tx = [t \in Threads |-> NoTx]
    /\ asleep = {}
    /\ suspended = FALSE /\ suspends = 0

-----------------------------------------------------------------------------
(* The caller: dmu_tx_create(), dmu_tx_hold_*(), then dmu_tx_assign().     *)
Create(t, holds, how) ==
    /\ pc[t] = "idle"
    /\ \A i \in DOMAIN holds : holds[i] \in allocated
    /\ Goto(t, "check")
    /\ tx' = [tx EXCEPT ![t] = Tx(holds, how[1], how[2])]
    /\ UNCHANGED <<absVars, dnVars, asleep, susVars>>

(* dmu_tx_try_assign() before txg_hold_open(): the hold list had an error  *)
(* (tx_err), the pool is suspended, or the write throttle (the dirty data  *)
(* or the ZIL write log, DirtyThrottle) asks for a delay.  Nothing is held *)
(* yet, so dmu_tx_unassign() does nothing.  A caller without TXG_WAIT that *)
(* gets ERESTART calls dmu_tx_wait() itself and starts over.  At the bound *)
(* MaxTxg no new attempt starts.                                           *)
Check(t) ==
    /\ pc[t] = "check"
    /\ open < MaxTxg
    /\ \/ Destroy(t)                                             \* tx_err
       \/ suspended /\ ~tx[t].txg_wait /\ Destroy(t)             \* EIO
       \/ suspended /\ Goto(t, "wait") /\ UNCHANGED tx
       \/ /\ ~suspended
          /\ ~tx[t].dirty_delayed
          /\ tx' = [tx EXCEPT ![t].wait_dirty = TRUE]
          /\ Goto(t, "wait")
       \/ ~suspended /\ Goto(t, "hold") /\ UNCHANGED tx
    /\ UNCHANGED <<absVars, dnVars, asleep, susVars>>

TryHold(t) ==
    /\ pc[t] = "hold"
    /\ Hold(t)
    /\ tx' = [tx EXCEPT ![t].needassign = 0, ![t].i = 1]
    /\ Goto(t, "dnodes")
    /\ UNCHANGED <<dnVars, asleep, susVars>>

AssignDnode(t, d) ==
    /\ dn_assigned_txg' = [dn_assigned_txg EXCEPT ![d] = IF @ = 0 THEN held[t] ELSE @]
    /\ dn_tx_holds' = [dn_tx_holds EXCEPT ![d] = @ \cup {t}]

(* The next dnode of the hold list joins the txg, under dn_mtx.            *)
TryDnode(t) ==
    /\ pc[t] = "dnodes"
    /\ tx[t].i <= Len(tx[t].holds)
    /\ LET d == tx[t].holds[tx[t].i] IN
       IF dn_assigned_txg[d] = held[t] - 1
       THEN /\ tx' = [tx EXCEPT ![t].needassign = tx[t].i, ![t].err = "ERESTART"]
            /\ Goto(t, "rele")
            /\ UNCHANGED <<dn_assigned_txg, dn_tx_holds>>
       ELSE /\ AssignDnode(t, d)
            /\ tx' = [tx EXCEPT ![t].i = @ + 1]
            /\ UNCHANGED pc
    /\ UNCHANGED <<absVars, allocated, asleep, susVars>>

(* dsl_dir_tempreserve_space() (external) makes room for the changes, asks *)
(* to try again later, or says there is none.                              *)
TryReserve(t) ==
    /\ pc[t] = "dnodes"
    /\ tx[t].i > Len(tx[t].holds)
    /\ \/ /\ ToQuiesce(t)
          /\ Goto(t, "assigned")
          /\ tx' = [tx EXCEPT ![t].i = 1]
       \/ /\ \E err \in {"ERESTART", "ENOSPC"} : tx' = [tx EXCEPT ![t].err = err]
          /\ Goto(t, "rele")
          /\ UNCHANGED absVars
    /\ UNCHANGED <<dnVars, asleep, susVars>>

-----------------------------------------------------------------------------
(* The last holder of a dnode ends its assignment and wakes the waiters.   *)
WaitsFor(u) == tx[u].holds[tx[u].needassign]

(* Mutant: the waiters are not woken.                                      *)
ReleaseDnodeSilent(t, d) ==
    /\ dn_tx_holds' = [dn_tx_holds EXCEPT ![d] = @ \ {t}]
    /\ IF dn_tx_holds[d] \subseteq {t}
       THEN dn_assigned_txg' = [dn_assigned_txg EXCEPT ![d] = 0]
       ELSE UNCHANGED dn_assigned_txg
    /\ UNCHANGED asleep

(* Mutant: the assignment ends with the first holder that leaves.          *)
ReleaseDnodeFirst(t, d) ==
    /\ dn_tx_holds' = [dn_tx_holds EXCEPT ![d] = @ \ {t}]
    /\ dn_assigned_txg' = [dn_assigned_txg EXCEPT ![d] = 0]
    /\ asleep' = {u \in asleep : WaitsFor(u) # d}

ReleaseDnode(t, d) ==
    /\ dn_tx_holds' = [dn_tx_holds EXCEPT ![d] = @ \ {t}]
    /\ IF dn_tx_holds[d] \subseteq {t}
       THEN /\ dn_assigned_txg' = [dn_assigned_txg EXCEPT ![d] = 0]
            /\ asleep' = {u \in asleep : WaitsFor(u) # d}
       ELSE UNCHANGED <<dn_assigned_txg, asleep>>

(* The next dnode of the hold list is given back.                          *)
ReleaseNext(t) ==
    /\ ReleaseDnode(t, tx[t].holds[tx[t].i])
    /\ tx' = [tx EXCEPT ![t].i = @ + 1]
    /\ UNCHANGED <<absVars, allocated, pc, susVars>>

(* dmu_tx_unassign(): let the next txg open, give back the dnodes before   *)
(* tx_needassign_txh, then the txg.                                        *)
UnassignQuiesce(t) ==
    /\ pc[t] = "rele"
    /\ ToQuiesce(t)
    /\ tx' = [tx EXCEPT ![t].i = 1]
    /\ Goto(t, "unassign")
    /\ UNCHANGED <<dnVars, asleep, susVars>>

(* How many holds were assigned: all, or those before the one that could   *)
(* not be.                                                                 *)
AssignedHolds(t) == IF tx[t].needassign = 0 THEN Len(tx[t].holds) ELSE tx[t].needassign - 1

UnassignDnode(t) ==
    /\ pc[t] = "unassign"
    /\ tx[t].i <= AssignedHolds(t)
    /\ ReleaseNext(t)

UnassignDone(t) ==
    /\ pc[t] = "unassign"
    /\ tx[t].i > AssignedHolds(t)
    /\ ToSync(t)
    /\ IF tx[t].err = "ERESTART"
       THEN /\ tx' = [tx EXCEPT ![t].lasttried = held[t], ![t].i = 1, ![t].err = "none"]
            /\ Goto(t, "wait")
       ELSE Destroy(t)
    /\ UNCHANGED <<dnVars, asleep, susVars>>

-----------------------------------------------------------------------------
(* dmu_tx_wait(): which of the four reasons to wait applies.               *)
Wait(t) ==
    /\ pc[t] = "wait"
    /\ IF tx[t].wait_dirty
       THEN Goto(t, "wait_dirty") /\ UNCHANGED tx
       ELSE IF ~suspended /\ tx[t].lasttried # 0 /\ tx[t].needassign # 0
       THEN Goto(t, "wait_dnode") /\ UNCHANGED tx
       ELSE Goto(t, "wait_synced") /\ tx' = [tx EXCEPT ![t].target = synced + 1]
    /\ UNCHANGED <<absVars, dnVars, asleep, susVars>>

(* dmu_tx_wait() returns: into the loop of dmu_tx_assign(), or to a caller *)
(* that aborts this transaction and starts over.                           *)
Returns(t, newtx) ==
    IF tx[t].txg_wait THEN Goto(t, "check") /\ tx' = [tx EXCEPT ![t] = newtx]
                      ELSE Destroy(t)

(* There is room for dirty data again, and dmu_tx_delay() is over.         *)
WaitDirty(t) ==
    /\ pc[t] = "wait_dirty"
    /\ Returns(t, [tx[t] EXCEPT !.wait_dirty = FALSE, !.dirty_delayed = TRUE])
    /\ UNCHANGED <<absVars, dnVars, asleep, susVars>>

(* txg_wait_synced() returns.                                              *)
WaitSynced(t) ==
    /\ pc[t] = "wait_synced"
    /\ synced >= tx[t].target
    /\ Returns(t, [tx[t] EXCEPT !.target = 0])
    /\ UNCHANGED <<absVars, dnVars, asleep, susVars>>

(* The loop on dn_notxholds, with dn_mtx held.                             *)
WaitDnode(t) ==
    /\ pc[t] = "wait_dnode"
    /\ t \notin asleep
    /\ IF dn_assigned_txg[WaitsFor(t)] = tx[t].lasttried - 1
       THEN asleep' = asleep \cup {t} /\ UNCHANGED <<pc, tx>>
       ELSE Returns(t, [tx[t] EXCEPT !.needassign = 0]) /\ UNCHANGED asleep
    /\ UNCHANGED <<absVars, dnVars, susVars>>

-----------------------------------------------------------------------------
(* dmu_tx_add_new_object(): an object this transaction has just allocated  *)
(* joins its hold list (dmu_tx_hold_dnode_impl with tx_txg # 0).           *)
NewObject(t, d) ==
    /\ pc[t] = "assigned"
    /\ d \notin allocated
    /\ allocated' = allocated \cup {d}
    /\ dn_assigned_txg' = [dn_assigned_txg EXCEPT ![d] = held[t]]
    /\ dn_tx_holds' = [dn_tx_holds EXCEPT ![d] = @ \cup {t}]
    /\ tx' = [tx EXCEPT ![t].holds = Append(@, d)]
    /\ UNCHANGED <<absVars, pc, asleep, susVars>>

(* dmu_tx_commit(): give back the dnodes one by one, then the txg.         *)
Commit(t) ==
    /\ pc[t] = "assigned"
    /\ Goto(t, "commit")
    /\ UNCHANGED <<absVars, dnVars, tx, asleep, susVars>>

CommitDnode(t) ==
    /\ pc[t] = "commit"
    /\ tx[t].i <= Len(tx[t].holds)
    /\ ReleaseNext(t)

CommitDone(t) ==
    /\ pc[t] = "commit"
    /\ tx[t].i > Len(tx[t].holds)
    /\ ToSync(t)
    /\ Destroy(t)
    /\ UNCHANGED <<dnVars, asleep, susVars>>

-----------------------------------------------------------------------------
(* txg.c opens and syncs txgs; a suspended pool syncs none.                *)
TxgOpens ==
    /\ open < MaxTxg \/ \E t \in Threads : open <= tx[t].target
    /\ OpenNext
    /\ UNCHANGED <<dnVars, tx, susVars, pc, asleep>>

TxgSyncs ==
    /\ ~suspended
    /\ SyncNext
    /\ UNCHANGED <<dnVars, tx, susVars, pc, asleep>>

Suspend ==
    /\ ~suspended /\ suspends < MaxSuspends
    /\ suspended' = TRUE /\ suspends' = suspends + 1
    /\ UNCHANGED <<absVars, dnVars, tx, pc, asleep>>

Resume ==
    /\ suspended
    /\ suspended' = FALSE
    /\ UNCHANGED <<absVars, dnVars, tx, suspends, pc, asleep>>

(* The bound on txgs is reached and every transaction has come to rest.    *)
AtBound ==
    /\ open >= MaxTxg
    /\ \A t \in Threads : pc[t] \in {"idle", "check"}
    /\ UNCHANGED vars

Proceed(t) ==
    \/ Check(t) \/ TryHold(t) \/ TryDnode(t) \/ TryReserve(t)
    \/ UnassignQuiesce(t) \/ UnassignDnode(t) \/ UnassignDone(t)
    \/ Wait(t) \/ WaitDirty(t) \/ WaitSynced(t) \/ WaitDnode(t)
    \/ Commit(t) \/ CommitDnode(t) \/ CommitDone(t)

Next ==
    \/ \E t \in Threads :
        \/ \E h \in HoldLists[t], how \in TxgHow[t] : Create(t, h, how)
        \/ \E d \in NewDnodes : NewObject(t, d)
        \/ Proceed(t)
    \/ TxgOpens \/ TxgSyncs \/ Suspend \/ Resume \/ AtBound

Spec == Init /\ [][Next]_vars

(* Threads run, transactions commit, the pool is resumed, and txg.c goes   *)
(* on opening txgs (Txg shows that a wait for the next txg returns even    *)
(* while other threads keep taking handles) and syncing them.              *)
Fairness ==
    /\ \A t \in Threads : WF_vars(Proceed(t))
    /\ SF_vars(TxgOpens) /\ WF_vars(TxgSyncs) /\ WF_vars(Resume)

FairSpec == Spec /\ Fairness

-----------------------------------------------------------------------------
TypeOK ==
    /\ open \in Nat /\ synced \in Int
    /\ held \in [Threads -> Nat]
    /\ phase \in [Threads -> {"none", "open", "quiesce"}]
    /\ dn_assigned_txg \in [Dnodes -> Nat]
    /\ dn_tx_holds \in [Dnodes -> SUBSET Threads]
    /\ allocated \in SUBSET Dnodes
    /\ pc \in [Threads -> States]
    /\ tx \in [Threads -> Transaction]
    /\ asleep \in SUBSET Threads
    /\ suspended \in BOOLEAN /\ suspends \in Nat

(* A dnode takes part in one txg: that of every transaction that holds it  *)
(* (ASSERT3U(dn->dn_assigned_txg, ==, tx->tx_txg) in dmu_tx_commit() and   *)
(* dmu_tx_unassign()), and in none when no transaction holds it.  It is    *)
(* enough that dmu_tx_try_assign() tests for the previous txg: a dnode it  *)
(* meets is free, in its own txg or in that one.  And a transaction that   *)
(* waits has no txg and no dnode, so what it waits for does not wait for   *)
(* it (the deadlock dmu_tx_try_assign() warns of).                         *)
HoldersAgree ==
    /\ TypeOK
    /\ \A d \in Dnodes :
        /\ \A t \in dn_tx_holds[d] : held[t] = dn_assigned_txg[d] /\ held[t] # 0
        /\ dn_tx_holds[d] = {} => dn_assigned_txg[d] = 0
    /\ \A t \in Threads :
        /\ pc[t] = "dnodes" =>
            \A d \in Dnodes : dn_assigned_txg[d] \in {0, held[t] - 1, held[t]}
        /\ pc[t] \in Waiting \cup {"idle", "check"} => held[t] = 0

(* Nobody sleeps on dn_notxholds of a dnode that has left the txg it is    *)
(* waited for: no wakeup is lost, and no later txg is mistaken for it.     *)
SleepersAwaited ==
    \A t \in asleep :
        /\ dn_assigned_txg[WaitsFor(t)] # 0
        /\ dn_assigned_txg[WaitsFor(t)] = tx[t].lasttried - 1

(* Every dmu_tx_wait() returns.                                            *)
WaitReturns == \A t \in Threads : pc[t] \in Waiting ~> pc[t] \notin Waiting
=============================================================================
