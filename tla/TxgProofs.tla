------------------------------ MODULE TxgProofs ------------------------------
(***************************************************************************)
(* The safety of the transaction-group pipeline, for every number of       *)
(* threads, CPUs and txgs: IInv is inductive and implies the invariants    *)
(* that MCTxg checks on small instances.                                   *)
(***************************************************************************)
EXTENDS Txg, TLAPS, FiniteSetTheorems

(* Changing one element of an array of arrays keeps it in its type.        *)
LEMMA Update ==
    ASSUME NEW S, NEW T, NEW f \in [S -> [T -> Int]], NEW c, NEW g, NEW v \in Int
    PROVE  [f EXCEPT ![c][g] = v] \in [S -> [T -> Int]]
<1>1. ASSUME NEW h \in [T -> Int] PROVE [h EXCEPT ![g] = v] \in [T -> Int]
  OBVIOUS
<1>2. \A d \in S : f[d] \in [T -> Int]
  OBVIOUS
<1>3. CASE c \in S
  <2>1. [f[c] EXCEPT ![g] = v] \in [T -> Int]
    BY <1>1, <1>2, <1>3
  <2> QED
    BY <2>1
<1>4. CASE c \notin S
  BY <1>4
<1> QED
  BY <1>3, <1>4

USE DEF TXG_SIZE, TXG_DEFER_SIZE, Slots, Cpus
USE DEF txgVars, waitVars, exitVars, cbVars, thVars, susVars

(* Every step of txg.c keeps the variables in their types.                 *)
LEMMA TypeStep == ASSUME TypeOK, [Next]_vars PROVE TypeOK'
<1>0. CASE UNCHANGED vars
  BY <1>0 DEF TypeOK, vars
<1>1. CASE SyncThreadIdle
  <2>1. sync_pc' \in SyncStates
    BY <1>1 DEF TypeOK, SyncThreadIdle, SyncStates
  <2> QED
    BY <1>1, <2>1 DEF TypeOK, SyncThreadIdle
<1>2. CASE SyncThreadTimeout
  <2>1. sync_pc' \in SyncStates
    BY <1>2 DEF TypeOK, SyncThreadTimeout, SyncStates
  <2> QED
    BY <1>2, <2>1 DEF TypeOK, SyncThreadTimeout
<1>3. CASE SyncThreadSuspended
  <2>1. sync_pc' \in SyncStates
    BY <1>3 DEF TypeOK, SyncThreadSuspended, SyncStates
  <2> QED
    BY <1>3, <2>1 DEF TypeOK, SyncThreadSuspended
<1>4. CASE SyncThreadPrompt
  <2>1. tx_quiesce_txg_waiting' \in Nat
    BY <1>4 DEF TypeOK, SyncThreadPrompt, Larger
  <2>2. q_pc' \in QuiesceStates
    BY <1>4 DEF TypeOK, SyncThreadPrompt, QuiesceMore, QuiesceStates
  <2>3. sync_pc' \in SyncStates
    BY <1>4 DEF TypeOK, SyncThreadPrompt, SyncStates
  <2> QED
    BY <1>4, <2>1, <2>2, <2>3 DEF TypeOK, SyncThreadPrompt
<1>5. CASE SyncThreadExit
  <2>1. sync_pc' \in SyncStates
    BY <1>5 DEF TypeOK, SyncThreadExit, SyncStates
  <2>2. asleep' \in SUBSET Threads
    BY <1>5 DEF TypeOK, SyncThreadExit
  <2> QED
    BY <1>5, <2>1, <2>2 DEF TypeOK, SyncThreadExit
<1>6. CASE SyncThreadBegin
  <2>1. q_pc' \in QuiesceStates
    BY <1>6 DEF TypeOK, SyncThreadBegin, QuiesceMore, QuiesceStates
  <2>2. sync_pc' \in SyncStates
    BY <1>6 DEF TypeOK, SyncThreadBegin, SyncStates
  <2> QED
    BY <1>6, <2>1, <2>2 DEF TypeOK, SyncThreadBegin
<1>7. CASE SyncThreadDone
  <2>1. Slot(tx_syncing_txg) \in Slots
    BY <1>7 DEF TypeOK, SyncThreadDone, DispatchCallbacks, Slot
  <2>2. tc_callbacks' \in [Cpus -> [Slots -> SUBSET Nat]]
    BY <1>7, <2>1 DEF TypeOK, SyncThreadDone, DispatchCallbacks
  <2>3. cb_taskq' \in SUBSET Nat
    <3>1. \A c \in Cpus : tc_callbacks[c][Slot(tx_syncing_txg)] \in SUBSET Nat
      BY <2>1 DEF TypeOK
    <3>2. \A txg \in cb_taskq' : txg \in cb_taskq \/ \E c \in Cpus : txg \in tc_callbacks[c][Slot(tx_syncing_txg)]
      BY <1>7 DEF SyncThreadDone, DispatchCallbacks
    <3> QED
      BY <3>1, <3>2 DEF TypeOK
  <2>4. sync_pc' \in SyncStates
    BY <1>7, <2>1 DEF TypeOK, SyncThreadDone, DispatchCallbacks, SyncStates
  <2>5. asleep' \in SUBSET Threads
    BY <1>7, <2>1 DEF TypeOK, SyncThreadDone, DispatchCallbacks
  <2> QED
    BY <1>7, <2>1, <2>2, <2>3, <2>4, <2>5 DEF TypeOK, SyncThreadDone, DispatchCallbacks
<1>8. CASE QuiesceThreadWait
  <2>1. q_pc' \in QuiesceStates
    BY <1>8 DEF TypeOK, QuiesceThreadWait, QuiesceStates
  <2> QED
    BY <1>8, <2>1 DEF TypeOK, QuiesceThreadWait
<1>9. CASE QuiesceThreadExit
  <2>1. q_pc' \in QuiesceStates
    BY <1>9 DEF TypeOK, QuiesceThreadExit, QuiesceStates
  <2>2. asleep' \in SUBSET Threads
    BY <1>9 DEF TypeOK, QuiesceThreadExit
  <2> QED
    BY <1>9, <2>1, <2>2 DEF TypeOK, QuiesceThreadExit
<1>10. CASE QuiesceThreadBegin
  <2>1. q_pc' \in QuiesceStates
    BY <1>10 DEF TypeOK, QuiesceThreadBegin, QuiesceStates
  <2>2. q_cpu' \in 1..(NCpus + 1)
    BY <1>10, TxgAssumption DEF QuiesceThreadBegin
  <2> QED
    BY <1>10, <2>1, <2>2 DEF TypeOK, QuiesceThreadBegin
<1>11. CASE QuiesceLock
  <2>1. tc_open_lock' \in [Cpus -> Threads \cup {NoOwner, Quiescer}]
    BY <1>11 DEF TypeOK, QuiesceLock
  <2>2. q_cpu' \in 1..(NCpus + 1)
    BY TxgAssumption, <1>11 DEF TypeOK, QuiesceLock
  <2> QED
    BY <1>11, <2>1, <2>2 DEF TypeOK, QuiesceLock
<1>12. CASE QuiesceOpenNext
  <2>1. tc_open_lock' \in [Cpus -> Threads \cup {NoOwner, Quiescer}]
    BY <1>12 DEF TypeOK, QuiesceOpenNext
  <2>2. q_pc' \in QuiesceStates
    BY <1>12 DEF TypeOK, QuiesceOpenNext, QuiesceStates
  <2>3. tx_open_txg' \in Nat /\ q_cpu' \in 1..(NCpus + 1)
    BY <1>12, TxgAssumption DEF TypeOK, QuiesceOpenNext
  <2> QED
    BY ZenonT(40), <1>12, <2>1, <2>2, <2>3 DEF TypeOK, QuiesceOpenNext
<1>13. CASE QuiesceDrain
  <2>1. q_pc' \in QuiesceStates
    BY <1>13 DEF TypeOK, QuiesceDrain, QuiesceStates
  <2>2. q_cpu' \in 1..(NCpus + 1)
    <3>1. CASE tc_count[q_cpu][Slot(tx_quiescing_txg)] # 0
      BY <1>13, <3>1 DEF TypeOK, QuiesceDrain
    <3>2. CASE tc_count[q_cpu][Slot(tx_quiescing_txg)] = 0
      <4>1. NCpus \in Nat
        BY TxgAssumption
      <4> QED
        BY <1>13, <3>2, <4>1 DEF QuiesceDrain
    <3> QED
      BY <3>1, <3>2
  <2> QED
    BY <1>13, <2>1, <2>2 DEF TypeOK, QuiesceDrain
<1>14. CASE QuiesceHandoff
  <2>1. q_pc' \in QuiesceStates
    BY <1>14 DEF TypeOK, QuiesceHandoff, QuiesceStates
  <2>2. sync_pc' \in SyncStates
    BY <1>14 DEF TypeOK, QuiesceHandoff, QuiesceDone, SyncMore, SyncStates
  <2>3. asleep' \in SUBSET Threads
    BY <1>14 DEF TypeOK, QuiesceHandoff
  <2>4. tx_quiescing_txg' \in Nat /\ tx_quiesced_txg' \in Nat
    BY <1>14 DEF TypeOK, QuiesceHandoff
  <2> QED
    BY <1>14, <2>1, <2>2, <2>3, <2>4 DEF TypeOK, QuiesceHandoff
<1>15. ASSUME NEW t \in Threads, ClientThread(t) PROVE TypeOK'
  <2>1. ASSUME NEW c \in Cpus, HoldOpen(t, c) PROVE TypeOK'
    <3>1. Slot(tx_open_txg) \in Slots
      BY <2>1 DEF TypeOK, HoldOpen, Slot
    <3>2. tc_count' \in [Cpus -> [Slots -> Int]]
      <4> DEFINE g == Slot(tx_open_txg)
      <4>1. g \in Slots /\ tc_count \in [Cpus -> [Slots -> Int]]
        BY <3>1 DEF TypeOK
      <4>2. tc_count' = [tc_count EXCEPT ![c][g] = tc_count[c][g] + 1]
        BY <2>1 DEF HoldOpen
      <4> HIDE DEF g
      <4>3. tc_count[c][g] + 1 \in Int
        BY <4>1
      <4> QED
        BY ONLY <4>1, <4>2, <4>3, Update
    <3>3. th_st' \in [Threads -> ThreadStates]
      BY <2>1, <3>1 DEF TypeOK, HoldOpen, ThreadStates
    <3>4. th_cpu' \in [Threads -> 0..NCpus]
      BY TxgAssumption, <2>1, <3>1 DEF TypeOK, HoldOpen
    <3>5. tc_open_lock' \in [Cpus -> Threads \cup {NoOwner, Quiescer}]
      BY <2>1, <3>1 DEF TypeOK, HoldOpen
    <3>6. th_txg' \in [Threads -> Nat]
      BY <2>1, <3>1 DEF TypeOK, HoldOpen
    <3> QED
      BY ZenonT(40), <2>1, <3>1, <3>2, <3>3, <3>4, <3>5, <3>6 DEF TypeOK, HoldOpen
  <2>2. CASE ReleToQuiesce(t)
    <3>1. tc_open_lock' \in [Cpus -> Threads \cup {NoOwner, Quiescer}]
      BY ZenonT(40), <2>2 DEF TypeOK, ReleToQuiesce
    <3>2. th_st' \in [Threads -> ThreadStates]
      BY <2>2 DEF TypeOK, ReleToQuiesce, ThreadStates
    <3> QED
      BY <2>2, <3>1, <3>2 DEF TypeOK, ReleToQuiesce
  <2>3. CASE RegisterCallbacks(t)
    <3>1. Slot(th_txg[t]) \in Slots
      <4>1. th_txg[t] \in Nat
        BY DEF TypeOK
      <4> QED
        BY <4>1 DEF Slot
    <3>2. tc_callbacks' \in [Cpus -> [Slots -> SUBSET Nat]]
      <4> DEFINE g == Slot(th_txg[t])
      <4>1. g \in Slots /\ th_txg[t] \in Nat /\ tc_callbacks \in [Cpus -> [Slots -> SUBSET Nat]]
        BY <3>1 DEF TypeOK
      <4>2. tc_callbacks' = [tc_callbacks EXCEPT ![th_cpu[t]][g] = @ \cup {th_txg[t]}]
        BY <2>3 DEF RegisterCallbacks
      <4> HIDE DEF g
      <4> QED
        BY ZenonT(40), <4>1, <4>2
    <3> QED
      BY <2>3, <3>1, <3>2 DEF TypeOK, RegisterCallbacks
  <2>4. CASE ReleToSync(t)
    <3>1. Slot(th_txg[t]) \in Slots
      BY <2>4 DEF TypeOK, ReleToSync, Slot
    <3>2. tc_count' \in [Cpus -> [Slots -> Int]]
      <4> DEFINE g == Slot(th_txg[t])
      <4>1. g \in Slots /\ tc_count \in [Cpus -> [Slots -> Int]]
        BY <3>1 DEF TypeOK
      <4>2. tc_count' = [tc_count EXCEPT ![th_cpu[t]][g] = tc_count[th_cpu[t]][g] - 1]
        BY <2>4 DEF ReleToSync
      <4> HIDE DEF g
      <4>3. CASE th_cpu[t] \in Cpus
        <5>1. tc_count[th_cpu[t]][g] - 1 \in Int
          BY <4>1, <4>3
        <5> QED
          BY ONLY <4>1, <4>2, <5>1, Update
      <4>4. CASE th_cpu[t] \notin Cpus
        BY ONLY <4>1, <4>2, <4>4
      <4> QED
        BY <4>3, <4>4
    <3>3. q_pc' \in QuiesceStates
      BY <2>4, <3>1 DEF TypeOK, ReleToSync, QuiesceStates
    <3>4. th_st' \in [Threads -> ThreadStates]
      BY <2>4, <3>1 DEF TypeOK, ReleToSync, ThreadStates
    <3>5. th_cpu' \in [Threads -> 0..NCpus]
      BY TxgAssumption, <2>4, <3>1 DEF TypeOK, ReleToSync
    <3>6. th_txg' \in [Threads -> Nat]
      BY <2>4, <3>1 DEF TypeOK, ReleToSync
    <3> QED
      BY <2>4, <3>1, <3>2, <3>3, <3>4, <3>5, <3>6 DEF TypeOK, ReleToSync
  <2>5. ASSUME NEW n \in Targets, CallWaitSynced(t, n) \/ CallWaitSyncedSig(t, n) PROVE TypeOK'
    <3>1. tx_sync_txg_waiting' \in Nat
      BY <2>5 DEF TypeOK, CallWaitSynced, CallWaitSyncedSig, WaitSynced, Larger, Targets, SyncedLoop
    <3>2. sync_pc' \in SyncStates
      BY <2>5 DEF TypeOK, CallWaitSynced, CallWaitSyncedSig, WaitSynced, SyncedLoop, SyncMore, SyncStates
    <3>3. th_st' \in [Threads -> ThreadStates]
      BY <2>5 DEF TypeOK, CallWaitSynced, CallWaitSyncedSig, WaitSynced, SyncedLoop, Returned, ThreadStates
    <3>4. th_txg' \in [Threads -> Nat]
      BY SMTT(40), <2>5 DEF TypeOK, CallWaitSynced, CallWaitSyncedSig, WaitSynced, SyncedLoop, Targets
    <3>5. asleep' \in SUBSET Threads
      BY <2>5 DEF TypeOK, CallWaitSynced, CallWaitSyncedSig, WaitSynced, SyncedLoop
    <3> QED
      BY ZenonT(40), <2>5, <3>1, <3>2, <3>3, <3>4, <3>5 DEF TypeOK, CallWaitSynced, CallWaitSyncedSig, WaitSynced
  <2>6. CASE WaitSyncedAgain(t)
    <3>1. sync_pc' \in SyncStates
      BY <2>6 DEF TypeOK, WaitSyncedAgain, SyncedLoop, SyncMore, SyncStates
    <3>2. th_st' \in [Threads -> ThreadStates]
      BY <2>6 DEF TypeOK, WaitSyncedAgain, SyncedLoop, Returned, ThreadStates
    <3>3. th_txg' \in [Threads -> Nat]
      BY SMTT(40), <2>6 DEF TypeOK, WaitSyncedAgain, SyncedLoop
    <3>4. asleep' \in SUBSET Threads
      BY <2>6 DEF TypeOK, WaitSyncedAgain, SyncedLoop
    <3> QED
      BY <2>6, <3>1, <3>2, <3>3, <3>4 DEF TypeOK, WaitSyncedAgain
  <2>7. CASE WaitSyncedSignalled(t)
    <3>1. th_st' \in [Threads -> ThreadStates]
      BY <2>7 DEF TypeOK, WaitSyncedSignalled, ThreadStates
    <3>2. th_txg' \in [Threads -> Nat]
      BY <2>7 DEF TypeOK, WaitSyncedSignalled
    <3>3. asleep' \in SUBSET Threads
      BY <2>7 DEF TypeOK, WaitSyncedSignalled
    <3> QED
      BY <2>7, <3>1, <3>2, <3>3 DEF TypeOK, WaitSyncedSignalled
  <2>8. ASSUME NEW n \in Targets, NEW b \in BOOLEAN, WaitOpen(t, n, b) PROVE TypeOK'
    <3>1. tx_quiesce_txg_waiting' \in Nat
      BY <2>8 DEF TypeOK, WaitOpen, Larger, Targets
    <3>2. q_pc' \in QuiesceStates
      BY <2>8 DEF TypeOK, WaitOpen, OpenLoop, QuiesceMore, QuiesceStates
    <3>3. th_st' \in [Threads -> ThreadStates]
      BY <2>8 DEF TypeOK, WaitOpen, OpenLoop, ThreadStates
    <3>4. th_txg' \in [Threads -> Nat]
      <4>1. n \in Nat
        BY DEF TypeOK, Targets
      <4>2. tx_open_txg + 1 \in Nat
        BY DEF TypeOK
      <4> DEFINE txg == IF n = 0 THEN tx_open_txg + 1 ELSE n
      <4>3. txg \in Nat /\ th_txg \in [Threads -> Nat]
        BY <4>1, <4>2 DEF TypeOK
      <4>4. OpenLoop(t, txg)
        BY <2>8 DEF WaitOpen
      <4> HIDE DEF txg
      <4> QED
        BY <4>3, <4>4 DEF OpenLoop
    <3>5. asleep' \in SUBSET Threads
      BY <2>8 DEF TypeOK, WaitOpen, OpenLoop
    <3> QED
      BY <2>8, <3>1, <3>2, <3>3, <3>4, <3>5 DEF TypeOK, WaitOpen
  <2>9. CASE WaitOpenAgain(t)
    <3>1. q_pc' \in QuiesceStates
      BY <2>9 DEF TypeOK, WaitOpenAgain, OpenLoop, QuiesceMore, QuiesceStates
    <3>2. th_st' \in [Threads -> ThreadStates]
      BY ZenonT(40), <2>9 DEF TypeOK, WaitOpenAgain, OpenLoop, ThreadStates
    <3>3. th_txg' \in [Threads -> Nat]
      BY <2>9 DEF TypeOK, WaitOpenAgain, OpenLoop
    <3>4. asleep' \in SUBSET Threads
      BY <2>9 DEF TypeOK, WaitOpenAgain, OpenLoop
    <3> QED
      BY <2>9, <3>1, <3>2, <3>3, <3>4 DEF TypeOK, WaitOpenAgain
  <2>10. CASE Kick(t)
    <3>1. sync_pc' \in SyncStates
      BY <2>10 DEF TypeOK, Kick, SyncMore, SyncStates
    <3> QED
      BY <2>10, <3>1 DEF TypeOK, Kick
  <2>11. CASE SyncStop(t)
    <3>1. tx_sync_txg_waiting' \in Nat
      BY SMTT(40), <2>11 DEF TypeOK, SyncStop, WaitSynced, Larger, Targets, SyncedLoop
    <3>2. sync_pc' \in SyncStates
      BY <2>11 DEF TypeOK, SyncStop, WaitSynced, SyncedLoop, SyncMore, SyncStates
    <3>3. th_st' \in [Threads -> ThreadStates]
      BY <2>11 DEF TypeOK, SyncStop, WaitSynced, SyncedLoop, Returned, ThreadStates
    <3>4. th_txg' \in [Threads -> Nat]
      BY <2>11 DEF TypeOK, SyncStop, WaitSynced, SyncedLoop, Targets
    <3>5. asleep' \in SUBSET Threads
      BY <2>11 DEF TypeOK, SyncStop, WaitSynced, SyncedLoop
    <3> QED
      BY <2>11, <3>1, <3>2, <3>3, <3>4, <3>5 DEF TypeOK, SyncStop, WaitSynced
  <2>12. CASE SyncStopKill(t)
    <3>1. q_pc' \in QuiesceStates
      BY <2>12 DEF TypeOK, SyncStopKill, QuiesceMore, QuiesceStates
    <3>2. sync_pc' \in SyncStates
      BY <2>12 DEF TypeOK, SyncStopKill, QuiesceDone, SyncMore, SyncStates
    <3>3. th_st' \in [Threads -> ThreadStates]
      BY <2>12 DEF TypeOK, SyncStopKill, ThreadStates
    <3>4. asleep' \in SUBSET Threads
      BY <2>12 DEF TypeOK, SyncStopKill
    <3> QED
      BY <2>12, <3>1, <3>2, <3>3, <3>4 DEF TypeOK, SyncStopKill
  <2>13. CASE SyncStopExit(t)
    <3>1. th_st' \in [Threads -> ThreadStates]
      BY <2>13 DEF TypeOK, SyncStopExit, ThreadStates
    <3>2. asleep' \in SUBSET Threads
      BY <2>13 DEF TypeOK, SyncStopExit
    <3> QED
      BY <2>13, <3>1, <3>2 DEF TypeOK, SyncStopExit
  <2> QED
    BY <1>15, <2>1, <2>2, <2>3, <2>4, <2>5, <2>6, <2>7, <2>8, <2>9, <2>10, <2>11, <2>12, <2>13 DEF ClientThread
<1>16. CASE \E txg \in cb_taskq : DoCallbacks(txg)
  BY <1>16 DEF TypeOK, DoCallbacks
<1>17. CASE Suspend \/ Resume
  <2>1. suspended' \in BOOLEAN
    BY <1>17 DEF Suspend, Resume
  <2>2. suspends' \in Nat
    BY <1>17 DEF TypeOK, Suspend, Resume
  <2>3. UNCHANGED <<txgVars, waitVars, exitVars, tc_open_lock, tc_count, cbVars,
                    sync_pc, sync_due, q_pc, q_cpu, thVars>>
    BY <1>17 DEF Suspend, Resume
  <2> QED
    BY <2>1, <2>2, <2>3 DEF TypeOK
<1>18. CASE Stopped
  BY <1>0, <1>18 DEF Stopped
<1> QED
  BY <1>0, <1>1, <1>2, <1>3, <1>4, <1>5, <1>6, <1>7, <1>8, <1>9, <1>10, <1>11, <1>12, <1>13, <1>14, <1>15, <1>16, <1>17, <1>18 DEF Next, SyncThread, QuiesceThread

-----------------------------------------------------------------------------
(* What a step must leave alone to be irrelevant to the other conjuncts of *)
(* IInv: the txgs, the per-CPU state, and what the handles are.            *)
Frame ==
    /\ UNCHANGED <<txgVars, tc_open_lock, tc_count, tc_callbacks, q_cpu>>
    /\ cb_taskq' \subseteq cb_taskq
    /\ (sync_pc' = "sync") <=> (sync_pc = "sync")
    /\ (q_pc' = "lock") <=> (q_pc = "lock")
    /\ (q_pc' \in {"drain", "drainwait"}) <=> (q_pc \in {"drain", "drainwait"})
    /\ \A t \in Threads :
        /\ (th_st'[t] = "open") <=> (th_st[t] = "open")
        /\ (th_st'[t] = "quiesce") <=> (th_st[t] = "quiesce")
        /\ Holds(t) => th_cpu'[t] = th_cpu[t] /\ th_txg'[t] = th_txg[t]

(* The number of handles is the same while every handle stays what it is.  *)
LEMMA SameHandles ==
    ASSUME \A t \in Threads : Holds(t)' <=> Holds(t),
           \A t \in Threads : Holds(t) => th_cpu'[t] = th_cpu[t] /\ th_txg'[t] = th_txg[t],
           NEW c, NEW g
    PROVE  HandlesIn(c, g)' = HandlesIn(c, g)
  BY DEF HandlesIn

(* Steps within the frame keep IInv: waiting, waking, kicking, stopping,   *)
(* suspending and running callbacks.                                       *)
LEMMA FrameStep == ASSUME IInv, TypeOK', Frame PROVE IInv'
<1>1. Draining' = Draining /\ Behind' = Behind /\ LastDone' = LastDone
  BY DEF Frame, Draining, Behind, LastDone
<1>2. \A t \in Threads : Holds(t)' <=> Holds(t)
  BY DEF Frame, Holds
<1>3. Pipeline' /\ SyncProgress'
  BY <1>1 DEF IInv, Pipeline, SyncProgress, Frame
<1>4. LockOwners'
  BY <1>2 DEF IInv, LockOwners, Frame, Holds
<1>5. Drained'
  BY <1>1, <1>2 DEF IInv, Drained, Frame
<1>6. HandlesHoldTxg'
  BY <1>1 DEF IInv, HandlesHoldTxg, Frame, Holds
<1>7. CountsAreHandles'
  <2>1. \A c, g : HandlesIn(c, g)' = HandlesIn(c, g)
    BY <1>2, SameHandles DEF Frame
  <2> QED
    BY <2>1 DEF IInv, CountsAreHandles, Frame
<1>8. CallbackSlots'
  BY <1>1 DEF IInv, CallbackSlots, Frame
<1>9. \A txg \in cb_taskq' : txg <= tx_synced_txg'
  BY DEF IInv, Frame
<1> QED
  BY <1>3, <1>4, <1>5, <1>6, <1>7, <1>8, <1>9 DEF IInv

-----------------------------------------------------------------------------
(* The handles of a CPU and slot are finitely many.                        *)
LEMMA HandlesFinite ==
    ASSUME NEW c, NEW g
    PROVE  IsFiniteSet(HandlesIn(c, g)) /\ IsFiniteSet(HandlesIn(c, g)')
  BY TxgAssumption, FS_Subset DEF HandlesIn

(* The slot of a txg, and the parts of TypeOK the steps below use most.    *)
LEMMA SlotType == ASSUME NEW n \in Nat PROVE Slot(n) \in Slots
  BY DEF Slot

LEMMA Numbers ==
    ASSUME IInv
    PROVE  /\ tx_open_txg \in Nat /\ tx_quiescing_txg \in Nat /\ tx_quiesced_txg \in Nat
           /\ tx_syncing_txg \in Nat /\ tx_synced_txg \in Nat
           /\ q_cpu \in 1..(NCpus + 1) /\ NCpus \in Nat \ {0} /\ InitTxg \in Nat \ {0}
  BY TxgAssumption DEF IInv, TypeOK

LEMMA Arrays ==
    ASSUME IInv
    PROVE  /\ tc_open_lock \in [Cpus -> Threads \cup {NoOwner, Quiescer}]
           /\ tc_count \in [Cpus -> [Slots -> Int]]
           /\ tc_callbacks \in [Cpus -> [Slots -> SUBSET Nat]]
  BY DEF IInv, TypeOK

LEMMA Handles ==
    ASSUME IInv
    PROVE  /\ th_st \in [Threads -> ThreadStates]
           /\ th_cpu \in [Threads -> 0..NCpus]
           /\ th_txg \in [Threads -> Nat]
  BY DEF IInv, TypeOK

(* txg_hold_open(): a handle on the open txg of a CPU whose lock was free. *)
LEMMA HoldOpenStep ==
    ASSUME IInv, TypeOK', NEW t \in Threads, NEW c \in Cpus, HoldOpen(t, c)
    PROVE  IInv'
<1> DEFINE s == Slot(tx_open_txg)
<1>0. s \in Slots /\ th_st[t] = "idle" /\ ~Holds(t)
  BY DEF IInv, TypeOK, Slot, HoldOpen, Holds
<1>1. /\ th_st'[t] = "open" /\ th_cpu'[t] = c /\ th_txg'[t] = tx_open_txg
      /\ \A u \in Threads \ {t} : /\ th_st'[u] = th_st[u]
                                   /\ th_cpu'[u] = th_cpu[u]
                                   /\ th_txg'[u] = th_txg[u]
  BY DEF HoldOpen, IInv, TypeOK
<1>2. Holds(t)' /\ \A u \in Threads \ {t} : Holds(u)' <=> Holds(u)
  BY <1>1 DEF Holds
<1>3. Draining' = Draining /\ Behind' = Behind /\ LastDone' = LastDone
  BY DEF HoldOpen, Draining, Behind, LastDone
<1>4. Pipeline' /\ SyncProgress'
  BY <1>3 DEF IInv, Pipeline, SyncProgress, HoldOpen
<1>5. LockOwners'
  <2>1. /\ tc_open_lock[c] = NoOwner
        /\ tc_open_lock'[c] = t
        /\ \A d \in Cpus \ {c} : tc_open_lock'[d] = tc_open_lock[d]
    BY Arrays DEF HoldOpen
  <2>2. \A u \in Threads : Holds(u)' => th_cpu'[u] \in Cpus
    BY <1>1, <1>2 DEF IInv, LockOwners
  <2>3. \A u \in Threads : th_st'[u] = "open" => tc_open_lock'[th_cpu'[u]] = u
    <3> SUFFICES ASSUME NEW u \in Threads, th_st'[u] = "open"
                 PROVE  tc_open_lock'[th_cpu'[u]] = u
      OBVIOUS
    <3>1. CASE u = t
      BY <1>1, <2>1, <3>1
    <3>2. CASE u # t
      <4>1. th_cpu[u] \in Cpus /\ tc_open_lock[th_cpu[u]] = u /\ th_cpu'[u] = th_cpu[u]
        BY <1>1, <3>2 DEF IInv, LockOwners, Holds
      <4> QED
        BY <2>1, <4>1, TxgAssumption
    <3> QED
      BY <3>1, <3>2
  <2>4. q_pc' = "lock" => \A d \in 1..(q_cpu' - 1) : tc_open_lock'[d] = Quiescer
    <3>1. UNCHANGED <<q_pc, q_cpu>> /\ 1..(q_cpu - 1) \subseteq Cpus
      BY Numbers DEF HoldOpen
    <3>2. q_pc = "lock" => \A d \in 1..(q_cpu - 1) : tc_open_lock[d] = Quiescer
      BY DEF IInv, LockOwners
    <3> QED
      BY <2>1, <3>1, <3>2, TxgAssumption
  <2> QED
    BY SMTT(40), <2>2, <2>3, <2>4 DEF LockOwners
<1>6. HandlesHoldTxg'
  BY <1>1, <1>3 DEF IInv, HandlesHoldTxg, HoldOpen
<1>7. Drained'
  <2>1. Draining => tx_quiescing_txg # tx_open_txg
    BY Numbers DEF IInv, Pipeline, Draining
  <2>2. UNCHANGED <<q_cpu, tx_quiescing_txg>>
    BY DEF HoldOpen
  <2> QED
    BY <1>1, <1>2, <1>3, <2>1, <2>2 DEF IInv, Drained
<1>8. CountsAreHandles'
  <2> SUFFICES ASSUME NEW d \in Cpus, NEW g \in Slots
               PROVE  tc_count'[d][g] = Cardinality(HandlesIn(d, g)')
    BY DEF CountsAreHandles
  <2>1. tc_count[d][g] = Cardinality(HandlesIn(d, g))
    BY DEF IInv, CountsAreHandles
  <2>2. CASE d = c /\ g = s
    <3>1. HandlesIn(d, g)' = HandlesIn(d, g) \cup {t} /\ t \notin HandlesIn(d, g)
      BY <1>0, <1>1, <1>2, <2>2 DEF HandlesIn
    <3>2. Cardinality(HandlesIn(d, g)') = Cardinality(HandlesIn(d, g)) + 1
      BY <3>1, HandlesFinite, FS_AddElement
    <3>3. tc_count'[d][g] = tc_count[d][g] + 1
      <4>1. tc_count \in [Cpus -> [Slots -> Int]]
        BY DEF IInv, TypeOK
      <4>2. tc_count' = [tc_count EXCEPT ![c][s] = @ + 1]
        BY DEF HoldOpen
      <4> HIDE DEF s
      <4> QED
        BY <2>2, <4>1, <4>2
    <3> QED
      BY <2>1, <3>2, <3>3
  <2>3. CASE ~(d = c /\ g = s)
    <3>1. HandlesIn(d, g)' = HandlesIn(d, g)
      BY ZenonT(40), <1>0, <1>1, <1>2, <2>3 DEF HandlesIn
    <3>2. tc_count'[d][g] = tc_count[d][g]
      BY <1>0, <2>3 DEF HoldOpen, IInv, TypeOK
    <3> QED
      BY <2>1, <3>1, <3>2
  <2> QED
    BY SMTT(40), <2>2, <2>3
<1>9. CallbackSlots' /\ \A txg \in cb_taskq' : txg <= tx_synced_txg'
  BY <1>3 DEF IInv, CallbackSlots, HoldOpen
<1> QED
  BY SMTT(40), <1>4, <1>5, <1>6, <1>7, <1>8, <1>9 DEF IInv

(* txg_rele_to_quiesce(): only the lock goes.                              *)
LEMMA ReleToQuiesceStep ==
    ASSUME IInv, TypeOK', NEW t \in Threads, ReleToQuiesce(t)
    PROVE  IInv'
<1>1. /\ th_st[t] = "open" /\ th_st'[t] = "quiesce"
      /\ \A u \in Threads \ {t} : th_st'[u] = th_st[u]
      /\ UNCHANGED <<th_cpu, th_txg>>
  BY DEF ReleToQuiesce, IInv, TypeOK
<1>2. \A u \in Threads : Holds(u)' <=> Holds(u)
  BY <1>1 DEF Holds
<1>3. Draining' = Draining /\ Behind' = Behind /\ LastDone' = LastDone
  BY DEF ReleToQuiesce, Draining, Behind, LastDone
<1>4. Pipeline' /\ SyncProgress'
  BY <1>3 DEF IInv, Pipeline, SyncProgress, ReleToQuiesce
<1>5. LockOwners'
  <2> DEFINE c == th_cpu[t]
  <2>1. /\ c \in Cpus /\ tc_open_lock[c] = t
        /\ \A d \in Cpus \ {c} : tc_open_lock'[d] = tc_open_lock[d]
    <3>1. c \in Cpus /\ tc_open_lock[c] = t
      BY DEF ReleToQuiesce, IInv, LockOwners, Holds
    <3> QED
      BY <3>1, Arrays DEF ReleToQuiesce
  <2> HIDE DEF c
  <2>2. \A u \in Threads : Holds(u)' => th_cpu'[u] \in Cpus
    BY <1>1, <1>2 DEF IInv, LockOwners
  <2>3. \A u \in Threads : th_st'[u] = "open" => tc_open_lock'[th_cpu'[u]] = u
    BY ZenonT(40), <1>1, <2>1 DEF IInv, LockOwners, Holds
  <2>4. q_pc' = "lock" => \A d \in 1..(q_cpu' - 1) : tc_open_lock'[d] = Quiescer
    <3> SUFFICES ASSUME q_pc = "lock", NEW d \in 1..(q_cpu - 1) PROVE tc_open_lock'[d] = Quiescer
      BY DEF ReleToQuiesce
    <3>1. tc_open_lock[d] = Quiescer
      BY DEF IInv, LockOwners
    <3>2. d \in Cpus
      <4>1. q_cpu \in 1..(NCpus + 1) /\ NCpus \in Nat
        BY TxgAssumption DEF IInv, TypeOK
      <4> QED
        BY <4>1
    <3> QED
      BY <2>1, <3>1, <3>2, TxgAssumption
  <2> QED
    BY SMTT(40), <2>2, <2>3, <2>4 DEF LockOwners
<1>6. HandlesHoldTxg'
  BY ZenonT(40), <1>1, <1>3 DEF IInv, HandlesHoldTxg, ReleToQuiesce
<1>7. Drained'
  BY ZenonT(40), <1>1, <1>2, <1>3 DEF IInv, Drained, ReleToQuiesce
<1>8. CountsAreHandles'
  <2>1. \A c, g : HandlesIn(c, g)' = HandlesIn(c, g)
    BY <1>1, <1>2, SameHandles
  <2> QED
    BY <2>1 DEF IInv, CountsAreHandles, ReleToQuiesce
<1>9. CallbackSlots' /\ \A txg \in cb_taskq' : txg <= tx_synced_txg'
  BY <1>3 DEF IInv, CallbackSlots, ReleToQuiesce
<1> QED
  BY SMTT(40), <1>4, <1>5, <1>6, <1>7, <1>8, <1>9 DEF IInv

(* txg_register_callbacks(): the txg of a handle is not done yet.          *)
LEMMA RegisterCallbacksStep ==
    ASSUME IInv, TypeOK', NEW t \in Threads, RegisterCallbacks(t)
    PROVE  IInv'
<1> DEFINE n == th_txg[t]
<1>1. n \in Nat /\ n <= tx_open_txg /\ n > LastDone
  <2>1. n \in Nat
    BY Handles
  <2>2. n = tx_open_txg \/ (Draining /\ n = tx_quiescing_txg)
    BY DEF RegisterCallbacks, IInv, HandlesHoldTxg
  <2>3. Draining => tx_quiescing_txg = tx_open_txg - 1 /\ tx_quiesced_txg = 0
    BY Numbers DEF IInv, Pipeline, Draining
  <2> QED
    BY <2>1, <2>2, <2>3, Numbers DEF Behind, LastDone
<1>2. \A c \in Cpus, g \in Slots : \A txg \in tc_callbacks'[c][g] :
            txg \in tc_callbacks[c][g] \/ (txg = n /\ g = Slot(n))
  <2>1. tc_callbacks' = [tc_callbacks EXCEPT ![th_cpu[t]][Slot(n)] = @ \cup {n}]
    BY DEF RegisterCallbacks
  <2>2. tc_callbacks \in [Cpus -> [Slots -> SUBSET Nat]]
    BY DEF IInv, TypeOK
  <2>3. th_cpu[t] \in Cpus /\ Slot(n) \in Slots
    BY <1>1 DEF IInv, LockOwners, Holds, RegisterCallbacks, Slot
  <2> HIDE DEF n
  <2>4. tc_callbacks'[th_cpu[t]] = [tc_callbacks[th_cpu[t]] EXCEPT ![Slot(n)] = @ \cup {n}]
    BY ZenonT(40), <2>1, <2>2, <2>3
  <2>5. \A c \in Cpus \ {th_cpu[t]} : tc_callbacks'[c] = tc_callbacks[c]
    BY <2>1, <2>2
  <2> QED
    BY <2>2, <2>3, <2>4, <2>5
<1>3. UNCHANGED <<Draining, Behind, LastDone>>
  BY DEF RegisterCallbacks, Draining, Behind, LastDone
<1>4. CallbackSlots'
  <2> HIDE DEF n
  <2> QED
    BY <1>1, <1>2, <1>3 DEF IInv, CallbackSlots, RegisterCallbacks
<1>5. \A u \in Threads : Holds(u)' <=> Holds(u)
  BY DEF RegisterCallbacks, Holds
<1>6. CountsAreHandles'
  <2>1. \A c, g : HandlesIn(c, g)' = HandlesIn(c, g)
    BY SMTT(40), <1>5, SameHandles DEF RegisterCallbacks
  <2> QED
    BY <2>1 DEF IInv, CountsAreHandles, RegisterCallbacks
<1>7. Pipeline' /\ SyncProgress' /\ LockOwners' /\ Drained' /\ HandlesHoldTxg'
  BY <1>3, <1>5 DEF IInv, Pipeline, SyncProgress, LockOwners, Drained, HandlesHoldTxg, RegisterCallbacks
<1> QED
  BY SMTT(40), <1>4, <1>6, <1>7 DEF IInv, RegisterCallbacks

(* txg_rele_to_sync(): one handle less on its CPU and slot.                *)
LEMMA ReleToSyncStep ==
    ASSUME IInv, TypeOK', NEW t \in Threads, ReleToSync(t)
    PROVE  IInv'
<1> DEFINE k == th_cpu[t]
           s == Slot(th_txg[t])
<1>0. k \in Cpus /\ s \in Slots /\ Holds(t)
  <2>1. Holds(t)
    BY DEF ReleToSync, Holds
  <2>2. k \in Cpus
    BY <2>1 DEF IInv, LockOwners
  <2> QED
    BY <2>1, <2>2, Handles, SlotType
<1>1. /\ th_st'[t] = "idle"
      /\ \A u \in Threads \ {t} : /\ th_st'[u] = th_st[u]
                                   /\ th_cpu'[u] = th_cpu[u]
                                   /\ th_txg'[u] = th_txg[u]
  BY Handles DEF ReleToSync
<1>2. ~Holds(t)' /\ \A u \in Threads \ {t} : Holds(u)' <=> Holds(u)
  BY <1>1 DEF Holds
<1>3. /\ (q_pc' = "lock") <=> (q_pc = "lock")
      /\ Draining' = Draining /\ Behind' = Behind /\ LastDone' = LastDone
  BY DEF ReleToSync, WakesDrain, Draining, Behind, LastDone
<1>4. Pipeline' /\ SyncProgress'
  BY <1>3 DEF IInv, Pipeline, SyncProgress, ReleToSync
<1>5. LockOwners'
  BY <1>1, <1>2, <1>3 DEF IInv, LockOwners, ReleToSync
<1>6. HandlesHoldTxg'
  BY <1>1, <1>3 DEF IInv, HandlesHoldTxg, ReleToSync
<1>7. Drained'
  BY SMTT(40), <1>1, <1>2, <1>3 DEF IInv, Drained, ReleToSync
<1>8. CountsAreHandles'
  <2> SUFFICES ASSUME NEW d \in Cpus, NEW g \in Slots
               PROVE  tc_count'[d][g] = Cardinality(HandlesIn(d, g)')
    BY DEF CountsAreHandles
  <2>1. tc_count[d][g] = Cardinality(HandlesIn(d, g))
    BY SMTT(40) DEF IInv, CountsAreHandles
  <2>2. tc_count' = [tc_count EXCEPT ![k][s] = @ - 1] /\ tc_count \in [Cpus -> [Slots -> Int]]
    BY DEF ReleToSync, IInv, TypeOK
  <2>3. CASE d = k /\ g = s
    <3>1. HandlesIn(d, g)' = HandlesIn(d, g) \ {t} /\ t \in HandlesIn(d, g)
      BY <1>0, <1>1, <1>2, <2>3 DEF HandlesIn
    <3>2. Cardinality(HandlesIn(d, g)') = Cardinality(HandlesIn(d, g)) - 1
      BY ZenonT(40), <3>1, HandlesFinite, FS_RemoveElement
    <3>3. tc_count'[d][g] = tc_count[d][g] - 1
      <4> HIDE DEF k, s
      <4> QED
        BY <1>0, <2>2, <2>3
    <3> QED
      BY SMTT(40), <2>1, <3>2, <3>3
  <2>4. CASE ~(d = k /\ g = s)
    <3>1. HandlesIn(d, g)' = HandlesIn(d, g)
      BY <1>0, <1>1, <1>2, <2>4 DEF HandlesIn
    <3>2. tc_count'[d][g] = tc_count[d][g]
      <4> HIDE DEF k, s
      <4> QED
        BY <1>0, <2>2, <2>4
    <3> QED
      BY <2>1, <3>1, <3>2
  <2> QED
    BY <2>3, <2>4
<1>9. CallbackSlots' /\ \A txg \in cb_taskq' : txg <= tx_synced_txg'
  BY <1>3 DEF IInv, CallbackSlots, ReleToSync
<1> QED
  BY <1>4, <1>5, <1>6, <1>7, <1>8, <1>9 DEF IInv

-----------------------------------------------------------------------------
(* A step that leaves the handles, the locks and the counts alone.         *)
LEMMA SameCounts ==
    ASSUME CountsAreHandles, UNCHANGED <<tc_count, th_st, th_cpu, th_txg>>
    PROVE  CountsAreHandles'
<1>1. \A c, g : HandlesIn(c, g)' = HandlesIn(c, g)
  BY DEF HandlesIn, Holds
<1> QED
  BY <1>1 DEF CountsAreHandles

(* The sync thread takes the quiesced txg.                                 *)
LEMMA SyncBeginStep == ASSUME IInv, TypeOK', SyncThreadBegin PROVE IInv'
<1>1. /\ tx_quiesced_txg # 0 /\ tx_quiesced_txg = tx_open_txg - 1 /\ tx_quiescing_txg = 0
      /\ tx_syncing_txg = 0 /\ q_pc # "lock" /\ ~Draining
  <2>1. tx_quiesced_txg # 0 /\ sync_pc # "sync"
    BY DEF SyncThreadBegin, AtHandoff
  <2>2. tx_quiesced_txg = tx_open_txg - 1 /\ tx_quiescing_txg = 0 /\ tx_syncing_txg = 0
    BY <2>1 DEF IInv, Pipeline, SyncProgress
  <2>3. tx_open_txg # 0 /\ tx_open_txg - 1 # 0
    BY <2>1, <2>2, Numbers
  <2> QED
    BY <2>1, <2>2, <2>3, Numbers DEF IInv, Pipeline
<1>2. /\ q_pc' # "lock" /\ ~Draining'
      /\ tx_quiesced_txg' = 0 /\ tx_syncing_txg' = tx_open_txg - 1 /\ sync_pc' = "sync"
      /\ UNCHANGED <<tx_open_txg, tx_quiescing_txg, tx_synced_txg>>
  BY <1>1 DEF SyncThreadBegin, QuiesceMore, Draining
<1>3. Behind' = tx_open_txg - 1 /\ LastDone' = LastDone /\ LastDone = tx_open_txg - 2
  BY <1>1, <1>2, Numbers DEF Behind, LastDone
<1>4. Pipeline' /\ SyncProgress'
  <2>1. LastDone >= InitTxg - 1 /\ tx_synced_txg = IF LastDone < InitTxg THEN 0 ELSE LastDone
    BY DEF IInv, Pipeline, SyncProgress
  <2> QED
    BY <1>1, <1>2, <1>3, <2>1, Numbers DEF Pipeline, SyncProgress
<1>5. LockOwners' /\ Drained'
  BY <1>2 DEF IInv, LockOwners, Drained, Holds, SyncThreadBegin, thVars
<1>6. HandlesHoldTxg'
  BY <1>1, <1>2 DEF IInv, HandlesHoldTxg, SyncThreadBegin
<1>7. CountsAreHandles'
  BY SameCounts DEF IInv, SyncThreadBegin
<1>8. CallbackSlots' /\ \A txg \in cb_taskq' : txg <= tx_synced_txg'
  BY <1>2, <1>3 DEF IInv, CallbackSlots, SyncThreadBegin
<1> QED
  BY SMTT(40), <1>4, <1>5, <1>6, <1>7, <1>8 DEF IInv

(* The sync thread has synced its txg and dispatches its callbacks.        *)
LEMMA SyncDoneStep == ASSUME IInv, TypeOK', SyncThreadDone PROVE IInv'
<1>1. /\ tx_syncing_txg # 0 /\ tx_syncing_txg = Behind /\ LastDone = Behind - 1
      /\ Behind \in Int /\ LastDone \in Int
      /\ tx_open_txg <= Behind + 2 /\ tx_syncing_txg \in Nat
  <2>1. tx_syncing_txg # 0
    BY DEF SyncThreadDone, IInv, SyncProgress
  <2>2. tx_syncing_txg = Behind
    BY <2>1 DEF IInv, Pipeline
  <2> QED
    BY <2>1, <2>2, Numbers DEF LastDone, Behind
<1>2. /\ Draining' = Draining /\ Behind' = Behind /\ LastDone' = Behind
      /\ tx_synced_txg' = Behind /\ tx_syncing_txg' = 0 /\ sync_pc' = "top"
      /\ UNCHANGED <<tx_open_txg, tx_quiescing_txg, tx_quiesced_txg, q_pc>>
  BY <1>1 DEF SyncThreadDone, DispatchCallbacks, Draining, Behind, LastDone
<1>3. Pipeline' /\ SyncProgress'
  BY <1>1, <1>2, TxgAssumption DEF IInv, Pipeline, SyncProgress
<1>4. LockOwners' /\ Drained' /\ HandlesHoldTxg'
  BY ZenonT(40), <1>2 DEF IInv, LockOwners, Drained, HandlesHoldTxg, Holds, SyncThreadDone, DispatchCallbacks
<1>5. CountsAreHandles'
  BY ZenonT(40), SameCounts DEF IInv, SyncThreadDone, DispatchCallbacks
<1>6. \A c \in Cpus, g \in Slots : \A txg \in tc_callbacks[c][g] :
          /\ txg \in Nat /\ txg >= Behind
          /\ (g = Slot(tx_syncing_txg)) <=> (txg = Behind)
  <2> SUFFICES ASSUME NEW c \in Cpus, NEW g \in Slots, NEW txg \in tc_callbacks[c][g]
               PROVE  /\ txg \in Nat /\ txg >= Behind
                      /\ (g = Slot(tx_syncing_txg)) <=> (txg = Behind)
    OBVIOUS
  <2>1. txg \in Nat /\ Slot(txg) = g /\ txg <= tx_open_txg /\ txg > LastDone
    <3>1. tc_callbacks \in [Cpus -> [Slots -> SUBSET Nat]]
      BY DEF IInv, TypeOK
    <3>2. Slot(txg) = g /\ txg <= tx_open_txg /\ txg > LastDone
      BY DEF IInv, CallbackSlots
    <3> QED
      BY <3>1, <3>2
  <2>2. txg >= Behind /\ txg <= Behind + 2
    BY <1>1, <2>1 DEF IInv, TypeOK
  <2>3. (txg % 4 = tx_syncing_txg % 4) <=> (txg = tx_syncing_txg)
    BY <1>1, <2>1, <2>2
  <2> QED
    BY <1>1, <2>1, <2>2, <2>3 DEF Slot
<1>7. CallbackSlots'
  <2> SUFFICES ASSUME NEW c \in Cpus, NEW g \in Slots, NEW txg \in tc_callbacks'[c][g]
               PROVE  Slot(txg) = g /\ txg <= tx_open_txg' /\ txg > LastDone'
    BY SMTT(40) DEF CallbackSlots
  <2>1. g # Slot(tx_syncing_txg) /\ txg \in tc_callbacks[c][g]
    BY Arrays DEF SyncThreadDone, DispatchCallbacks
  <2>2. Slot(txg) = g /\ txg <= tx_open_txg
    BY <2>1 DEF IInv, CallbackSlots
  <2> QED
    BY <1>1, <1>2, <1>6, <2>1, <2>2
<1>8. \A txg \in cb_taskq' : txg <= tx_synced_txg'
  <2> SUFFICES ASSUME NEW txg \in cb_taskq' PROVE txg <= tx_synced_txg'
    OBVIOUS
  <2>1. CASE txg \in cb_taskq
    <3>1. txg \in Nat /\ txg <= tx_synced_txg
      BY <2>1 DEF IInv, TypeOK
    <3>2. tx_synced_txg = 0 \/ tx_synced_txg = LastDone
      BY DEF IInv, Pipeline
    <3> QED
      BY <1>1, <1>2, <3>1, <3>2
  <2>2. CASE \E c \in Cpus : txg \in tc_callbacks[c][Slot(tx_syncing_txg)]
    <3>1. Slot(tx_syncing_txg) \in Slots
      BY <1>1 DEF Slot
    <3> QED
      BY <1>1, <1>2, <1>6, <2>2, <3>1
  <2> QED
    BY <2>1, <2>2 DEF SyncThreadDone, DispatchCallbacks
<1> QED
  BY SMTT(40), <1>3, <1>4, <1>5, <1>7, <1>8 DEF IInv

-----------------------------------------------------------------------------
(* The quiesce thread starts to close the open txg.                        *)
LEMMA QuiesceBeginStep == ASSUME IInv, TypeOK', QuiesceThreadBegin PROVE IInv'
<1>1. /\ tx_quiesced_txg = 0 /\ ~Draining /\ ~Draining' /\ q_pc' = "lock" /\ q_cpu' = 1
      /\ tx_quiescing_txg' = tx_open_txg
      /\ UNCHANGED <<tx_open_txg, tx_quiesced_txg, tx_syncing_txg, tx_synced_txg>>
  BY DEF QuiesceThreadBegin, QuiesceIdle, Draining
<1>2. Behind' = Behind /\ LastDone' = LastDone
  BY <1>1 DEF Behind, LastDone
<1>3. Pipeline' /\ SyncProgress'
  BY <1>1, <1>2 DEF IInv, Pipeline, SyncProgress, QuiesceThreadBegin
<1>4. LockOwners' /\ Drained'
  BY <1>1 DEF IInv, LockOwners, Drained, Holds, QuiesceThreadBegin
<1>5. HandlesHoldTxg'
  BY <1>1 DEF IInv, HandlesHoldTxg, QuiesceThreadBegin
<1>6. CountsAreHandles'
  BY SameCounts DEF IInv, QuiesceThreadBegin
<1>7. CallbackSlots' /\ \A txg \in cb_taskq' : txg <= tx_synced_txg'
  BY <1>1, <1>2 DEF IInv, CallbackSlots, QuiesceThreadBegin
<1> QED
  BY <1>3, <1>4, <1>5, <1>6, <1>7 DEF IInv

(* The quiesce thread takes the next tc_open_lock.                         *)
LEMMA QuiesceLockStep == ASSUME IInv, TypeOK', QuiesceLock PROVE IInv'
<1>1. /\ UNCHANGED <<Draining, Behind, LastDone>> /\ ~Draining
  BY DEF QuiesceLock, Draining, Behind, LastDone
<1>2. Pipeline' /\ SyncProgress'
  BY <1>1 DEF IInv, Pipeline, SyncProgress, QuiesceLock
<1>3. LockOwners'
  <2>1. /\ q_cpu \in Cpus /\ tc_open_lock[q_cpu] = NoOwner /\ q_cpu' = q_cpu + 1
        /\ tc_open_lock'[q_cpu] = Quiescer
        /\ \A d \in Cpus \ {q_cpu} : tc_open_lock'[d] = tc_open_lock[d]
    BY Arrays DEF QuiesceLock
  <2>2. \A t \in Threads : /\ Holds(t)' => th_cpu'[t] \in Cpus
                           /\ th_st'[t] = "open" => tc_open_lock'[th_cpu'[t]] = t
    BY <2>1, TxgAssumption DEF IInv, LockOwners, Holds, QuiesceLock
  <2>3. \A d \in 1..(q_cpu' - 1) : tc_open_lock'[d] = Quiescer
    <3> SUFFICES ASSUME NEW d \in 1..q_cpu PROVE tc_open_lock'[d] = Quiescer
      BY <2>1
    <3>1. d \in Cpus
      BY <2>1, TxgAssumption
    <3>2. CASE d = q_cpu
      BY <2>1, <3>2
    <3>3. CASE d # q_cpu
      <4>1. d \in 1..(q_cpu - 1) /\ q_pc = "lock"
        BY <3>1, <3>3, Numbers DEF QuiesceLock
      <4> QED
        BY <2>1, <3>1, <3>3, <4>1 DEF IInv, LockOwners
    <3> QED
      BY <3>2, <3>3
  <2> QED
    BY SMTT(40), <2>2, <2>3 DEF LockOwners
<1>4. Drained' /\ HandlesHoldTxg'
  BY ZenonT(40), <1>1 DEF IInv, Drained, HandlesHoldTxg, QuiesceLock
<1>5. CountsAreHandles'
  BY SameCounts DEF IInv, QuiesceLock
<1>6. CallbackSlots' /\ \A txg \in cb_taskq' : txg <= tx_synced_txg'
  BY <1>1 DEF IInv, CallbackSlots, QuiesceLock
<1> QED
  BY <1>2, <1>3, <1>4, <1>5, <1>6 DEF IInv

(* With every tc_open_lock held no handle is open: the txg can be closed.  *)
LEMMA QuiesceOpenNextStep == ASSUME IInv, TypeOK', QuiesceOpenNext PROVE IInv'
<1>1. /\ q_pc = "lock" /\ ~Draining /\ Draining' /\ q_pc' # "lock" /\ q_cpu' = 1
      /\ tx_open_txg' = tx_open_txg + 1
      /\ UNCHANGED <<tx_quiescing_txg, tx_quiesced_txg, tx_syncing_txg, tx_synced_txg>>
  BY DEF QuiesceOpenNext, Draining
<1>2. tx_quiescing_txg = tx_open_txg /\ tx_open_txg \in Nat /\ tx_open_txg # 0
  <2>1. tx_quiescing_txg = tx_open_txg /\ LastDone >= InitTxg - 1
    BY <1>1 DEF IInv, Pipeline, SyncProgress
  <2> QED
    BY <2>1, Numbers DEF LastDone, Behind
<1>3. tx_quiesced_txg = 0
  BY <1>1, <1>2 DEF IInv, Pipeline
<1>4. Behind' = Behind /\ LastDone' = LastDone
  BY <1>1, <1>2, <1>3 DEF Behind, LastDone
<1>5. Pipeline' /\ SyncProgress'
  BY <1>1, <1>2, <1>3, <1>4 DEF IInv, Pipeline, SyncProgress, QuiesceOpenNext
<1>6. \A t \in Threads : th_st[t] # "open"
  <2> SUFFICES ASSUME NEW t \in Threads, th_st[t] = "open" PROVE FALSE
    OBVIOUS
  <2>1. th_cpu[t] \in Cpus /\ tc_open_lock[th_cpu[t]] = t
    BY DEF IInv, LockOwners, Holds
  <2>2. th_cpu[t] \in 1..(q_cpu - 1)
    <3>1. q_cpu - 1 = NCpus
      BY Numbers DEF QuiesceOpenNext
    <3> QED
      BY <2>1, <3>1
  <2> QED
    BY ZenonT(40), <1>1, <2>1, <2>2, TxgAssumption DEF IInv, LockOwners
<1>7. LockOwners'
  <2>1. UNCHANGED <<th_st, th_cpu>>
    BY DEF QuiesceOpenNext
  <2> QED
    BY <1>1, <1>6, <2>1 DEF IInv, LockOwners, Holds
<1>8. Drained'
  <2>1. \A t \in Threads : Holds(t) => th_cpu[t] \in Cpus
    BY DEF IInv, LockOwners
  <2>2. UNCHANGED <<th_st, th_cpu>>
    BY DEF QuiesceOpenNext
  <2>3. \A t \in Threads : Holds(t)' => th_cpu'[t] >= q_cpu'
    BY <1>1, <2>1, <2>2, Numbers DEF Holds
  <2> QED
    BY <2>3 DEF Drained
<1>9. HandlesHoldTxg'
  BY ZenonT(40), <1>1, <1>2, <1>6 DEF IInv, HandlesHoldTxg, QuiesceOpenNext
<1>10. CountsAreHandles'
  <2>1. UNCHANGED <<th_st, th_cpu, th_txg, tc_count>> /\ CountsAreHandles
    BY DEF IInv, QuiesceOpenNext
  <2> QED
    BY <2>1, SameCounts
<1>11. CallbackSlots'
  <2>1. UNCHANGED tc_callbacks
    BY DEF QuiesceOpenNext
  <2>2. \A c \in Cpus, g \in Slots : \A txg \in tc_callbacks[c][g] :
            txg \in Nat /\ Slot(txg) = g /\ txg <= tx_open_txg /\ txg > LastDone
    <3>1. \A c \in Cpus, g \in Slots : \A txg \in tc_callbacks[c][g] : txg \in Nat
      BY Arrays
    <3>2. CallbackSlots
      BY DEF IInv
    <3> QED
      BY ONLY <3>1, <3>2 DEF CallbackSlots
  <2>3. \A txg \in Nat : txg <= tx_open_txg => txg <= tx_open_txg'
    BY <1>1, <1>2
  <2> QED
    BY ONLY <1>4, <2>1, <2>2, <2>3 DEF CallbackSlots
<1> QED
  BY <1>5, <1>7, <1>8, <1>9, <1>10, <1>11 DEF IInv, QuiesceOpenNext

(* The quiesce thread finds a CPU drained, or goes to sleep on it.         *)
LEMMA QuiesceDrainStep == ASSUME IInv, TypeOK', QuiesceDrain PROVE IInv'
<1>1. /\ Draining /\ Draining' /\ q_pc # "lock" /\ q_pc' # "lock"
      /\ Behind' = Behind /\ LastDone' = LastDone
  BY DEF QuiesceDrain, Draining, Behind, LastDone
<1>2. Pipeline' /\ SyncProgress'
  BY <1>1 DEF IInv, Pipeline, SyncProgress, QuiesceDrain
<1>3. LockOwners' /\ HandlesHoldTxg'
  BY ZenonT(40), <1>1 DEF IInv, LockOwners, HandlesHoldTxg, Holds, QuiesceDrain
<1>4. Drained'
  <2> DEFINE s == Slot(tx_quiescing_txg)
  <2>0. s \in Slots
    BY DEF IInv, TypeOK, Slot
  <2>1. CASE tc_count[q_cpu][s] # 0
    BY <1>1, <2>1 DEF IInv, Drained, Holds, QuiesceDrain
  <2>2. CASE tc_count[q_cpu][s] = 0
    <3>1. HandlesIn(q_cpu, s) = {}
      BY <2>0, <2>2, HandlesFinite, FS_EmptySet DEF IInv, CountsAreHandles, QuiesceDrain
    <3>2. \A t \in Threads : Holds(t) /\ th_txg[t] = tx_quiescing_txg => th_cpu[t] # q_cpu
      BY <3>1 DEF HandlesIn
    <3>3. \A t \in Threads : Holds(t) /\ th_txg[t] = tx_quiescing_txg => th_cpu[t] >= q_cpu
      BY <1>1 DEF IInv, Drained
    <3>4. \A t \in Threads : th_cpu[t] \in Int /\ q_cpu \in Int
      BY TxgAssumption DEF IInv, TypeOK
    <3>5. \A t \in Threads : Holds(t) /\ th_txg[t] = tx_quiescing_txg => th_cpu[t] >= q_cpu + 1
      BY <3>2, <3>3, <3>4
    <3> QED
      BY ZenonT(40), <2>2, <3>5 DEF Drained, Holds, QuiesceDrain
  <2> QED
    BY <2>1, <2>2
<1>5. CountsAreHandles'
  BY ZenonT(40), SameCounts DEF IInv, QuiesceDrain
<1>6. CallbackSlots' /\ \A txg \in cb_taskq' : txg <= tx_synced_txg'
  <2>1. UNCHANGED <<tc_callbacks, cb_taskq, tx_open_txg, tx_synced_txg>>
    BY DEF QuiesceDrain
  <2> QED
    BY <1>1, <2>1 DEF IInv, CallbackSlots
<1> QED
  BY SMTT(40), <1>2, <1>3, <1>4, <1>5, <1>6 DEF IInv

(* Every CPU is drained: the txg has no handle left and is handed off.     *)
LEMMA QuiesceHandoffStep == ASSUME IInv, TypeOK', QuiesceHandoff PROVE IInv'
<1>1. /\ Draining /\ ~Draining' /\ q_pc' # "lock"
      /\ tx_quiescing_txg = tx_open_txg - 1 /\ tx_quiescing_txg # 0 /\ tx_quiesced_txg = 0
  <2>1. Draining /\ ~Draining' /\ q_pc' # "lock" /\ q_pc # "lock"
    BY DEF QuiesceHandoff, Draining
  <2>2. tx_quiescing_txg = tx_open_txg - 1
    BY <2>1 DEF IInv, Pipeline
  <2>3. tx_open_txg >= 2
    BY <2>1, Numbers DEF IInv, SyncProgress, LastDone, Behind
  <2> QED
    BY <2>1, <2>2, <2>3, Numbers DEF IInv, Pipeline
<1>2. /\ tx_quiesced_txg' = tx_open_txg - 1 /\ tx_quiescing_txg' = 0
      /\ UNCHANGED <<tx_open_txg, tx_syncing_txg, tx_synced_txg>>
      /\ (sync_pc' = "sync") <=> (sync_pc = "sync")
  BY <1>1 DEF QuiesceHandoff, QuiesceDone, SyncMore
<1>3. Behind' = Behind /\ LastDone' = LastDone
  BY <1>1, <1>2 DEF Behind, LastDone
<1>4. Pipeline' /\ SyncProgress'
  <2>1. /\ LastDone >= InitTxg - 1 /\ (sync_pc = "sync" <=> tx_syncing_txg # 0)
        /\ tx_syncing_txg # 0 => tx_syncing_txg = Behind
        /\ tx_synced_txg = IF LastDone < InitTxg THEN 0 ELSE LastDone
    BY DEF IInv, Pipeline, SyncProgress
  <2> QED
    BY <1>1, <1>2, <1>3, <2>1 DEF Pipeline, SyncProgress
<1>5. LockOwners' /\ Drained'
  <2>1. UNCHANGED <<th_st, th_cpu, tc_open_lock>>
    BY DEF QuiesceHandoff
  <2> QED
    BY <1>1, <2>1 DEF IInv, LockOwners, Drained, Holds
<1>6. \A t \in Threads : Holds(t) => th_txg[t] # tx_quiescing_txg
  <2>1. q_cpu = NCpus + 1
    BY DEF QuiesceHandoff
  <2>2. \A t \in Threads : Holds(t) => th_cpu[t] \in Cpus
    BY DEF IInv, LockOwners
  <2>3. \A t \in Threads : Holds(t) /\ th_txg[t] = tx_quiescing_txg => th_cpu[t] >= q_cpu
    BY <1>1 DEF IInv, Drained
  <2> QED
    BY <2>1, <2>2, <2>3, Numbers
<1>7. HandlesHoldTxg'
  BY ZenonT(40), <1>2, <1>6 DEF IInv, HandlesHoldTxg, Holds, QuiesceHandoff
<1>8. CountsAreHandles'
  BY SameCounts DEF IInv, QuiesceHandoff
<1>9. CallbackSlots' /\ \A txg \in cb_taskq' : txg <= tx_synced_txg'
  BY ZenonT(40), <1>2, <1>3 DEF IInv, CallbackSlots, QuiesceHandoff
<1> QED
  BY <1>4, <1>5, <1>7, <1>8, <1>9 DEF IInv

-----------------------------------------------------------------------------
(* The other steps of the two threads stay within the frame.               *)
LEMMA ThreadFrame ==
    ASSUME IInv,
           \/ SyncThreadIdle \/ SyncThreadTimeout \/ SyncThreadSuspended
           \/ SyncThreadPrompt \/ SyncThreadExit \/ QuiesceThreadWait \/ QuiesceThreadExit
    PROVE  Frame
<1>1. CASE SyncThreadIdle \/ SyncThreadTimeout \/ SyncThreadSuspended
  BY ZenonT(40), <1>1 DEF Frame, SyncThreadIdle, SyncThreadTimeout, SyncThreadSuspended
<1>2. CASE SyncThreadPrompt
  BY ZenonT(40), <1>2 DEF Frame, SyncThreadPrompt, AtHandoff, QuiesceMore
<1>3. CASE SyncThreadExit
  <2>1. /\ UNCHANGED <<txgVars, tc_open_lock, tc_count, cbVars, q_cpu, q_pc, th_st, th_cpu, th_txg>>
        /\ sync_pc # "sync" /\ sync_pc' # "sync"
    BY <1>3 DEF SyncThreadExit, AtHandoff
  <2> QED
    BY <2>1 DEF Frame
<1>4. CASE QuiesceThreadWait \/ QuiesceThreadExit
  BY <1>4 DEF Frame, QuiesceThreadWait, QuiesceThreadExit
<1> QED
  BY <1>1, <1>2, <1>3, <1>4

(* So do the calls that wait for a txg, kick it or stop the threads.       *)
LEMMA ClientFrame ==
    ASSUME IInv, NEW t \in Threads,
           \/ \E n \in Targets : CallWaitSynced(t, n) \/ CallWaitSyncedSig(t, n)
           \/ WaitSyncedAgain(t) \/ WaitSyncedSignalled(t)
           \/ \E n \in Targets, b \in BOOLEAN : WaitOpen(t, n, b)
           \/ WaitOpenAgain(t) \/ Kick(t)
           \/ SyncStop(t) \/ SyncStopKill(t) \/ SyncStopExit(t)
    PROVE  Frame
<1> USE DEF Frame, Holds
<1>0. th_st \in [Threads -> ThreadStates] /\ th_txg \in [Threads -> Nat]
  BY DEF IInv, TypeOK
<1>1. CASE \E n \in Targets : CallWaitSynced(t, n) \/ CallWaitSyncedSig(t, n)
  BY ZenonT(40), <1>0, <1>1 DEF CallWaitSynced, CallWaitSyncedSig, WaitSynced, SyncedLoop, SyncMore, Returned
<1>2. CASE WaitSyncedAgain(t) \/ WaitSyncedSignalled(t)
  <2>1. CASE WaitSyncedAgain(t)
    BY <1>0, <2>1 DEF WaitSyncedAgain, SyncedLoop, SyncMore, Returned
  <2>2. CASE WaitSyncedSignalled(t)
    BY <1>0, <2>2 DEF WaitSyncedSignalled, Returned
  <2> QED
    BY <1>2, <2>1, <2>2
<1>3. CASE \E n \in Targets, b \in BOOLEAN : WaitOpen(t, n, b)
  <2>1. PICK n \in Targets, b \in BOOLEAN : WaitOpen(t, n, b)
    BY <1>3
  <2>2. /\ UNCHANGED <<txgVars, tc_open_lock, tc_count, cbVars, sync_pc, q_cpu, th_cpu>>
        /\ th_st[t] = "idle"
        /\ \E txg : OpenLoop(t, txg)
    BY <2>1 DEF WaitOpen
  <2> QED
    BY <1>0, <2>2 DEF OpenLoop, QuiesceMore, cbVars
<1>4. CASE WaitOpenAgain(t) \/ Kick(t)
  <2>1. CASE WaitOpenAgain(t)
    BY <1>0, <2>1 DEF WaitOpenAgain, OpenLoop, QuiesceMore
  <2>2. CASE Kick(t)
    BY <1>0, <2>2 DEF Kick, SyncMore
  <2> QED
    BY <1>4, <2>1, <2>2
<1>5. CASE SyncStop(t)
  BY <1>0, <1>5 DEF SyncStop, WaitSynced, SyncedLoop, SyncMore, Returned
<1>6. CASE SyncStopKill(t) \/ SyncStopExit(t)
  BY ZenonT(40), <1>0, <1>6 DEF SyncStopKill, SyncStopExit, QuiesceMore, QuiesceDone, SyncMore
<1> QED
  BY ZenonT(40), <1>1, <1>2, <1>3, <1>4, <1>5, <1>6

-----------------------------------------------------------------------------
(* A pool just opened by txg_init() and txg_sync_start() satisfies IInv.   *)
LEMMA InitIInv == ASSUME Init PROVE IInv
<1>1. TypeOK
  <2>1. InitTxg \in Nat /\ 1 \in 1..(NCpus + 1) /\ 0 \in 0..NCpus
    BY TxgAssumption
  <2>2. th_st \in [Threads -> ThreadStates] /\ th_cpu \in [Threads -> 0..NCpus]
    BY <2>1 DEF Init, ThreadStates
  <2>3. sync_pc \in SyncStates /\ q_pc \in QuiesceStates
    BY DEF Init, SyncStates, QuiesceStates
  <2>4. tx_exiting \in BOOLEAN /\ sync_due \in BOOLEAN /\ suspended \in BOOLEAN
    BY DEF Init
  <2>5. /\ tc_open_lock \in [Cpus -> Threads \cup {NoOwner, Quiescer}]
        /\ tc_count \in [Cpus -> [Slots -> Int]]
        /\ tc_callbacks \in [Cpus -> [Slots -> SUBSET Nat]]
        /\ th_txg \in [Threads -> Nat]
    BY DEF Init
  <2> QED
    BY <2>1, <2>2, <2>3, <2>4, <2>5 DEF Init, TypeOK
<1>2. ~Draining /\ Behind = InitTxg - 1 /\ LastDone = InitTxg - 1
  BY TxgAssumption DEF Init, Draining, Behind, LastDone
<1>3. Pipeline /\ SyncProgress
  BY <1>2, TxgAssumption DEF Init, Pipeline, SyncProgress
<1>4. \A t \in Threads : ~Holds(t) /\ th_st[t] = "idle"
  BY DEF Init, Holds
<1>5. LockOwners /\ Drained /\ HandlesHoldTxg
  BY <1>2, <1>4 DEF Init, LockOwners, Drained, HandlesHoldTxg
<1>6. CountsAreHandles
  <2>1. \A c, g : HandlesIn(c, g) = {}
    BY <1>4 DEF HandlesIn
  <2> QED
    BY <2>1, FS_EmptySet DEF Init, CountsAreHandles
<1>7. CallbackSlots /\ \A txg \in cb_taskq : txg <= tx_synced_txg
  BY DEF Init, CallbackSlots
<1> QED
  BY SMTT(40), <1>1, <1>3, <1>5, <1>6, <1>7 DEF IInv

(* Every step of txg.c keeps IInv.                                         *)
LEMMA NextIInv == ASSUME IInv, [Next]_vars PROVE IInv'
<1>0. TypeOK'
  BY TypeStep DEF IInv
<1>1. CASE UNCHANGED vars
  <2>1. Frame
    BY <1>1 DEF Frame, vars
  <2> QED
    BY <1>0, <2>1, FrameStep
<1>2. CASE SyncThread
  BY <1>0, <1>2, SyncBeginStep, SyncDoneStep, ThreadFrame, FrameStep DEF SyncThread
<1>3. CASE QuiesceThread
  BY <1>0, <1>3, QuiesceBeginStep, QuiesceLockStep, QuiesceOpenNextStep, QuiesceDrainStep,
     QuiesceHandoffStep, ThreadFrame, FrameStep DEF QuiesceThread
<1>4. ASSUME NEW t \in Threads, ClientThread(t) PROVE IInv'
  BY SMTT(40), <1>0, <1>4, HoldOpenStep, ReleToQuiesceStep, RegisterCallbacksStep, ReleToSyncStep,
     ClientFrame, FrameStep DEF ClientThread
<1>5. CASE (\E txg \in cb_taskq : DoCallbacks(txg)) \/ Suspend \/ Resume
  <2>1. Frame
    BY <1>5 DEF Frame, DoCallbacks, Suspend, Resume
  <2> QED
    BY <1>0, <2>1, FrameStep
<1>6. CASE Stopped
  BY <1>1, <1>6 DEF Stopped
<1> QED
  BY <1>1, <1>2, <1>3, <1>4, <1>5, <1>6 DEF Next

(* IInv holds in every reachable state.                                    *)
THEOREM InductiveInvariant == Spec => []IInv
<1>1. Init => IInv
  BY InitIInv
<1>2. IInv /\ [Next]_vars => IInv'
  BY NextIInv
<1> QED
  BY <1>1, <1>2, PTL DEF Spec

(* txg.c keeps its variables in their types.                               *)
THEOREM TypeCorrect == Spec => []TypeOK
<1>1. IInv => TypeOK
  BY DEF IInv
<1> QED
  BY <1>1, InductiveInvariant, PTL

(* The txgs in flight are always consecutive (the states of txg.c).        *)
THEOREM PipelineCorrect == Spec => []Pipeline
<1>1. IInv => Pipeline
  BY DEF IInv
<1> QED
  BY <1>1, InductiveInvariant, PTL

(* The guarantee in the comment of txg_hold_open().                        *)
THEOREM HandlesCorrect == Spec => []HandlesHoldTxg
<1>1. IInv => HandlesHoldTxg
  BY DEF IInv
<1> QED
  BY <1>1, InductiveInvariant, PTL

(* tc_count is exact, so txg_rele_to_sync() never takes it below zero and  *)
(* txg_quiesce() waits for every handle.                                   *)
THEOREM CountsCorrect == Spec => []CountsAreHandles
<1>1. IInv => CountsAreHandles
  BY DEF IInv
<1> QED
  BY <1>1, InductiveInvariant, PTL

(* txg_dispatch_callbacks() needs no tc_lock: the slot holds the callbacks *)
(* of the txg just synced and of no other.                                 *)
THEOREM CallbacksCorrect == Spec => []CallbacksAtSync
<1>1. IInv => CallbacksAtSync
  <2> SUFFICES ASSUME IInv PROVE CallbacksAtSync
    OBVIOUS
  <2>1. LastDone >= tx_synced_txg /\ LastDone \in Int /\ tx_synced_txg \in Nat
    <3>1. LastDone >= InitTxg - 1 /\ tx_synced_txg = IF LastDone < InitTxg THEN 0 ELSE LastDone
      BY DEF IInv, Pipeline, SyncProgress
    <3> QED
      BY <3>1, Numbers DEF LastDone, Behind
  <2>2. \A c \in Cpus, g \in Slots : \A txg \in tc_callbacks[c][g] : txg \in Nat /\ txg > LastDone
    <3>1. tc_callbacks \in [Cpus -> [Slots -> SUBSET Nat]]
      BY DEF IInv, TypeOK
    <3> QED
      BY <3>1 DEF IInv, CallbackSlots
  <2>3. \A c \in Cpus, g \in Slots : \A txg \in tc_callbacks[c][g] : txg > tx_synced_txg
    BY <2>1, <2>2
  <2> QED
    BY <2>3 DEF IInv, CallbacksAtSync
<1> QED
  BY <1>1, InductiveInvariant, PTL

(* The only steps that write the txgs are five of the two threads.         *)
LEMMA TxgWriters ==
    ASSUME [Next]_vars
    PROVE  UNCHANGED txgVars \/ SyncThreadBegin \/ SyncThreadDone
           \/ QuiesceThreadBegin \/ QuiesceOpenNext \/ QuiesceHandoff
<1>1. CASE UNCHANGED vars
  BY SMTT(40), <1>1 DEF vars
<1>2. CASE SyncThread
  BY <1>2 DEF SyncThread, SyncThreadIdle, SyncThreadTimeout, SyncThreadSuspended,
     SyncThreadPrompt, SyncThreadExit
<1>3. CASE QuiesceThread
  BY ZenonT(40), <1>3 DEF QuiesceThread, QuiesceThreadWait, QuiesceThreadExit, QuiesceLock, QuiesceDrain
<1>4. ASSUME NEW t \in Threads, ClientThread(t) PROVE UNCHANGED txgVars
  BY ZenonT(40), <1>4 DEF ClientThread, HoldOpen, ReleToQuiesce, RegisterCallbacks, ReleToSync,
     CallWaitSynced, CallWaitSyncedSig, WaitSynced, WaitSyncedAgain, WaitSyncedSignalled,
     WaitOpen, WaitOpenAgain, Kick, SyncStop, SyncStopKill, SyncStopExit
<1>5. CASE (\E txg \in cb_taskq : DoCallbacks(txg)) \/ Suspend \/ Resume \/ Stopped
  BY <1>5 DEF DoCallbacks, Suspend, Resume, Stopped, vars
<1> QED
  BY <1>1, <1>2, <1>3, <1>4, <1>5 DEF Next

(* tx_open_txg only moves to the next txg, and so does tx_synced_txg.      *)
LEMMA OrderStep ==
    ASSUME IInv, [Next]_vars
    PROVE  /\ tx_open_txg' \in {tx_open_txg, tx_open_txg + 1}
           /\ \/ tx_synced_txg' \in {tx_synced_txg, tx_synced_txg + 1}
              \/ tx_synced_txg = 0 /\ tx_synced_txg' = InitTxg
<1>1. CASE SyncThreadDone
  <2>1. tx_synced_txg' = tx_syncing_txg /\ tx_open_txg' = tx_open_txg /\ tx_syncing_txg # 0
    <3>1. sync_pc = "sync" <=> tx_syncing_txg # 0
      BY DEF IInv, SyncProgress
    <3> QED
      BY ONLY <1>1, <3>1 DEF SyncThreadDone
  <2>2. Behind \in Int /\ LastDone = Behind - 1 /\ tx_syncing_txg = Behind
    BY <2>1, Numbers DEF IInv, Pipeline, Behind, LastDone
  <2>3. /\ LastDone >= InitTxg - 1
        /\ tx_synced_txg = IF LastDone < InitTxg THEN 0 ELSE LastDone
    BY DEF IInv, Pipeline, SyncProgress
  <2> QED
    BY <2>1, <2>2, <2>3, Numbers
<1>2. CASE UNCHANGED txgVars \/ SyncThreadBegin \/ QuiesceThreadBegin \/ QuiesceOpenNext
           \/ QuiesceHandoff
  <2>1. CASE UNCHANGED txgVars
    BY <2>1 DEF txgVars
  <2>2. CASE SyncThreadBegin
    BY <2>2 DEF SyncThreadBegin
  <2>3. CASE QuiesceThreadBegin
    BY <2>3 DEF QuiesceThreadBegin
  <2>4. CASE QuiesceOpenNext
    BY <2>4 DEF QuiesceOpenNext
  <2>5. CASE QuiesceHandoff
    BY <2>5 DEF QuiesceHandoff
  <2> QED
    BY <1>2, <2>1, <2>2, <2>3, <2>4, <2>5
<1> QED
  BY <1>1, <1>2, TxgWriters

(* Every txg is synced once and in order, and handles are monotonic.       *)
THEOREM OrderCorrect == Spec => TxgsInOrder
<1>1. IInv /\ [Next]_vars =>
        [ /\ tx_open_txg' \in {tx_open_txg, tx_open_txg + 1}
          /\ tx_synced_txg' \in {tx_synced_txg, tx_synced_txg + 1}
             \/ (tx_synced_txg = 0 /\ tx_synced_txg' = InitTxg) ]_vars
  BY OrderStep
<1> QED
  BY <1>1, InductiveInvariant, PTL DEF Spec, TxgsInOrder
=============================================================================
