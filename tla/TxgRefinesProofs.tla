-------------------------- MODULE TxgRefinesProofs --------------------------
(***************************************************************************)
(* txg.c implements TxgAbs, for every number of threads, CPUs and txgs.    *)
(***************************************************************************)
EXTENDS TxgRefines, TxgProofs

USE DEF TXG_SIZE, TXG_DEFER_SIZE, Slots, Cpus
USE DEF txgVars, waitVars, exitVars, cbVars, thVars, susVars

(* What a step does to no handle and no txg is a stutter of TxgAbs.        *)
LEMMA SameAbs ==
    ASSUME \A t \in Threads : Holds(t)' <=> Holds(t),
           \A t \in Threads : Holds(t) => th_txg'[t] = th_txg[t] /\ th_st'[t] = th_st[t]
    PROVE  heldTxg' = heldTxg /\ heldPhase' = heldPhase
  BY DEF heldTxg, heldPhase

LEMMA FrameAbs == ASSUME Frame PROVE UNCHANGED Abs!absVars
<1>1. \A t \in Threads : Holds(t)' <=> Holds(t)
  BY DEF Frame, Holds
<1>2. \A t \in Threads : Holds(t) => th_txg'[t] = th_txg[t] /\ th_st'[t] = th_st[t]
  BY DEF Frame, Holds
<1>3. tx_open_txg' = tx_open_txg /\ LastDone' = LastDone
  BY DEF Frame, LastDone, Behind, Draining
<1> QED
  BY <1>1, <1>2, <1>3, SameAbs DEF Abs!absVars

(* Steps that only move txgs between the quiescing and syncing states.     *)
LEMMA ThreadAbs ==
    ASSUME IInv, SyncThreadBegin \/ QuiesceThreadBegin \/ QuiesceLock \/ QuiesceDrain
                 \/ QuiesceHandoff
    PROVE  UNCHANGED Abs!absVars
<1>1. UNCHANGED <<th_st, th_txg, tx_open_txg>>
  BY DEF SyncThreadBegin, QuiesceThreadBegin, QuiesceLock, QuiesceDrain, QuiesceHandoff
<1>2. heldTxg' = heldTxg /\ heldPhase' = heldPhase
  BY <1>1, SameAbs DEF Holds
<1>3. LastDone' = LastDone
  <2>1. CASE SyncThreadBegin
    <3>1. /\ tx_syncing_txg = 0 /\ tx_syncing_txg' # 0 /\ tx_quiesced_txg # 0
          /\ tx_quiesced_txg' = 0 /\ tx_open_txg' = tx_open_txg
      BY <2>1 DEF SyncThreadBegin, AtHandoff, IInv, SyncProgress
    <3>2. Draining' = Draining
      BY <2>1 DEF SyncThreadBegin, Draining, QuiesceMore
    <3>3. ~Draining
      BY <3>1, Numbers DEF IInv, Pipeline, Draining, SyncProgress, LastDone, Behind
    <3> QED
      BY <3>1, <3>2, <3>3, Numbers DEF LastDone, Behind
  <2>2. CASE QuiesceThreadBegin \/ QuiesceLock \/ QuiesceDrain
    <3>1. Draining' = Draining
      BY <2>2 DEF QuiesceThreadBegin, QuiesceLock, QuiesceDrain, Draining
    <3>2. UNCHANGED <<tx_open_txg, tx_quiesced_txg, tx_syncing_txg>>
      BY <2>2 DEF QuiesceThreadBegin, QuiesceLock, QuiesceDrain
    <3> QED
      BY <3>1, <3>2 DEF LastDone, Behind
  <2>3. CASE QuiesceHandoff
    <3>1. /\ Draining /\ tx_quiesced_txg' = tx_quiescing_txg
          /\ UNCHANGED <<tx_open_txg, tx_syncing_txg>>
      BY <2>3 DEF QuiesceHandoff, Draining
    <3>2. tx_quiescing_txg = tx_open_txg - 1 /\ tx_open_txg >= 2
      BY <3>1, Numbers DEF IInv, Pipeline, Draining, SyncProgress, LastDone, Behind
    <3> QED
      BY <3>1, <3>2, Numbers DEF LastDone, Behind
  <2> QED
    BY <2>1, <2>2, <2>3
<1> QED
  BY <1>1, <1>2, <1>3 DEF Abs!absVars

(* The steps of a handle.                                                  *)
LEMMA ClientAbs ==
    ASSUME IInv, NEW t \in Threads, ClientThread(t)
    PROVE  Abs!AbsNext \/ UNCHANGED Abs!absVars
<1>0. th_st \in [Threads -> ThreadStates] /\ th_txg \in [Threads -> Nat]
  BY Handles
<1>1. ASSUME NEW c \in Cpus, HoldOpen(t, c) PROVE Abs!Hold(t)
  <2>1. /\ th_st[t] = "idle" /\ th_st'[t] = "open" /\ th_txg'[t] = tx_open_txg
        /\ \A u \in Threads \ {t} : th_st'[u] = th_st[u] /\ th_txg'[u] = th_txg[u]
    BY <1>0, <1>1 DEF HoldOpen
  <2>2. tx_open_txg' = tx_open_txg /\ LastDone' = LastDone
    BY <1>1 DEF HoldOpen, LastDone, Behind, Draining
  <2>3. /\ heldTxg' = [heldTxg EXCEPT ![t] = tx_open_txg]
        /\ heldPhase' = [heldPhase EXCEPT ![t] = "open"] /\ heldPhase[t] = "none"
    BY <2>1 DEF heldTxg, heldPhase, Holds
  <2> QED
    BY <2>2, <2>3 DEF Abs!Hold
<1>2. CASE ReleToQuiesce(t)
  <2>1. /\ th_st[t] = "open" /\ th_st'[t] = "quiesce"
        /\ \A u \in Threads \ {t} : th_st'[u] = th_st[u]
        /\ th_txg' = th_txg
    BY <1>0, <1>2 DEF ReleToQuiesce
  <2>2. tx_open_txg' = tx_open_txg /\ LastDone' = LastDone
    BY <1>2 DEF ReleToQuiesce, LastDone, Behind, Draining
  <2>3. /\ heldTxg' = heldTxg
        /\ heldPhase' = [heldPhase EXCEPT ![t] = "quiesce"] /\ heldPhase[t] = "open"
    BY <2>1 DEF heldTxg, heldPhase, Holds
  <2>4. Abs!ToQuiesce(t)
    BY <2>2, <2>3 DEF Abs!ToQuiesce
  <2> QED
    BY <2>4 DEF Abs!AbsNext
<1>3. CASE RegisterCallbacks(t)
  <2>1. UNCHANGED <<th_st, th_txg, tx_open_txg>> /\ LastDone' = LastDone
    BY <1>3 DEF RegisterCallbacks, LastDone, Behind, Draining
  <2> QED
    BY <2>1, SameAbs DEF Abs!absVars, Holds
<1>4. CASE ReleToSync(t)
  <2>1. /\ th_st[t] = "quiesce" /\ th_st'[t] = "idle"
        /\ \A u \in Threads \ {t} : th_st'[u] = th_st[u] /\ th_txg'[u] = th_txg[u]
    BY <1>0, <1>4 DEF ReleToSync
  <2>2. tx_open_txg' = tx_open_txg /\ LastDone' = LastDone
    BY <1>4 DEF ReleToSync, LastDone, Behind, Draining, WakesDrain
  <2>3. /\ heldTxg' = [heldTxg EXCEPT ![t] = 0]
        /\ heldPhase' = [heldPhase EXCEPT ![t] = "none"] /\ heldPhase[t] = "quiesce"
    BY <2>1 DEF heldTxg, heldPhase, Holds
  <2>4. Abs!ToSync(t)
    BY <2>2, <2>3 DEF Abs!ToSync
  <2> QED
    BY <2>4 DEF Abs!AbsNext
<1>5. CASE \/ \E n \in Targets : CallWaitSynced(t, n) \/ CallWaitSyncedSig(t, n)
           \/ WaitSyncedAgain(t) \/ WaitSyncedSignalled(t)
           \/ \E n \in Targets, b \in BOOLEAN : WaitOpen(t, n, b)
           \/ WaitOpenAgain(t) \/ Kick(t)
           \/ SyncStop(t) \/ SyncStopKill(t) \/ SyncStopExit(t)
  BY <1>5, ClientFrame, FrameAbs
<1> QED
  BY <1>1, <1>2, <1>3, <1>4, <1>5 DEF ClientThread, Abs!AbsNext

(* txg_quiesce() with all locks held: no handle is in the way.             *)
LEMMA OpenNextAbs == ASSUME IInv, QuiesceOpenNext PROVE Abs!OpenNext
<1>1. /\ q_pc = "lock" /\ ~Draining /\ Draining' /\ q_cpu = NCpus + 1
      /\ tx_open_txg' = tx_open_txg + 1
      /\ UNCHANGED <<tx_quiesced_txg, tx_syncing_txg, th_st, th_txg>>
  BY DEF QuiesceOpenNext, Draining
<1>2. tx_quiescing_txg = tx_open_txg /\ tx_open_txg >= 1
  BY <1>1, Numbers DEF IInv, Pipeline, SyncProgress, LastDone, Behind
<1>3. tx_quiesced_txg = 0
  BY <1>2, Numbers DEF IInv, Pipeline
<1>4. LastDone' = LastDone /\ tx_open_txg - LastDone <= 2
  BY <1>1, <1>3, Numbers DEF LastDone, Behind
<1>5. \A t \in Threads : th_st[t] # "open"
  <2> SUFFICES ASSUME NEW t \in Threads, th_st[t] = "open" PROVE FALSE
    OBVIOUS
  <2>1. th_cpu[t] \in Cpus /\ tc_open_lock[th_cpu[t]] = t
    BY DEF IInv, LockOwners, Holds
  <2>2. th_cpu[t] \in 1..(q_cpu - 1)
    BY <1>1, <2>1, Numbers
  <2>3. tc_open_lock[th_cpu[t]] = Quiescer
    BY <1>1, <2>2 DEF IInv, LockOwners
  <2> QED
    BY <2>1, <2>3, TxgAssumption
<1>6. \A t \in Threads : heldPhase[t] # "open" /\ heldTxg[t] \in {0, tx_open_txg}
  BY <1>1, <1>5 DEF heldPhase, heldTxg, Holds, IInv, HandlesHoldTxg
<1>7. heldTxg' = heldTxg /\ heldPhase' = heldPhase
  BY <1>1, SameAbs DEF Holds
<1> QED
  BY <1>1, <1>4, <1>6, <1>7 DEF Abs!OpenNext

(* spa_sync() is done with the oldest txg, which has no handle.            *)
LEMMA SyncNextAbs == ASSUME IInv, SyncThreadDone PROVE Abs!SyncNext
<1>1. /\ tx_syncing_txg # 0 /\ tx_syncing_txg' = 0 /\ Draining' = Draining
      /\ UNCHANGED <<tx_open_txg, tx_quiesced_txg, th_st, th_txg>>
  BY DEF SyncThreadDone, Draining, IInv, SyncProgress
<1>2. LastDone + 1 = Behind /\ LastDone' = Behind /\ Behind \in Int /\ LastDone \in Int
  BY <1>1, Numbers DEF LastDone, Behind
<1>3. Behind < tx_open_txg /\ (Draining => Behind < tx_open_txg - 1)
  BY Numbers DEF Behind
<1>4. \A t \in Threads : Holds(t) =>
          th_txg[t] = tx_open_txg \/ (Draining /\ th_txg[t] = tx_open_txg - 1)
  BY DEF IInv, HandlesHoldTxg, Holds, Pipeline, Draining
<1>5. Behind # 0
  BY <1>1 DEF IInv, Pipeline
<1>6. \A t \in Threads : heldTxg[t] # LastDone + 1
  BY <1>2, <1>3, <1>4, <1>5, Numbers DEF heldTxg
<1>7. heldTxg' = heldTxg /\ heldPhase' = heldPhase
  BY <1>1, SameAbs DEF Holds
<1> QED
  BY <1>1, <1>2, <1>3, <1>6, <1>7 DEF Abs!SyncNext

LEMMA InitAbs == ASSUME Init PROVE Abs!AbsInit
<1>1. tx_open_txg = InitTxg /\ LastDone = InitTxg - 1
  BY TxgAssumption DEF Init, LastDone, Behind, Draining
<1>2. \A t \in Threads : ~Holds(t)
  BY DEF Init, Holds
<1> QED
  BY <1>1, <1>2 DEF Abs!AbsInit, heldTxg, heldPhase

LEMMA NextAbs == ASSUME IInv, [Next]_vars PROVE [Abs!AbsNext]_(Abs!absVars)
<1>1. CASE UNCHANGED vars
  <2>1. Frame
    BY <1>1 DEF Frame, vars
  <2> QED
    BY <2>1, FrameAbs
<1>2. CASE SyncThread
  BY <1>2, ThreadAbs, SyncNextAbs, ThreadFrame, FrameAbs DEF SyncThread, Abs!AbsNext
<1>3. CASE QuiesceThread
  BY <1>3, ThreadAbs, OpenNextAbs, ThreadFrame, FrameAbs DEF QuiesceThread, Abs!AbsNext
<1>4. ASSUME NEW t \in Threads, ClientThread(t) PROVE [Abs!AbsNext]_(Abs!absVars)
  BY <1>4, ClientAbs
<1>5. CASE (\E txg \in cb_taskq : DoCallbacks(txg)) \/ Suspend \/ Resume
  <2>1. Frame
    BY <1>5 DEF Frame, DoCallbacks, Suspend, Resume
  <2> QED
    BY <2>1, FrameAbs
<1>6. CASE Stopped
  BY <1>1, <1>6 DEF Stopped
<1> QED
  BY <1>1, <1>2, <1>3, <1>4, <1>5, <1>6 DEF Next

(* txg.c implements TxgAbs: what txg_hold_open() and the two releases      *)
(* promise holds whatever the sync and quiesce threads do.                 *)
THEOREM TxgImplementsTxgAbs == Spec => ImplementsTxgAbs
<1>1. Init => Abs!AbsInit
  BY InitAbs
<1>2. IInv /\ [Next]_vars => [Abs!AbsNext]_(Abs!absVars)
  BY NextAbs
<1> QED
  BY <1>1, <1>2, InductiveInvariant, PTL DEF Spec, ImplementsTxgAbs, Abs!AbsSpec

=============================================================================
