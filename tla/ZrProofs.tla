------------------------------- MODULE ZrProofs -------------------------------
(***************************************************************************)
(* The zero reference lock for any number of threads and references.       *)
(*                                                                         *)
(* The invariant says what the count is at every instruction: -1 while     *)
(* there is a holder of the lock, the number of references otherwise.      *)
(***************************************************************************)
EXTENDS ZrLock, FiniteSetTheorems, TLAPS

(* The references: the first zr_refs[t] of each thread.                    *)
ZrRefSet == {r \in Procs \X (1..MaxZrRefs) : r[2] <= zr_refs[r[1]]}

ZrCount ==
    /\ zr_locker = NoProc => zr_refcount = Cardinality(ZrRefSet)
    /\ zr_locker # NoProc => zr_refcount = ZRL_LOCKED /\ \A t \in Procs : zr_refs[t] = 0

(* What a thread has while it is inside of a call.                         *)
ZrPlaces ==
    \A t \in Procs :
        /\ zr_pc[t] \in {"add", "add_cas", "add_wait"} => zr_refs[t] < MaxZrRefs
        /\ zr_pc[t] \in {"add_owner", "remove_clear", "remove_dec"} => zr_refs[t] > 0
        /\ zr_pc[t] \in {"try_owner", "exit"} => zr_locker = t
        /\ zr_locker = t => zr_pc[t] \in {"out", "try_owner", "exit"}
        /\ zr_n[t] >= ZRL_LOCKED

(* A thread is in zr_owner while it has a reference it has not begun to    *)
(* return, or the lock.                                                    *)
ZrOwnerHolds ==
    \A t \in Procs : zr_owner = t =>
        \/ zr_refs[t] > 0 /\ zr_pc[t] # "remove_dec"
        \/ zr_locker = t /\ zr_pc[t] = "out"

ZrInd == ZrTypeOK /\ ZrCount /\ ZrPlaces /\ ZrOwnerHolds /\ ZrSleepersWait /\ ZrOwner

-----------------------------------------------------------------------------
(* The references are finitely many.                                       *)
LEMMA ZrRefSetFinite ==
  IsFiniteSet(ZrRefSet) /\ Cardinality(ZrRefSet) \in Nat
  <1>1. IsFiniteSet(Procs) /\ IsFiniteSet(1..MaxZrRefs)
    BY ClientsAssumption, ZrAssumption, FS_Interval
  <1>2. IsFiniteSet(Procs \X (1..MaxZrRefs))
    BY <1>1, FS_Product
  <1>3. ZrRefSet \in SUBSET (Procs \X (1..MaxZrRefs))
    BY DEF ZrRefSet
  <1>4. IsFiniteSet(ZrRefSet)
    BY <1>2, <1>3, FS_Subset
  <1> QED BY <1>4, FS_CardinalityType

(* A reference more is one more, ...                                       *)
LEMMA ZrRefAdded ==
  ASSUME ZrTypeOK, NEW t \in Procs, zr_refs[t] < MaxZrRefs,
         zr_refs' = [zr_refs EXCEPT ![t] = @ + 1]
  PROVE  Cardinality(ZrRefSet') = Cardinality(ZrRefSet) + 1
  <1> DEFINE r == <<t, zr_refs[t] + 1>>
  <1>1. ZrRefSet' = ZrRefSet \cup {r}
    BY ZrAssumption DEF ZrTypeOK, ZrRefSet
  <1>2. r \notin ZrRefSet
    BY ZrAssumption DEF ZrTypeOK, ZrRefSet
  <1> QED BY <1>1, <1>2, ZrRefSetFinite, FS_AddElement

(* ... one less is one less, ...                                           *)
LEMMA ZrRefRemoved ==
  ASSUME ZrTypeOK, NEW t \in Procs, zr_refs[t] > 0,
         zr_refs' = [zr_refs EXCEPT ![t] = @ - 1]
  PROVE  Cardinality(ZrRefSet') = Cardinality(ZrRefSet) - 1
  <1> DEFINE r == <<t, zr_refs[t]>>
  <1>1. ZrRefSet' = ZrRefSet \ {r}
    BY ZrAssumption DEF ZrTypeOK, ZrRefSet
  <1>2. r \in ZrRefSet
    BY ZrAssumption DEF ZrTypeOK, ZrRefSet
  <1> QED BY <1>1, <1>2, ZrRefSetFinite, FS_RemoveElement

(* ... and nobody has one exactly when there are none.                     *)
LEMMA ZrNoRefs ==
  ASSUME ZrTypeOK
  PROVE  Cardinality(ZrRefSet) = 0 <=> \A t \in Procs : zr_refs[t] = 0
  <1>1. ZrRefSet = {} => \A t \in Procs : zr_refs[t] = 0
    <2> SUFFICES ASSUME NEW t \in Procs, zr_refs[t] # 0 PROVE <<t, 1>> \in ZrRefSet
      OBVIOUS
    <2> QED BY ZrAssumption DEF ZrTypeOK, ZrRefSet
  <1>2. (\A t \in Procs : zr_refs[t] = 0) => ZrRefSet = {}
    BY ZrAssumption DEF ZrTypeOK, ZrRefSet
  <1> QED BY <1>1, <1>2, ZrRefSetFinite, FS_EmptySet

(* The count is not negative while nobody has the lock.                    *)
LEMMA ZrCountSign ==
  ASSUME ZrInd
  PROVE  zr_locker = NoProc <=> zr_refcount # ZRL_LOCKED
  BY ZrRefSetFinite DEF ZrInd, ZrCount, ZRL_LOCKED

(* zrl_init() makes a lock in which all of this holds.                     *)
LEMMA ZrIndInit == ZrInit => ZrInd
  <1> SUFFICES ASSUME ZrInit PROVE ZrInd
    OBVIOUS
  <1> USE ClientsAssumption, ZrAssumption DEF ZRL_LOCKED
  <1>1. ZrTypeOK
    BY DEF ZrInit, ZrTypeOK, ZrLabels
  <1>2. ZrCount
    BY <1>1, ZrNoRefs DEF ZrInit, ZrCount
  <1>3. ZrPlaces /\ ZrOwnerHolds /\ ZrSleepersWait /\ ZrOwner
    BY DEF ZrInit, ZrPlaces, ZrOwnerHolds, ZrSleepersWait, ZrOwner
  <1> QED BY <1>1, <1>2, <1>3 DEF ZrInd

(* zrl_add_impl() reads the count.                                         *)
LEMMA ZrAddReadKeeps ==
  ASSUME NEW t \in Procs, ZrInd, ZrAddRead(t) PROVE ZrInd'
  <1> USE ClientsAssumption, ZrAssumption DEF ZRL_LOCKED
  <1>1. ZrTypeOK'
    BY DEF ZrInd, ZrTypeOK, ZrLabels, ZrAddRead, ZrGoto
  <1>2. ZrCount'
    BY DEF ZrInd, ZrCount, ZrRefSet, ZrAddRead, ZrGoto
  <1>3. ZrPlaces'
    BY DEF ZrInd, ZrTypeOK, ZrLabels, ZrPlaces, ZrAddRead, ZrGoto
  <1>4. ZrOwnerHolds'
    BY DEF ZrInd, ZrTypeOK, ZrPlaces, ZrOwnerHolds, ZrCount, ZrAddRead, ZrGoto
  <1>5. ZrSleepersWait'
    BY DEF ZrInd, ZrSleepersWait, ZrAddRead, ZrGoto
  <1>6. ZrOwner'
    BY DEF ZrInd, ZrTypeOK, ZrPlaces, ZrOwnerHolds, ZrOwner, ZrCount, ZrAddRead, ZrGoto
  <1> QED BY <1>1, <1>2, <1>3, <1>4, <1>5, <1>6 DEF ZrInd

(* A reference is added to the count that was read, or the read repeated.  *)
LEMMA ZrAddCasKeeps ==
  ASSUME NEW t \in Procs, ZrInd, ZrAddCas(t) PROVE ZrInd'
  <1> USE ClientsAssumption, ZrAssumption DEF ZRL_LOCKED
  <1>0. (zr_locker = NoProc <=> zr_refcount # ZRL_LOCKED) /\ zr_refs[t] < MaxZrRefs
    BY ZrCountSign DEF ZrInd, ZrPlaces, ZrAddCas
  <1>1. ZrTypeOK'
    BY <1>0 DEF ZrInd, ZrTypeOK, ZrLabels, ZrAddCas, ZrGoto
  <1>2. ZrCount'
    <2>1. CASE zr_n[t] # ZRL_LOCKED /\ zr_refcount = zr_n[t]
      <3>1. zr_locker = NoProc /\ zr_refs' = [zr_refs EXCEPT ![t] = @ + 1]
            /\ zr_refcount' = zr_refcount + 1 /\ zr_locker' = zr_locker
        BY <1>0, <2>1 DEF ZrAddCas
      <3>2. Cardinality(ZrRefSet') = Cardinality(ZrRefSet) + 1
        BY <1>0, <3>1, ZrRefAdded DEF ZrInd
      <3> QED BY <3>1, <3>2 DEF ZrInd, ZrCount
    <2>2. CASE ~(zr_n[t] # ZRL_LOCKED /\ zr_refcount = zr_n[t])
      BY <2>2 DEF ZrInd, ZrCount, ZrRefSet, ZrAddCas
    <2> QED BY <2>1, <2>2
  <1>3. ZrPlaces'
    BY <1>0 DEF ZrInd, ZrTypeOK, ZrLabels, ZrPlaces, ZrAddCas, ZrGoto
  <1>4. ZrOwnerHolds'
    BY <1>0 DEF ZrInd, ZrTypeOK, ZrPlaces, ZrOwnerHolds, ZrCount, ZrAddCas, ZrGoto
  <1>5. ZrSleepersWait'
    BY <1>0 DEF ZrInd, ZrSleepersWait, ZrAddCas, ZrGoto
  <1>6. ZrOwner'
    BY <1>0 DEF ZrInd, ZrTypeOK, ZrPlaces, ZrOwnerHolds, ZrOwner, ZrCount, ZrAddCas, ZrGoto
  <1> QED BY <1>1, <1>2, <1>3, <1>4, <1>5, <1>6 DEF ZrInd

(* zr_owner is set by a thread with a reference.                           *)
LEMMA ZrAddOwnerKeeps ==
  ASSUME NEW t \in Procs, ZrInd, ZrAddOwner(t) PROVE ZrInd'
  <1> USE ClientsAssumption, ZrAssumption DEF ZRL_LOCKED
  <1>1. ZrTypeOK'
    BY DEF ZrInd, ZrTypeOK, ZrLabels, ZrAddOwner, ZrGoto
  <1>2. ZrCount'
    BY DEF ZrInd, ZrCount, ZrRefSet, ZrAddOwner, ZrGoto
  <1>3. ZrPlaces'
    BY DEF ZrInd, ZrTypeOK, ZrLabels, ZrPlaces, ZrAddOwner, ZrGoto
  <1>4. ZrOwnerHolds'
    BY DEF ZrInd, ZrTypeOK, ZrPlaces, ZrOwnerHolds, ZrCount, ZrAddOwner, ZrGoto
  <1>5. ZrSleepersWait'
    BY DEF ZrInd, ZrSleepersWait, ZrAddOwner, ZrGoto
  <1>6. ZrOwner'
    BY DEF ZrInd, ZrTypeOK, ZrPlaces, ZrOwnerHolds, ZrOwner, ZrCount, ZrAddOwner, ZrGoto
  <1> QED BY <1>1, <1>2, <1>3, <1>4, <1>5, <1>6 DEF ZrInd

(* A thread sleeps only while the count says that it is locked.            *)
LEMMA ZrAddWaitKeeps ==
  ASSUME NEW t \in Procs, ZrInd, ZrAddWait(t) PROVE ZrInd'
  <1> USE ClientsAssumption, ZrAssumption DEF ZRL_LOCKED
  <1>1. ZrTypeOK'
    BY DEF ZrInd, ZrTypeOK, ZrLabels, ZrAddWait, ZrGoto
  <1>2. ZrCount'
    BY DEF ZrInd, ZrCount, ZrRefSet, ZrAddWait, ZrGoto
  <1>3. ZrPlaces'
    BY DEF ZrInd, ZrTypeOK, ZrLabels, ZrPlaces, ZrAddWait, ZrGoto
  <1>4. ZrOwnerHolds'
    BY DEF ZrInd, ZrTypeOK, ZrPlaces, ZrOwnerHolds, ZrCount, ZrAddWait, ZrGoto
  <1>5. ZrSleepersWait'
    BY DEF ZrInd, ZrSleepersWait, ZrAddWait, ZrGoto
  <1>6. ZrOwner'
    BY DEF ZrInd, ZrTypeOK, ZrPlaces, ZrOwnerHolds, ZrOwner, ZrCount, ZrAddWait, ZrGoto
  <1> QED BY <1>1, <1>2, <1>3, <1>4, <1>5, <1>6 DEF ZrInd

(* zrl_remove() looks at zr_owner.                                         *)
LEMMA ZrRemoveTestKeeps ==
  ASSUME NEW t \in Procs, ZrInd, ZrRemoveTest(t) PROVE ZrInd'
  <1> USE ClientsAssumption, ZrAssumption DEF ZRL_LOCKED
  <1>1. ZrTypeOK'
    BY DEF ZrInd, ZrTypeOK, ZrLabels, ZrRemoveTest, ZrGoto
  <1>2. ZrCount'
    BY DEF ZrInd, ZrCount, ZrRefSet, ZrRemoveTest, ZrGoto
  <1>3. ZrPlaces'
    BY DEF ZrInd, ZrTypeOK, ZrLabels, ZrCount, ZrPlaces, ZrRemoveTest, ZrGoto
  <1>4. ZrOwnerHolds'
    BY DEF ZrInd, ZrTypeOK, ZrPlaces, ZrOwnerHolds, ZrCount, ZrRemoveTest, ZrGoto
  <1>5. ZrSleepersWait'
    BY DEF ZrInd, ZrSleepersWait, ZrRemoveTest, ZrGoto
  <1>6. ZrOwner'
    BY DEF ZrInd, ZrTypeOK, ZrPlaces, ZrOwnerHolds, ZrOwner, ZrCount, ZrRemoveTest, ZrGoto
  <1> QED BY <1>1, <1>2, <1>3, <1>4, <1>5, <1>6 DEF ZrInd

(* zrl_remove() clears zr_owner, which may be another thread by now.       *)
LEMMA ZrRemoveClearKeeps ==
  ASSUME NEW t \in Procs, ZrInd, ZrRemoveClear(t) PROVE ZrInd'
  <1> USE ClientsAssumption, ZrAssumption DEF ZRL_LOCKED
  <1>1. ZrTypeOK'
    BY DEF ZrInd, ZrTypeOK, ZrLabels, ZrRemoveClear, ZrGoto
  <1>2. ZrCount'
    BY DEF ZrInd, ZrCount, ZrRefSet, ZrRemoveClear, ZrGoto
  <1>3. ZrPlaces'
    BY DEF ZrInd, ZrTypeOK, ZrLabels, ZrPlaces, ZrRemoveClear, ZrGoto
  <1>4. ZrOwnerHolds'
    BY DEF ZrInd, ZrTypeOK, ZrPlaces, ZrOwnerHolds, ZrCount, ZrRemoveClear, ZrGoto
  <1>5. ZrSleepersWait'
    BY DEF ZrInd, ZrSleepersWait, ZrRemoveClear, ZrGoto
  <1>6. ZrOwner'
    BY DEF ZrInd, ZrTypeOK, ZrPlaces, ZrOwnerHolds, ZrOwner, ZrCount, ZrRemoveClear, ZrGoto
  <1> QED BY <1>1, <1>2, <1>3, <1>4, <1>5, <1>6 DEF ZrInd

(* A reference is returned.                                                *)
LEMMA ZrRemoveDecKeeps ==
  ASSUME NEW t \in Procs, ZrInd, ZrRemoveDec(t) PROVE ZrInd'
  <1> USE ClientsAssumption, ZrAssumption DEF ZRL_LOCKED
  <1>0. zr_locker = NoProc /\ zr_refs[t] > 0 /\ zr_refcount > 0
    BY ZrNoRefs, ZrRefSetFinite DEF ZrInd, ZrPlaces, ZrCount, ZrRemoveDec, ZrTypeOK
  <1>1. ZrTypeOK'
    BY <1>0 DEF ZrInd, ZrTypeOK, ZrLabels, ZrRemoveDec, ZrGoto
  <1>2. ZrCount'
    <2>1. zr_refs' = [zr_refs EXCEPT ![t] = @ - 1]
          /\ zr_refcount' = zr_refcount - 1 /\ zr_locker' = zr_locker
      BY DEF ZrRemoveDec
    <2>2. Cardinality(ZrRefSet') = Cardinality(ZrRefSet) - 1
      BY <1>0, <2>1, ZrRefRemoved DEF ZrInd
    <2> QED BY <1>0, <2>1, <2>2 DEF ZrInd, ZrCount
  <1>3. ZrPlaces'
    BY <1>0 DEF ZrInd, ZrTypeOK, ZrLabels, ZrPlaces, ZrRemoveDec, ZrGoto
  <1>4. ZrOwnerHolds'
    BY <1>0 DEF ZrInd, ZrTypeOK, ZrPlaces, ZrOwnerHolds, ZrCount, ZrRemoveDec, ZrGoto
  <1>5. ZrSleepersWait'
    BY <1>0 DEF ZrInd, ZrSleepersWait, ZrRemoveDec, ZrGoto
  <1>6. ZrOwner'
    BY <1>0 DEF ZrInd, ZrTypeOK, ZrPlaces, ZrOwnerHolds, ZrOwner, ZrCount, ZrRemoveDec, ZrGoto
  <1> QED BY <1>1, <1>2, <1>3, <1>4, <1>5, <1>6 DEF ZrInd

(* zrl_tryenter() reads the count.                                         *)
LEMMA ZrTryReadKeeps ==
  ASSUME NEW t \in Procs, ZrInd, ZrTryRead(t) PROVE ZrInd'
  <1> USE ClientsAssumption, ZrAssumption DEF ZRL_LOCKED
  <1>1. ZrTypeOK'
    BY DEF ZrInd, ZrTypeOK, ZrLabels, ZrTryRead, ZrGoto
  <1>2. ZrCount'
    BY DEF ZrInd, ZrCount, ZrRefSet, ZrTryRead, ZrGoto
  <1>3. ZrPlaces'
    BY DEF ZrInd, ZrTypeOK, ZrLabels, ZrPlaces, ZrTryRead, ZrGoto
  <1>4. ZrOwnerHolds'
    BY DEF ZrInd, ZrTypeOK, ZrPlaces, ZrOwnerHolds, ZrCount, ZrTryRead, ZrGoto
  <1>5. ZrSleepersWait'
    BY DEF ZrInd, ZrSleepersWait, ZrTryRead, ZrGoto
  <1>6. ZrOwner'
    BY DEF ZrInd, ZrTypeOK, ZrPlaces, ZrOwnerHolds, ZrOwner, ZrCount, ZrTryRead, ZrGoto
  <1> QED BY <1>1, <1>2, <1>3, <1>4, <1>5, <1>6 DEF ZrInd

(* The lock is taken when there is no reference, so nobody is in zr_owner. *)
LEMMA ZrTryCasKeeps ==
  ASSUME NEW t \in Procs, ZrInd, ZrTryCas(t) PROVE ZrInd'
  <1> USE ClientsAssumption, ZrAssumption DEF ZRL_LOCKED
  <1>0. zr_refcount = 0 => zr_locker = NoProc /\ \A u \in Procs : zr_refs[u] = 0
    BY ZrNoRefs, ZrCountSign DEF ZrInd, ZrCount
  <1>1. ZrTypeOK'
    BY <1>0 DEF ZrInd, ZrTypeOK, ZrLabels, ZrTryCas, ZrGoto
  <1>2. ZrCount'
    BY <1>0 DEF ZrInd, ZrCount, ZrRefSet, ZrTryCas
  <1>3. ZrPlaces'
    BY <1>0 DEF ZrInd, ZrTypeOK, ZrLabels, ZrPlaces, ZrTryCas, ZrGoto
  <1>4. ZrOwnerHolds'
    BY <1>0 DEF ZrInd, ZrTypeOK, ZrPlaces, ZrOwnerHolds, ZrCount, ZrTryCas, ZrGoto
  <1>5. ZrSleepersWait'
    BY <1>0 DEF ZrInd, ZrSleepersWait, ZrTryCas, ZrGoto
  <1>6. ZrOwner'
    BY <1>0 DEF ZrInd, ZrTypeOK, ZrPlaces, ZrOwnerHolds, ZrOwner, ZrCount, ZrTryCas, ZrGoto
  <1> QED BY <1>1, <1>2, <1>3, <1>4, <1>5, <1>6 DEF ZrInd

(* The holder is put in zr_owner.                                          *)
LEMMA ZrTryOwnerKeeps ==
  ASSUME NEW t \in Procs, ZrInd, ZrTryOwner(t) PROVE ZrInd'
  <1> USE ClientsAssumption, ZrAssumption DEF ZRL_LOCKED
  <1>1. ZrTypeOK'
    BY DEF ZrInd, ZrTypeOK, ZrLabels, ZrTryOwner, ZrGoto
  <1>2. ZrCount'
    BY DEF ZrInd, ZrCount, ZrRefSet, ZrTryOwner, ZrGoto
  <1>3. ZrPlaces'
    BY DEF ZrInd, ZrTypeOK, ZrLabels, ZrPlaces, ZrTryOwner, ZrGoto
  <1>4. ZrOwnerHolds'
    BY DEF ZrInd, ZrTypeOK, ZrPlaces, ZrOwnerHolds, ZrCount, ZrTryOwner, ZrGoto
  <1>5. ZrSleepersWait'
    BY DEF ZrInd, ZrSleepersWait, ZrTryOwner, ZrGoto
  <1>6. ZrOwner'
    BY DEF ZrInd, ZrTypeOK, ZrPlaces, ZrOwnerHolds, ZrOwner, ZrCount, ZrTryOwner, ZrGoto
  <1> QED BY <1>1, <1>2, <1>3, <1>4, <1>5, <1>6 DEF ZrInd

(* zrl_exit() takes the holder out of zr_owner.                            *)
LEMMA ZrExitKeeps ==
  ASSUME NEW t \in Procs, ZrInd, ZrExit(t) PROVE ZrInd'
  <1> USE ClientsAssumption, ZrAssumption DEF ZRL_LOCKED
  <1>1. ZrTypeOK'
    BY DEF ZrInd, ZrTypeOK, ZrLabels, ZrExit, ZrGoto
  <1>2. ZrCount'
    BY DEF ZrInd, ZrCount, ZrRefSet, ZrExit, ZrGoto
  <1>3. ZrPlaces'
    BY DEF ZrInd, ZrTypeOK, ZrLabels, ZrPlaces, ZrExit, ZrGoto
  <1>4. ZrOwnerHolds'
    BY DEF ZrInd, ZrTypeOK, ZrPlaces, ZrOwnerHolds, ZrCount, ZrExit, ZrGoto
  <1>5. ZrSleepersWait'
    BY DEF ZrInd, ZrSleepersWait, ZrExit, ZrGoto
  <1>6. ZrOwner'
    BY DEF ZrInd, ZrTypeOK, ZrPlaces, ZrOwnerHolds, ZrOwner, ZrCount, ZrExit, ZrGoto
  <1> QED BY <1>1, <1>2, <1>3, <1>4, <1>5, <1>6 DEF ZrInd

(* zrl_exit() unlocks the count.                                           *)
LEMMA ZrExitCountKeeps ==
  ASSUME NEW t \in Procs, ZrInd, ZrExitCount(t) PROVE ZrInd'
  <1> USE ClientsAssumption, ZrAssumption DEF ZRL_LOCKED
  <1>0. zr_locker = t /\ \A u \in Procs : zr_refs[u] = 0
    BY DEF ZrInd, ZrCount, ZrPlaces, ZrExitCount
  <1>1. ZrTypeOK'
    BY <1>0 DEF ZrInd, ZrTypeOK, ZrLabels, ZrExitCount, ZrGoto
  <1>2. ZrCount'
    <2>1. Cardinality(ZrRefSet) = 0
      BY <1>0, ZrNoRefs DEF ZrInd
    <2> QED BY <2>1 DEF ZrCount, ZrRefSet, ZrExitCount
  <1>3. ZrPlaces'
    BY <1>0 DEF ZrInd, ZrTypeOK, ZrLabels, ZrPlaces, ZrExitCount, ZrGoto
  <1>4. ZrOwnerHolds'
    BY <1>0 DEF ZrInd, ZrTypeOK, ZrPlaces, ZrOwnerHolds, ZrCount, ZrExitCount, ZrGoto
  <1>5. ZrSleepersWait'
    BY <1>0 DEF ZrInd, ZrSleepersWait, ZrExitCount, ZrGoto
  <1>6. ZrOwner'
    BY <1>0 DEF ZrInd, ZrTypeOK, ZrPlaces, ZrOwnerHolds, ZrOwner, ZrCount, ZrExitCount, ZrGoto
  <1> QED BY <1>1, <1>2, <1>3, <1>4, <1>5, <1>6 DEF ZrInd

-----------------------------------------------------------------------------
(* zrl_tryenter() and zrl_add() exclude each other, nobody sleeps on a     *)
(* lock that is free, and zr_owner is what the assertions of zrlock.c say, *)
(* for any number of threads and references.                               *)
THEOREM ZrLockIsCorrect == ZrSpec => []ZrCorrect
  <1>1. ZrInd /\ [ZrNext]_zrVars => ZrInd'
    <2> SUFFICES ASSUME ZrInd, [ZrNext]_zrVars PROVE ZrInd'
      OBVIOUS
    <2>1. CASE ZrNext
      BY <2>1, ZrAddReadKeeps, ZrAddCasKeeps, ZrAddOwnerKeeps, ZrAddWaitKeeps,
         ZrRemoveTestKeeps, ZrRemoveClearKeeps, ZrRemoveDecKeeps, ZrTryReadKeeps,
         ZrTryCasKeeps, ZrTryOwnerKeeps, ZrExitKeeps, ZrExitCountKeeps DEF ZrNext
    <2>2. CASE UNCHANGED zrVars
      BY <2>2 DEF zrVars, ZrInd, ZrTypeOK, ZrCount, ZrRefSet, ZrPlaces, ZrOwnerHolds,
                  ZrSleepersWait, ZrOwner
    <2> QED BY <2>1, <2>2
  <1>2. ZrInd => ZrCorrect
    BY DEF ZrInd, ZrCount, ZrExclusion, ZrCorrect
  <1> QED BY ZrIndInit, <1>1, <1>2, PTL DEF ZrSpec
=============================================================================
