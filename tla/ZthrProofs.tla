------------------------------ MODULE ZthrProofs ------------------------------
(***************************************************************************)
(* The promises of zthr.c, for any number of threads that call it.         *)
(*                                                                         *)
(* They hold as long as no zthr is waited for before it has begun to run:  *)
(* the first turn of the loop in zthr_procedure() wakes no waiters.        *)
(***************************************************************************)
EXTENDS Zthr, TLAPS

(* zthr_request_lock is held by the one thread that cancels or resumes.    *)
ZtRequestHeld ==
    \A t \in Procs :
        zt_op[t] \in {"cancel", "cancelling", "resume"} <=> zthr_request_lock = t

(* Only a thread that is there is cancelled or sleeps, and nobody waits    *)
(* for one that has not begun.                                             *)
ZtStates ==
    /\ zthr_cancel => zthr_thread
    /\ ZTHR \in zthr_cv => zt_pc = "asleep"
    /\ zt_pc \in {"new", "none"} => ~zthr_haswaiters

ZtInd ==
    /\ ZthrTypeOK /\ ZtRequestHeld /\ ZtStates
    /\ ZthrSleepersWoken /\ ZthrWakes /\ ZthrCycleDone

-----------------------------------------------------------------------------
(* zthr_create() makes a zthr in which all of this holds.                  *)
LEMMA ZtIndInit == ZthrInit => ZtInd
  BY ClientsAssumption, ZthrAssumption
  DEF ZthrInit, ZtInd, ZthrTypeOK, ZtRequestHeld, ZtStates, ZthrSleepersWoken,
      ZthrWakes, ZthrCycleDone

(* A critical section of the zthr itself keeps it.                         *)
LEMMA ZtProcedure == ZtInd /\ zthr_procedure => ZtInd'
  <1> SUFFICES ASSUME ZtInd, zthr_procedure PROVE ZtInd'
    OBVIOUS
  <1> USE ClientsAssumption, ZthrAssumption
  <1>1. zt_cycle = {}
    BY DEF ZtInd, ZthrTypeOK, ZthrCycleDone, zthr_procedure
  <1>2. zthr_haswaiters' = FALSE /\ zthr_wait_cv' = {}
    BY DEF ZtInd, ZthrTypeOK, ZtStates, ZthrSleepersWoken, zthr_procedure, ZtWakeWaiters
  <1>3. ZthrTypeOK'
    <2>1. CASE zthr_cancel
      BY <1>2, <2>1 DEF ZtInd, ZthrTypeOK, zthr_procedure, ZtStop
    <2>2. CASE ~zthr_cancel /\ zt_work
      BY <1>2, <2>2 DEF ZtInd, ZthrTypeOK, zthr_procedure
    <2>3. CASE ~zthr_cancel /\ ~zt_work
      BY <1>2, <2>3 DEF ZtInd, ZthrTypeOK, zthr_procedure
    <2> QED BY <2>1, <2>2, <2>3
  <1>4. ZtRequestHeld'
    BY DEF ZtInd, ZtRequestHeld, zthr_procedure
  <1>5. ZtStates'
    BY <1>2 DEF ZtInd, ZthrTypeOK, ZtStates, zthr_procedure, ZtStop
  <1>6. ZthrSleepersWoken'
    BY <1>2 DEF ZtInd, ZthrTypeOK, ZthrSleepersWoken, zthr_procedure, ZtStop
  <1>7. ZthrWakes'
    BY <1>2 DEF ZtInd, ZthrTypeOK, ZthrWakes, zthr_procedure, ZtStop
  <1>8. ZthrCycleDone'
    BY <1>1 DEF ZtInd, ZthrTypeOK, ZthrCycleDone, zthr_procedure, ZtStop
  <1> QED BY <1>3, <1>4, <1>5, <1>6, <1>7, <1>8 DEF ZtInd

(* zthr_func returns: nobody waits for that call of it any more.           *)
LEMMA ZtFuncKeeps ==
  ASSUME NEW done \in BOOLEAN, ZtInd, ZtFunc(done) PROVE ZtInd'
  <1> USE ClientsAssumption, ZthrAssumption
  <1>1. ZthrTypeOK'
    BY DEF ZtInd, ZthrTypeOK, ZtFunc
  <1>2. ZtRequestHeld'
    BY DEF ZtInd, ZthrTypeOK, ZtRequestHeld, ZtFunc
  <1>3. ZtStates'
    BY DEF ZtInd, ZthrTypeOK, ZtStates, ZtFunc
  <1>4. ZthrSleepersWoken'
    BY DEF ZtInd, ZthrTypeOK, ZthrSleepersWoken, ZtFunc
  <1>5. ZthrWakes'
    BY DEF ZtInd, ZthrTypeOK, ZthrWakes, ZtFunc
  <1>6. ZthrCycleDone'
    BY DEF ZtInd, ZthrTypeOK, ZthrCycleDone, ZtFunc
  <1> QED BY <1>1, <1>2, <1>3, <1>4, <1>5, <1>6 DEF ZtInd

(* The timed sleep of the zthr ends.                                       *)
LEMMA ZtTimeoutKeeps ==
  ASSUME ZtInd, ZtTimeout PROVE ZtInd'
  <1> USE ClientsAssumption, ZthrAssumption
  <1>1. ZthrTypeOK'
    BY DEF ZtInd, ZthrTypeOK, ZtTimeout
  <1>2. ZtRequestHeld'
    BY DEF ZtInd, ZthrTypeOK, ZtRequestHeld, ZtTimeout
  <1>3. ZtStates'
    BY DEF ZtInd, ZthrTypeOK, ZtStates, ZtTimeout
  <1>4. ZthrSleepersWoken'
    BY DEF ZtInd, ZthrTypeOK, ZthrSleepersWoken, ZtTimeout
  <1>5. ZthrWakes'
    BY DEF ZtInd, ZthrTypeOK, ZthrWakes, ZtTimeout
  <1>6. ZthrCycleDone'
    BY DEF ZtInd, ZthrTypeOK, ZthrCycleDone, ZtTimeout
  <1> QED BY <1>1, <1>2, <1>3, <1>4, <1>5, <1>6 DEF ZtInd

(* Work is added by a thread that then wakes the zthr.                     *)
LEMMA ZtAddWorkKeeps ==
  ASSUME NEW t \in Procs, ZtInd, ZtAddWork(t) PROVE ZtInd'
  <1> USE ClientsAssumption, ZthrAssumption
  <1>1. ZthrTypeOK'
    BY DEF ZtInd, ZthrTypeOK, ZtAddWork, ZtGoto
  <1>2. ZtRequestHeld'
    BY DEF ZtInd, ZthrTypeOK, ZtRequestHeld, ZtAddWork, ZtGoto
  <1>3. ZtStates'
    BY DEF ZtInd, ZthrTypeOK, ZtStates, ZtAddWork, ZtGoto
  <1>4. ZthrSleepersWoken'
    BY DEF ZtInd, ZthrTypeOK, ZthrSleepersWoken, ZtAddWork, ZtGoto
  <1>5. ZthrWakes'
    BY DEF ZtInd, ZthrTypeOK, ZthrWakes, ZtAddWork, ZtGoto
  <1>6. ZthrCycleDone'
    BY DEF ZtInd, ZthrTypeOK, ZthrCycleDone, ZtAddWork, ZtGoto
  <1> QED BY <1>1, <1>2, <1>3, <1>4, <1>5, <1>6 DEF ZtInd

(* zthr_wakeup() leaves nobody asleep on zthr_cv.                          *)
LEMMA ZtWakeupKeeps ==
  ASSUME NEW t \in Procs, ZtInd, zthr_wakeup(t) PROVE ZtInd'
  <1> USE ClientsAssumption, ZthrAssumption
  <1>1. ZthrTypeOK'
    BY DEF ZtInd, ZthrTypeOK, zthr_wakeup, ZtGoto
  <1>2. ZtRequestHeld'
    BY DEF ZtInd, ZthrTypeOK, ZtRequestHeld, zthr_wakeup, ZtGoto
  <1>3. ZtStates'
    BY DEF ZtInd, ZthrTypeOK, ZtStates, zthr_wakeup, ZtGoto
  <1>4. ZthrSleepersWoken'
    BY DEF ZtInd, ZthrTypeOK, ZthrSleepersWoken, zthr_wakeup, ZtGoto
  <1>5. ZthrWakes'
    BY DEF ZtInd, ZthrTypeOK, ZthrWakes, zthr_wakeup, ZtGoto
  <1>6. ZthrCycleDone'
    BY DEF ZtInd, ZthrTypeOK, ZthrCycleDone, zthr_wakeup, ZtGoto
  <1> QED BY <1>1, <1>2, <1>3, <1>4, <1>5, <1>6 DEF ZtInd

(* zthr_request_lock is taken when nobody has it.                          *)
LEMMA ZtRequestKeeps ==
  ASSUME NEW t \in Procs, NEW op \in {"cancel", "resume"}, ZtInd, ZtRequest(t, op) PROVE ZtInd'
  <1> USE ClientsAssumption, ZthrAssumption
  <1>1. ZthrTypeOK'
    BY DEF ZtInd, ZthrTypeOK, ZtRequest, ZtGoto
  <1>2. ZtRequestHeld'
    BY DEF ZtInd, ZthrTypeOK, ZtRequestHeld, ZtRequest, ZtGoto
  <1>3. ZtStates'
    BY DEF ZtInd, ZthrTypeOK, ZtStates, ZtRequest, ZtGoto
  <1>4. ZthrSleepersWoken'
    BY DEF ZtInd, ZthrTypeOK, ZthrSleepersWoken, ZtRequest, ZtGoto
  <1>5. ZthrWakes'
    BY DEF ZtInd, ZthrTypeOK, ZthrWakes, ZtRequest, ZtGoto
  <1>6. ZthrCycleDone'
    BY DEF ZtInd, ZthrTypeOK, ZthrCycleDone, ZtRequest, ZtGoto
  <1> QED BY <1>1, <1>2, <1>3, <1>4, <1>5, <1>6 DEF ZtInd

(* zthr_cancel() tells the zthr before it sleeps, and ends when it is gone.*)
LEMMA ZtCancelKeeps ==
  ASSUME NEW t \in Procs, ZtInd, ZtCancel(t) PROVE ZtInd'
  <1> USE ClientsAssumption, ZthrAssumption
  <1>1. ZthrTypeOK'
    BY DEF ZtInd, ZthrTypeOK, ZtCancel, ZtCancelBegin, ZtGoto
  <1>2. ZtRequestHeld'
    BY DEF ZtInd, ZthrTypeOK, ZtRequestHeld, ZtCancel, ZtCancelBegin, ZtGoto
  <1>3. ZtStates'
    BY DEF ZtInd, ZthrTypeOK, ZtStates, ZtCancel, ZtCancelBegin, ZtGoto
  <1>4. ZthrSleepersWoken'
    BY DEF ZtInd, ZthrTypeOK, ZthrSleepersWoken, ZthrCycleDone, ZtCancel, ZtCancelBegin,
           ZtGoto
  <1>5. ZthrWakes'
    BY DEF ZtInd, ZthrTypeOK, ZthrWakes, ZtCancel, ZtCancelBegin, ZtGoto
  <1>6. ZthrCycleDone'
    BY DEF ZtInd, ZthrTypeOK, ZthrCycleDone, ZtCancel, ZtCancelBegin, ZtGoto
  <1> QED BY <1>1, <1>2, <1>3, <1>4, <1>5, <1>6 DEF ZtInd

(* zthr_resume() has the request lock: nobody waits for the zthr to stop.  *)
LEMMA ZtResumeKeeps ==
  ASSUME NEW t \in Procs, ZtInd, zthr_resume(t) PROVE ZtInd'
  <1> USE ClientsAssumption, ZthrAssumption
  <1>1. ZthrTypeOK'
    BY DEF ZtInd, ZthrTypeOK, zthr_resume, ZtGoto
  <1>2. ZtRequestHeld'
    BY DEF ZtInd, ZthrTypeOK, ZtRequestHeld, zthr_resume, ZtGoto
  <1>3. ZtStates'
    BY DEF ZtInd, ZthrTypeOK, ZtStates, zthr_resume, ZtGoto
  <1>4. ZthrSleepersWoken'
    BY DEF ZtInd, ZthrTypeOK, ZthrSleepersWoken, zthr_resume, ZtGoto
  <1>5. ZthrWakes'
    BY DEF ZtInd, ZthrTypeOK, ZthrWakes, zthr_resume, ZtGoto
  <1>6. ZthrCycleDone'
    BY DEF ZtInd, ZthrTypeOK, ZtRequestHeld, ZthrCycleDone, zthr_resume, ZtGoto
  <1> QED BY <1>1, <1>2, <1>3, <1>4, <1>5, <1>6 DEF ZtInd

(* zthr_wait_cycle_done() tells the zthr before it sleeps.                 *)
LEMMA ZtWaitKeeps ==
  ASSUME NEW t \in Procs, ~WaitNew, ZtInd, zthr_wait_cycle_done(t) PROVE ZtInd'
  <1> USE ClientsAssumption, ZthrAssumption
  <1>1. ZthrTypeOK'
    BY DEF ZtInd, ZthrTypeOK, zthr_wait_cycle_done, ZtGoto
  <1>2. ZtRequestHeld'
    BY DEF ZtInd, ZthrTypeOK, ZtRequestHeld, zthr_wait_cycle_done, ZtGoto
  <1>3. ZtStates'
    BY DEF ZtInd, ZthrTypeOK, ZtStates, zthr_wait_cycle_done, ZtGoto
  <1>4. ZthrSleepersWoken'
    BY DEF ZtInd, ZthrTypeOK, ZthrSleepersWoken, zthr_wait_cycle_done, ZtGoto
  <1>5. ZthrWakes'
    BY DEF ZtInd, ZthrTypeOK, ZthrWakes, zthr_wait_cycle_done, ZtGoto
  <1>6. ZthrCycleDone'
    BY DEF ZtInd, ZthrTypeOK, ZthrCycleDone, zthr_wait_cycle_done, ZtGoto
  <1> QED BY <1>1, <1>2, <1>3, <1>4, <1>5, <1>6 DEF ZtInd

-----------------------------------------------------------------------------
(* A thread that sleeps in zthr_cancel() or zthr_wait_cycle_done() sleeps  *)
(* because the zthr is there and has been told, however many threads call  *)
(* zthr.c: nobody sleeps for ever on a zthr that is gone, and no wakeup is *)
(* lost on one that falls asleep.                                          *)
THEOREM ZthrKeepsPromises ==
  ASSUME ~WaitNew
  PROVE  ZthrSpec => []ZthrCorrect
  <1>1. ZtInd /\ [ZthrNext]_zthrVars => ZtInd'
    <2> SUFFICES ASSUME ZtInd, [ZthrNext]_zthrVars PROVE ZtInd'
      OBVIOUS
    <2>1. CASE ZthrNext
      BY <2>1, ZtProcedure, ZtFuncKeeps, ZtTimeoutKeeps, ZtAddWorkKeeps, ZtWakeupKeeps,
         ZtRequestKeeps, ZtCancelKeeps, ZtResumeKeeps, ZtWaitKeeps DEF ZthrNext
    <2>2. CASE UNCHANGED zthrVars
      BY <2>2 DEF zthrVars, ZtInd, ZthrTypeOK, ZtRequestHeld, ZtStates, ZthrSleepersWoken,
                  ZthrWakes, ZthrCycleDone
    <2> QED BY <2>1, <2>2
  <1>2. ZtInd => ZthrCorrect
    BY DEF ZtInd, ZthrCorrect
  <1> QED BY ZtIndInit, <1>1, <1>2, PTL DEF ZthrSpec
=============================================================================
