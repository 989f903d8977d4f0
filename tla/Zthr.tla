--------------------------------- MODULE Zthr ---------------------------------
(***************************************************************************)
(* Threads that work in the background of a pool (zthr.c): a zthr looks    *)
(* for work under zthr_state_lock, works without it, and is woken,         *)
(* cancelled, resumed and waited for by other threads.  A step is one      *)
(* critical section of zthr_state_lock; cv_wait() ends one.                *)
(*                                                                         *)
(* The callbacks are the ones the header comment of zthr.c describes:      *)
(* others set the work indicator, which checkfunc returns, and wake the    *)
(* zthr; func clears it, or returns before because zthr_iscancelled() or   *)
(* zthr_has_waiters() told it to.                                          *)
(***************************************************************************)
EXTENDS LockClients

CONSTANTS
    ZTHR,               \* the zthr, when it sleeps on zthr_cv
    WaitNew             \* whether a zthr that has not begun to run is waited for

ASSUME ZthrAssumption == ZTHR \notin Procs /\ WaitNew \in BOOLEAN

VARIABLES
    zthr_thread,        \* whether it is not NULL
    zthr_cancel, zthr_haswaiters,
    zthr_sleep_timeout, \* whether it is not zero
    zthr_request_lock,  \* who has it
    zthr_cv, zthr_wait_cv,  \* who sleeps on them
    zt_work,            \* the work indicator
    zt_pc,              \* where the zthr is
    zt_op,              \* the call a thread is in
    zt_cycle            \* history: waits for a func that has not returned

zthrVars == <<zthr_thread, zthr_cancel, zthr_haswaiters, zthr_sleep_timeout,
              zthr_request_lock, zthr_cv, zthr_wait_cv, zt_work, zt_pc, zt_op, zt_cycle>>

(* zthr_create(), zthr_create_timer().                                     *)
ZthrInit ==
    /\ zthr_thread = TRUE /\ zthr_cancel = FALSE /\ zthr_haswaiters = FALSE
    /\ zthr_sleep_timeout \in BOOLEAN
    /\ zthr_request_lock = NoProc
    /\ zthr_cv = {} /\ zthr_wait_cv = {}
    /\ zt_work \in BOOLEAN
    /\ zt_pc = "new"
    /\ zt_op = [t \in Procs |-> "none"]
    /\ zt_cycle = {}

ZtGoto(t, l) == zt_op' = [zt_op EXCEPT ![t] = l]

-----------------------------------------------------------------------------
(* The end of a turn of the loop in zthr_procedure(); the first turn has   *)
(* none before it.                                                         *)
ZtWakeWaiters ==
    IF zt_pc # "new" /\ zthr_haswaiters
    THEN zthr_haswaiters' = FALSE /\ zthr_wait_cv' = {}
    ELSE UNCHANGED <<zthr_haswaiters, zthr_wait_cv>>

(* Mutant: the thread that cancels is not woken.                           *)
ZtStopSilent ==
    /\ zthr_thread' = FALSE /\ zthr_cancel' = FALSE
    /\ zt_pc' = "none"
    /\ UNCHANGED zthr_cv

(* zthr_procedure() ends.                                                  *)
ZtStop ==
    /\ zthr_thread' = FALSE /\ zthr_cancel' = FALSE
    /\ zthr_cv' = {}
    /\ zt_pc' = "none"

(* zthr_procedure() from where it gets zthr_state_lock to where it gives   *)
(* it back: ends a turn of the loop, then stops, works or sleeps.          *)
zthr_procedure ==
    /\ zt_pc \in {"new", "done", "asleep"}
    /\ ZTHR \notin zthr_cv
    /\ ZtWakeWaiters
    /\ IF zthr_cancel
       THEN ZtStop
       ELSE /\ IF zt_work THEN zt_pc' = "func" /\ UNCHANGED zthr_cv
                          ELSE zt_pc' = "asleep" /\ zthr_cv' = zthr_cv \cup {ZTHR}
            /\ UNCHANGED <<zthr_thread, zthr_cancel>>
    /\ UNCHANGED <<zthr_sleep_timeout, zthr_request_lock, zt_work, zt_op, zt_cycle>>

(* zthr_func returns: the work is done, or it was told to stop.            *)
ZtFunc(done) ==
    /\ zt_pc = "func"
    /\ done \/ zthr_cancel \/ zthr_haswaiters
    /\ zt_work' = IF done THEN FALSE ELSE zt_work
    /\ zt_pc' = "done"
    /\ zt_cycle' = {}
    /\ UNCHANGED <<zthr_thread, zthr_cancel, zthr_haswaiters, zthr_sleep_timeout,
                   zthr_request_lock, zthr_cv, zthr_wait_cv, zt_op>>

(* cv_timedwait_idle_hires() returns.                                      *)
ZtTimeout ==
    /\ zthr_sleep_timeout /\ ZTHR \in zthr_cv
    /\ zthr_cv' = zthr_cv \ {ZTHR}
    /\ UNCHANGED <<zthr_thread, zthr_cancel, zthr_haswaiters, zthr_sleep_timeout,
                   zthr_request_lock, zthr_wait_cv, zt_work, zt_pc, zt_op, zt_cycle>>

-----------------------------------------------------------------------------
(* A thread has work for the zthr and is going to wake it.                 *)
ZtAddWork(t) ==
    /\ zt_op[t] = "none"
    /\ zt_work' = TRUE
    /\ ZtGoto(t, "wakeup")
    /\ UNCHANGED <<zthr_thread, zthr_cancel, zthr_haswaiters, zthr_sleep_timeout,
                   zthr_request_lock, zthr_cv, zthr_wait_cv, zt_pc, zt_cycle>>

zthr_wakeup(t) ==
    /\ zt_op[t] = "wakeup"
    /\ zthr_cv' = {}
    /\ ZtGoto(t, "none")
    /\ UNCHANGED <<zthr_thread, zthr_cancel, zthr_haswaiters, zthr_sleep_timeout,
                   zthr_request_lock, zthr_wait_cv, zt_work, zt_pc, zt_cycle>>

(* zthr_cancel() and zthr_resume() get zthr_request_lock.                  *)
ZtRequest(t, op) ==
    /\ zt_op[t] = "none"
    /\ zthr_request_lock = NoProc
    /\ zthr_request_lock' = t
    /\ ZtGoto(t, op)
    /\ UNCHANGED <<zthr_thread, zthr_cancel, zthr_haswaiters, zthr_sleep_timeout,
                   zthr_cv, zthr_wait_cv, zt_work, zt_pc, zt_cycle>>

(* zthr_cancel() sets the flag, wakes the zthr and sleeps.                 *)
ZtCancelBegin(t) == zthr_cancel' = TRUE /\ zthr_cv' = {t}

(* zthr_cancel() with zthr_state_lock, once more after each wait.          *)
ZtCancel(t) ==
    /\ zt_op[t] \in {"cancel", "cancelling"}
    /\ t \notin zthr_cv
    /\ IF ~zthr_thread
       THEN /\ zthr_request_lock' = NoProc
            /\ ZtGoto(t, "none")
            /\ UNCHANGED <<zthr_cancel, zthr_cv>>
       ELSE /\ IF zt_op[t] = "cancel"
               THEN ZtCancelBegin(t)
               ELSE zthr_cv' = zthr_cv \cup {t} /\ UNCHANGED zthr_cancel
            /\ ZtGoto(t, "cancelling")
            /\ UNCHANGED zthr_request_lock
    /\ UNCHANGED <<zthr_thread, zthr_haswaiters, zthr_sleep_timeout, zthr_wait_cv,
                   zt_work, zt_pc, zt_cycle>>

zthr_resume(t) ==
    /\ zt_op[t] = "resume"
    /\ zthr_thread' = TRUE
    /\ zt_pc' = IF zthr_thread THEN zt_pc ELSE "new"
    /\ zthr_request_lock' = NoProc
    /\ ZtGoto(t, "none")
    /\ UNCHANGED <<zthr_cancel, zthr_haswaiters, zthr_sleep_timeout, zthr_cv,
                   zthr_wait_cv, zt_work, zt_cycle>>

(* zthr_wait_cycle_done(), once more after each wait.                      *)
zthr_wait_cycle_done(t) ==
    /\ zt_op[t] = "waiting" \/ (zt_op[t] = "none" /\ (WaitNew \/ zt_pc # "new"))
    /\ t \notin zthr_wait_cv
    /\ IF zthr_thread /\ (zt_op[t] = "none" \/ zthr_haswaiters)
       THEN /\ ZtGoto(t, "waiting")
            /\ zthr_haswaiters' = TRUE
            /\ zthr_cv' = IF zt_op[t] = "none" THEN {} ELSE zthr_cv
            /\ zthr_wait_cv' = zthr_wait_cv \cup {t}
            /\ zt_cycle' = IF zt_op[t] = "none" /\ zt_pc = "func"
                           THEN zt_cycle \cup {t} ELSE zt_cycle
       ELSE /\ ZtGoto(t, "none")
            /\ UNCHANGED <<zthr_haswaiters, zthr_cv, zthr_wait_cv, zt_cycle>>
    /\ UNCHANGED <<zthr_thread, zthr_cancel, zthr_sleep_timeout, zthr_request_lock,
                   zt_work, zt_pc>>

ZthrNext ==
    \/ zthr_procedure \/ ZtTimeout
    \/ \E done \in BOOLEAN : ZtFunc(done)
    \/ \E t \in Procs :
        \/ ZtAddWork(t) \/ zthr_wakeup(t)
        \/ \E op \in {"cancel", "resume"} : ZtRequest(t, op)
        \/ ZtCancel(t) \/ zthr_resume(t) \/ zthr_wait_cycle_done(t)

ZthrSpec == ZthrInit /\ [][ZthrNext]_zthrVars

-----------------------------------------------------------------------------
ZthrTypeOK ==
    /\ zthr_thread \in BOOLEAN /\ zthr_cancel \in BOOLEAN /\ zthr_haswaiters \in BOOLEAN
    /\ zthr_sleep_timeout \in BOOLEAN /\ zt_work \in BOOLEAN
    /\ zthr_request_lock \in Procs \cup {NoProc}
    /\ zthr_cv \in SUBSET (Procs \cup {ZTHR}) /\ zthr_wait_cv \in SUBSET Procs
    /\ zt_pc \in {"none", "new", "asleep", "func", "done"}
    /\ zt_op \in [Procs -> {"none", "wakeup", "cancel", "cancelling", "resume", "waiting"}]
    /\ zt_cycle \in SUBSET Procs
    /\ zthr_thread <=> zt_pc # "none"

(* zthr_cancel() and zthr_wait_cycle_done() come back: who sleeps in them  *)
(* sleeps because there is a zthr, which has been told and will wake them, *)
(* whatever other calls come, end or are repeated meanwhile.               *)
ZthrSleepersWoken ==
    /\ \A t \in Procs \cap zthr_cv : zt_op[t] = "cancelling" /\ zthr_thread /\ zthr_cancel
    /\ \A t \in zthr_wait_cv : zt_op[t] = "waiting" /\ zthr_thread /\ zthr_haswaiters

(* No call is lost on a zthr that falls asleep at the same time: while it  *)
(* sleeps nobody has asked it for anything, and there is no work but what  *)
(* a thread is just going to wake it for.                                  *)
ZthrWakes ==
    ZTHR \in zthr_cv =>
        /\ ~zthr_cancel /\ ~zthr_haswaiters
        /\ zt_work => \E t \in Procs : zt_op[t] = "wakeup"

(* "by the time that we get control back we expect that the zthr has       *)
(* completed it's zthr_func": zthr_wait_cycle_done() does not return while *)
(* the call of func runs that ran when it was called; the comment says the *)
(* same of zthr_cancel(), after which the zthr does not run at all.        *)
ZthrCycleDone ==
    \A t \in Procs :
        /\ t \in zt_cycle => zt_pc = "func" /\ zt_op[t] = "waiting" /\ zthr_haswaiters
        /\ zt_op[t] = "cancelling" => (zthr_thread <=> zthr_cancel)

(* The calls of zthr.c come back, none is lost on a zthr that falls        *)
(* asleep, and they come back when the function does not run.              *)
ZthrCorrect == ZthrTypeOK /\ ZthrSleepersWoken /\ ZthrWakes /\ ZthrCycleDone
=============================================================================
