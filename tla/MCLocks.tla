------------------------------- MODULE MCLocks -------------------------------
(***************************************************************************)
(* The primitives by which threads meet are checked side by side: a        *)
(* behaviour is one of one of them, the others stay as they are.           *)
(***************************************************************************)
EXTENDS SplCondvar, RrwLock, ZrLock, ConfigLock, Zthr, BQueue, TLC

CONSTANTS p1, p2, p3, more_cv, done_cv

VARIABLE active         \* what this behaviour is one of

(* As the sync thread and its callers use tx_sync_lock: p1 alone waits     *)
(* with a timeout on a condition variable of its own.                      *)
OwnTimer ==
    [t \in Procs |-> [c \in {more_cv, done_cv} |->
        CASE c = done_cv -> {"wait"}
          [] t = p1 -> {"timedwait"}
          [] OTHER -> {}]]

(* p1 reads another lock of the array than the others.                     *)
TdLock == [t \in Procs |-> IF t = p1 THEN 1 ELSE 0]

Alike == Permutations({p2, p3})

-----------------------------------------------------------------------------
LocksInit ==
    /\ active \in {"spl", "rrwlock", "zrlock", "spa_config", "zthr", "bqueue"}
    /\ SplInit /\ RrInit /\ ZrInit /\ SclInit /\ ZthrInit /\ BqInit
    /\ active # "rrwlock" => ~rr_track_all
    /\ active # "zthr" => ~zthr_sleep_timeout /\ ~zt_work

LocksNext ==
    /\ UNCHANGED active
    /\ IF active = "spl" THEN SplNext ELSE UNCHANGED splVars
    /\ IF active = "rrwlock" THEN RrNext ELSE UNCHANGED rrVars
    /\ IF active = "zrlock" THEN ZrNext ELSE UNCHANGED zrVars
    /\ IF active = "spa_config" THEN SclNext ELSE UNCHANGED sclVars
    /\ IF active = "zthr" THEN ZthrNext ELSE UNCHANGED zthrVars
    /\ IF active = "bqueue" THEN BqNext ELSE UNCHANGED bqVars

LocksSpec ==
    LocksInit /\ [][LocksNext]_<<active, splVars, rrVars, zrVars, sclVars, zthrVars, bqVars>>
=============================================================================
