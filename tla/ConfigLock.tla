------------------------------ MODULE ConfigLock ------------------------------
(***************************************************************************)
(* The configuration locks of a pool, spa_config_lock[] (spa_misc.c): an   *)
(* ordered array of reader/writer locks of which a call takes any subset,  *)
(* one after the other.  A step is one critical section of one scl_lock;   *)
(* cv_wait() ends one.                                                     *)
(*                                                                         *)
(* Callers keep the order of the array: a thread that holds locks asks     *)
(* only for later ones.  A hold for reading may be handed to an I/O, which *)
(* is completed, and the lock released, by an interrupt thread.            *)
(***************************************************************************)
EXTENDS LockClients, FiniteSetsExt

CONSTANTS
    SCL_LOCKS,          \* the number of locks
    MaxHandedOff        \* bound: holds of one lock that are handed to I/Os

Scls == 0..SCL_LOCKS - 1

ASSUME SclAssumption == SCL_LOCKS \in Nat \ {0} /\ MaxHandedOff \in Nat

VARIABLES
    scl_writer, scl_write_wanted, scl_count,
    scl_cv,             \* the threads asleep on each scl_cv
    scl_waits,          \* the threads between ++ and -- of scl_write_wanted
    scl_op,             \* the call a thread is in
    scl_locks,          \* its argument
    scl_todo,           \* the locks the call has still to take, or to release
    scl_read, scl_write,    \* history: the locks each thread holds
    scl_io              \* history: how often each lock is held by I/Os

sclLockVars == <<scl_writer, scl_write_wanted, scl_count, scl_cv>>
sclVars == <<sclLockVars, scl_waits, scl_op, scl_locks, scl_todo, scl_read, scl_write, scl_io>>

Readers == {"reader", "mmp", "tryreader"}
Writers == {"writer", "trywriter"}

SclInit ==
    /\ scl_writer = [i \in Scls |-> NoProc]
    /\ scl_write_wanted = [i \in Scls |-> 0]
    /\ scl_count = [i \in Scls |-> 0]
    /\ scl_cv = [i \in Scls |-> {}] /\ scl_waits = [i \in Scls |-> {}]
    /\ scl_op = [t \in Procs |-> "none"]
    /\ scl_locks = [t \in Procs |-> {}]
    /\ scl_todo = [t \in Procs |-> {}]
    /\ scl_read = [t \in Procs |-> {}] /\ scl_write = [t \in Procs |-> {}]
    /\ scl_io = [i \in Scls |-> 0]

SclHeld(t) == scl_read[t] \cup scl_write[t]
SclAsleep(t) == \E i \in Scls : t \in scl_cv[i]

-----------------------------------------------------------------------------
(* spa_config_enter(), spa_config_enter_mmp(), spa_config_tryenter().      *)
SclCall(t, op, locks) ==
    /\ scl_op[t] = "none"
    /\ locks # {} /\ \A i \in locks : \A j \in SclHeld(t) : j < i
    /\ scl_op' = [scl_op EXCEPT ![t] = op]
    /\ scl_locks' = [scl_locks EXCEPT ![t] = locks]
    /\ scl_todo' = [scl_todo EXCEPT ![t] = locks]
    /\ UNCHANGED <<sclLockVars, scl_waits, scl_read, scl_write, scl_io>>

(* Mutant: the multihost thread does not wait for a writer either.         *)
SclMmpBarges(t, i) ==
    IF scl_op[t] \in Readers
    THEN scl_op[t] # "mmp" /\ (scl_writer[i] # NoProc \/ scl_write_wanted[i] # 0)
    ELSE scl_count[i] # 0

(* What the calls wait for, or fail for.                                   *)
SclMustWait(t, i) ==
    IF scl_op[t] \in Readers
    THEN scl_writer[i] # NoProc \/ (scl_op[t] # "mmp" /\ scl_write_wanted[i] # 0)
    ELSE scl_count[i] # 0

(* Mutant: from the last to the first.                                     *)
SclLastLock(t) == Max(scl_todo[t])

(* The loops go from the first lock to the last.                           *)
SclNextLock(t) == Min(scl_todo[t])

(* The next lock of the call is taken.                                     *)
SclTake(t, i) ==
    /\ scl_count' = [scl_count EXCEPT ![i] = @ + 1]
    /\ IF scl_op[t] \in Writers
       THEN /\ scl_writer' = [scl_writer EXCEPT ![i] = t]
            /\ scl_write' = [scl_write EXCEPT ![t] = @ \cup {i}]
            /\ UNCHANGED scl_read
       ELSE /\ scl_read' = [scl_read EXCEPT ![t] = @ \cup {i}]
            /\ UNCHANGED <<scl_writer, scl_write>>
    /\ scl_todo' = [scl_todo EXCEPT ![t] = @ \ {i}]
    /\ scl_op' = [scl_op EXCEPT ![t] = IF scl_todo[t] = {i} THEN "none" ELSE @]
    /\ scl_locks' = [scl_locks EXCEPT ![t] = IF scl_todo[t] = {i} THEN {} ELSE @]

(* One lock of spa_config_enter_impl().  A writer counts as waiting until  *)
(* it has been woken and need not wait again.                              *)
spa_config_enter_impl(t) ==
    LET i == SclNextLock(t)
        writer == scl_op[t] = "writer"
        counted == t \in scl_waits[i]
    IN
    /\ scl_op[t] \in {"reader", "mmp", "writer"}
    /\ t \notin scl_cv[i]
    /\ IF SclMustWait(t, i)
       THEN /\ scl_cv' = [scl_cv EXCEPT ![i] = @ \cup {t}]
            /\ scl_waits' = IF writer THEN [scl_waits EXCEPT ![i] = @ \cup {t}] ELSE scl_waits
            /\ scl_write_wanted' = [scl_write_wanted EXCEPT ![i] =
                                     IF writer /\ ~counted THEN @ + 1 ELSE @]
            /\ UNCHANGED <<scl_count, scl_writer, scl_op, scl_locks, scl_todo,
                           scl_read, scl_write>>
       ELSE /\ scl_waits' = [scl_waits EXCEPT ![i] = @ \ {t}]
            /\ scl_write_wanted' = [scl_write_wanted EXCEPT ![i] = IF counted THEN @ - 1 ELSE @]
            /\ SclTake(t, i)
            /\ UNCHANGED scl_cv
    /\ UNCHANGED scl_io

(* One lock of spa_config_tryenter(): if it is not to be had, those before *)
(* it are given back.                                                      *)
spa_config_tryenter(t) ==
    LET i == SclNextLock(t)
        taken == scl_locks[t] \ scl_todo[t]
    IN
    /\ scl_op[t] \in {"tryreader", "trywriter"}
    /\ IF SclMustWait(t, i)
       THEN /\ scl_op' = [scl_op EXCEPT ![t] = IF taken = {} THEN "none" ELSE "exit"]
            /\ scl_todo' = [scl_todo EXCEPT ![t] = taken]
            /\ scl_locks' = [scl_locks EXCEPT ![t] = {}]
            /\ UNCHANGED <<scl_count, scl_writer, scl_read, scl_write>>
       ELSE SclTake(t, i)
    /\ UNCHANGED <<scl_write_wanted, scl_cv, scl_waits, scl_io>>

(* One lock of spa_config_exit().                                          *)
SclRelease(i) ==
    /\ scl_count' = [scl_count EXCEPT ![i] = @ - 1]
    /\ IF scl_count[i] = 1
       THEN /\ scl_writer' = [scl_writer EXCEPT ![i] = NoProc]
            /\ scl_cv' = [scl_cv EXCEPT ![i] = {}]
       ELSE UNCHANGED <<scl_writer, scl_cv>>

(* spa_config_exit() of some of the locks a thread holds, ...              *)
SclExit(t, locks) ==
    /\ scl_op[t] = "none"
    /\ locks # {} /\ locks \subseteq SclHeld(t)
    /\ scl_op' = [scl_op EXCEPT ![t] = "exit"]
    /\ scl_todo' = [scl_todo EXCEPT ![t] = locks]
    /\ UNCHANGED <<sclLockVars, scl_waits, scl_locks, scl_read, scl_write, scl_io>>

(* ... from the last to the first.                                         *)
spa_config_exit(t) ==
    LET i == Max(scl_todo[t]) IN
    /\ scl_op[t] = "exit"
    /\ SclRelease(i)
    /\ scl_todo' = [scl_todo EXCEPT ![t] = @ \ {i}]
    /\ scl_op' = [scl_op EXCEPT ![t] = IF scl_todo[t] = {i} THEN "none" ELSE @]
    /\ scl_read' = [scl_read EXCEPT ![t] = @ \ {i}]
    /\ scl_write' = [scl_write EXCEPT ![t] = @ \ {i}]
    /\ UNCHANGED <<scl_write_wanted, scl_waits, scl_locks, scl_io>>

(* A hold for reading goes to an I/O (zio_vdev_io_start()), ...            *)
SclHandOff(t, i) ==
    /\ scl_op[t] = "none"
    /\ i \in scl_read[t] /\ scl_io[i] < MaxHandedOff
    /\ scl_read' = [scl_read EXCEPT ![t] = @ \ {i}]
    /\ scl_io' = [scl_io EXCEPT ![i] = @ + 1]
    /\ UNCHANGED <<sclLockVars, scl_waits, scl_op, scl_locks, scl_todo, scl_write>>

(* ... whose completion releases it (zio_vdev_io_assess()).                *)
SclIoDone(i) ==
    /\ scl_io[i] > 0
    /\ SclRelease(i)
    /\ scl_io' = [scl_io EXCEPT ![i] = @ - 1]
    /\ UNCHANGED <<scl_write_wanted, scl_waits, scl_op, scl_locks, scl_todo,
                   scl_read, scl_write>>

SclNext ==
    \/ \E t \in Procs :
        \/ \E op \in Readers \cup Writers, locks \in SUBSET Scls : SclCall(t, op, locks)
        \/ spa_config_enter_impl(t) \/ spa_config_tryenter(t) \/ spa_config_exit(t)
        \/ \E locks \in SUBSET Scls : SclExit(t, locks)
        \/ \E i \in Scls : SclHandOff(t, i)
    \/ \E i \in Scls : SclIoDone(i)

SclSpec == SclInit /\ [][SclNext]_sclVars

-----------------------------------------------------------------------------
SclTypeOK ==
    /\ scl_writer \in [Scls -> Procs \cup {NoProc}]
    /\ scl_write_wanted \in [Scls -> Nat] /\ scl_count \in [Scls -> Nat]
    /\ scl_cv \in [Scls -> SUBSET Procs] /\ scl_waits \in [Scls -> SUBSET Procs]
    /\ scl_op \in [Procs -> Readers \cup Writers \cup {"none", "exit"}]
    /\ scl_locks \in [Procs -> SUBSET Scls] /\ scl_todo \in [Procs -> SUBSET Scls]
    /\ scl_read \in [Procs -> SUBSET Scls] /\ scl_write \in [Procs -> SUBSET Scls]
    /\ scl_io \in [Scls -> 0..MaxHandedOff]

(* A thread that holds a lock for writing is its only holder, I/Os that    *)
(* were given a hold included, also when a tryenter of several locks has   *)
(* failed half way and when the multihost thread goes before the writers   *)
(* that wait; and the count of a lock is the number of its holders.        *)
SclExclusion ==
    \A i \in Scls :
        LET readers == {t \in Procs : i \in scl_read[t]}
            writers == {t \in Procs : i \in scl_write[t]}
        IN
        /\ scl_count[i] = Cardinality(readers) + Cardinality(writers) + scl_io[i]
        /\ writers # {} => scl_count[i] = 1 /\ writers = {scl_writer[i]}
        /\ writers = {} => scl_writer[i] = NoProc

(* Nobody sleeps on a lock that it could have: every thread in cv_wait()   *)
(* would wait again if it looked now, and readers are held back only while *)
(* as many writers as scl_write_wanted says are there to be let in.        *)
SclSleepersWait ==
    \A i \in Scls :
        /\ \A t \in scl_cv[i] : SclMustWait(t, i)
        /\ scl_write_wanted[i] = Cardinality(scl_waits[i])
        /\ \A t \in scl_waits[i] : scl_op[t] = "writer" /\ SclNextLock(t) = i

(* Writers are alone, and who sleeps has to, whatever the calls of the     *)
(* threads and the I/Os that hold a lock for them.                         *)
SclCorrect == SclTypeOK /\ SclExclusion /\ SclSleepersWait

(* The order of the array keeps the locks free of deadlock, for readers    *)
(* that wait behind waiting writers, too: while a thread sleeps, an I/O    *)
(* holds a lock or a thread that holds or wants locks is awake.            *)
SclNoDeadlock ==
    (\E t \in Procs : SclAsleep(t)) =>
        \/ \E i \in Scls : scl_io[i] > 0
        \/ \E t \in Procs : ~SclAsleep(t) /\ (SclHeld(t) # {} \/ scl_todo[t] # {})
=============================================================================
