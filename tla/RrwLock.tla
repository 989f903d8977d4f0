------------------------------- MODULE RrwLock -------------------------------
(***************************************************************************)
(* Re-entrant reader/writer locks (rrwlock.c), in the array that makes a   *)
(* reader-mostly lock of them: a reader takes the one lock its thread is   *)
(* mapped to, a writer takes all of them in order.  With RRM_NUM_LOCKS = 1 *)
(* the array is a plain rrwlock_t.                                         *)
(*                                                                         *)
(* A step is one critical section of rr_lock; cv_wait() ends one.  Callers *)
(* keep the rules of rrwlock.c: a thread that holds the lock for writing   *)
(* does not enter it again, one that holds it for reading does not ask for *)
(* it for writing, and the tag of a hold is given back by its thread.      *)
(***************************************************************************)
EXTENDS LockClients

CONSTANTS
    RrTags,             \* the holds a thread may have at the same time
    RRM_NUM_LOCKS,
    RRM_TD_LOCK         \* the lock a thread reads

RrLocks == 0..RRM_NUM_LOCKS - 1

ASSUME RrwAssumption ==
    /\ IsFiniteSet(RrTags) /\ RrTags # {}
    /\ RRM_NUM_LOCKS \in Nat \ {0}
    /\ RRM_TD_LOCK \in [Procs -> RrLocks]

VARIABLES
    rr_track_all,       \* the argument of rrw_init()
    rr_writer, rr_writer_wanted,
    rr_anon_rcount, rr_linked_rcount,
    rr_cv,              \* the threads asleep on each lock's rr_cv
    rrn,                \* the nodes in the threads' lists, <<thread, tag>>
    rr_op, rr_at, rr_tag,   \* the call a thread is in, at which lock, for which hold
    rr_held             \* history: the read holds that were given, <<thread, tag>>

rrCounts == <<rr_anon_rcount, rr_linked_rcount, rrn, rr_held>>
rrVars == <<rr_track_all, rr_writer, rr_writer_wanted, rrCounts, rr_cv, rr_op, rr_at, rr_tag>>

RrInit ==
    /\ rr_track_all \in BOOLEAN
    /\ rr_writer = [l \in RrLocks |-> NoProc]
    /\ rr_writer_wanted = [l \in RrLocks |-> FALSE]
    /\ rr_anon_rcount = [l \in RrLocks |-> 0]
    /\ rr_linked_rcount = [l \in RrLocks |-> 0]
    /\ rr_cv = [l \in RrLocks |-> {}]
    /\ rrn = {} /\ rr_held = {}
    /\ rr_op = [t \in Procs |-> "none"]
    /\ rr_at = [t \in Procs |-> 0]
    /\ rr_tag \in [Procs -> {CHOOSE x \in RrTags : TRUE}]

rrn_find(t) == {n \in rrn : n[1] = t}
RrHolds(t) == {h \in rr_held : h[1] = t}

(* rrm_enter(RW_WRITER) has returned.                                      *)
RrOwns(t) == rr_op[t] = "none" /\ rr_writer[0] = t

(* The conditions of the loops around cv_wait().                           *)
ReadMustWait(t, l) ==
    \/ rr_writer[l] # NoProc
    \/ /\ rr_writer_wanted[l]
       /\ rr_anon_rcount[l] = 0
       /\ rr_op[t] # "prio"
       /\ rrn_find(t) = {}

(* Mutant: the writer looks at one of the two counters.                    *)
WriteMustWaitAnon(l) == rr_anon_rcount[l] > 0 \/ rr_writer[l] # NoProc

WriteMustWait(l) ==
    rr_anon_rcount[l] > 0 \/ rr_linked_rcount[l] > 0 \/ rr_writer[l] # NoProc

-----------------------------------------------------------------------------
(* rrw_enter(), rrm_enter(): a call begins.                                *)
RrEnter(t, op, tag) ==
    /\ rr_op[t] = "none"
    /\ \A l \in RrLocks : rr_writer[l] # t
    /\ op = "write" => RrHolds(t) = {}
    /\ op # "write" => <<t, tag>> \notin rr_held
    /\ rr_op' = [rr_op EXCEPT ![t] = op]
    /\ rr_tag' = [rr_tag EXCEPT ![t] = tag]
    /\ rr_at' = [rr_at EXCEPT ![t] = IF op = "write" THEN 0 ELSE RRM_TD_LOCK[t]]
    /\ UNCHANGED <<rr_track_all, rr_writer, rr_writer_wanted, rrCounts, rr_cv>>

RrSleep(t, l) ==
    /\ rr_cv' = [rr_cv EXCEPT ![l] = @ \cup {t}]
    /\ UNCHANGED <<rr_op, rr_at>>

(* A hold that is taken while a writer waits gets a node.                  *)
Linked(l) == rr_writer_wanted[l] \/ rr_track_all

(* rrw_enter_read() and rrw_enter_read_prio().                             *)
rrw_enter_read_impl(t) ==
    LET l == rr_at[t]
        link == Linked(l)
    IN
    /\ rr_op[t] \in {"read", "prio"}
    /\ t \notin rr_cv[l]
    /\ IF ReadMustWait(t, l)
       THEN RrSleep(t, l) /\ UNCHANGED rrCounts
       ELSE /\ rr_linked_rcount' = [rr_linked_rcount EXCEPT ![l] = IF link THEN @ + 1 ELSE @]
            /\ rr_anon_rcount' = [rr_anon_rcount EXCEPT ![l] = IF link THEN @ ELSE @ + 1]
            /\ rrn' = IF link THEN rrn \cup {<<t, rr_tag[t]>>} ELSE rrn
            /\ rr_held' = rr_held \cup {<<t, rr_tag[t]>>}
            /\ rr_op' = [rr_op EXCEPT ![t] = "none"]
            /\ UNCHANGED <<rr_cv, rr_at>>
    /\ UNCHANGED <<rr_track_all, rr_writer, rr_writer_wanted, rr_tag>>

(* rrw_enter_write() of one lock; rrm_enter_write() goes on to the next.   *)
rrw_enter_write(t) ==
    LET l == rr_at[t] IN
    /\ rr_op[t] = "write"
    /\ t \notin rr_cv[l]
    /\ IF WriteMustWait(l)
       THEN /\ rr_writer_wanted' = [rr_writer_wanted EXCEPT ![l] = TRUE]
            /\ RrSleep(t, l)
            /\ UNCHANGED rr_writer
       ELSE /\ rr_writer_wanted' = [rr_writer_wanted EXCEPT ![l] = FALSE]
            /\ rr_writer' = [rr_writer EXCEPT ![l] = t]
            /\ IF l + 1 \in RrLocks
               THEN rr_at' = [rr_at EXCEPT ![t] = l + 1] /\ UNCHANGED rr_op
               ELSE rr_op' = [rr_op EXCEPT ![t] = "none"] /\ UNCHANGED rr_at
            /\ UNCHANGED rr_cv
    /\ UNCHANGED <<rr_track_all, rrCounts, rr_tag>>

(* Mutant: rrw_exit() wakes nobody when it returns a hold with a node.     *)
BroadcastUnlinked(l, linked) ==
    rr_cv' = IF ~linked /\ rr_anon_rcount'[l] = 0 THEN [rr_cv EXCEPT ![l] = {}] ELSE rr_cv

(* rrw_exit() of a reader wakes all when its count reaches zero.           *)
BroadcastLast(l, linked) ==
    rr_cv' = IF (IF linked THEN rr_linked_rcount' ELSE rr_anon_rcount')[l] = 0
             THEN [rr_cv EXCEPT ![l] = {}] ELSE rr_cv

(* rrn_find_and_remove().                                                  *)
ExitLinked(t, tag, l) == <<t, tag>> \in rrn_find(t)

rrw_exit(t, tag, l) ==
    IF rr_writer[l] = NoProc
    THEN LET linked == ExitLinked(t, tag, l) IN
         /\ rrn' = rrn \ {<<t, tag>>}
         /\ rr_linked_rcount' = [rr_linked_rcount EXCEPT ![l] = IF linked THEN @ - 1 ELSE @]
         /\ rr_anon_rcount' = [rr_anon_rcount EXCEPT ![l] = IF linked THEN @ ELSE @ - 1]
         /\ rr_held' = rr_held \ {<<t, tag>>}
         /\ BroadcastLast(l, linked)
         /\ UNCHANGED rr_writer
    ELSE /\ rr_writer' = [rr_writer EXCEPT ![l] = NoProc]
         /\ rr_cv' = [rr_cv EXCEPT ![l] = {}]
         /\ UNCHANGED rrCounts

(* rrm_exit() of a reader, ...                                             *)
RrExitRead(t, tag) ==
    /\ rr_op[t] = "none"
    /\ <<t, tag>> \in rr_held
    /\ rrw_exit(t, tag, RRM_TD_LOCK[t])
    /\ UNCHANGED <<rr_track_all, rr_writer_wanted, rr_op, rr_at, rr_tag>>

(* ... and of a writer, who releases the locks in order.                   *)
RrExitWrite(t) ==
    LET l == IF rr_op[t] = "exit" THEN rr_at[t] ELSE 0 IN
    /\ RrOwns(t) \/ rr_op[t] = "exit"
    /\ rrw_exit(t, rr_tag[t], l)
    /\ IF l + 1 \in RrLocks
       THEN rr_op' = [rr_op EXCEPT ![t] = "exit"] /\ rr_at' = [rr_at EXCEPT ![t] = l + 1]
       ELSE rr_op' = [rr_op EXCEPT ![t] = "none"] /\ UNCHANGED rr_at
    /\ UNCHANGED <<rr_track_all, rr_writer_wanted, rr_tag>>

RrNext ==
    \E t \in Procs :
        \/ \E op \in {"read", "prio", "write"}, tag \in RrTags : RrEnter(t, op, tag)
        \/ rrw_enter_read_impl(t) \/ rrw_enter_write(t)
        \/ \E tag \in RrTags : RrExitRead(t, tag)
        \/ RrExitWrite(t)

RrSpec == RrInit /\ [][RrNext]_rrVars

-----------------------------------------------------------------------------
RrTypeOK ==
    /\ rr_track_all \in BOOLEAN
    /\ rr_writer \in [RrLocks -> Procs \cup {NoProc}]
    /\ rr_writer_wanted \in [RrLocks -> BOOLEAN]
    /\ rr_anon_rcount \in [RrLocks -> Nat] /\ rr_linked_rcount \in [RrLocks -> Nat]
    /\ rr_cv \in [RrLocks -> SUBSET Procs]
    /\ rrn \in SUBSET (Procs \X RrTags) /\ rr_held \in SUBSET (Procs \X RrTags)
    /\ rr_op \in [Procs -> {"none", "read", "prio", "write", "exit"}]
    /\ rr_at \in [Procs -> RrLocks]
    /\ rr_tag \in [Procs -> RrTags]

HoldsOn(l) == {h \in rr_held : RRM_TD_LOCK[h[1]] = l}

(* While rrm_enter_write() has returned to a thread and rrm_exit() has not *)
(* been called, nobody else holds the lock, for reading or for writing,    *)
(* although readers are split over the locks of the array and are counted  *)
(* in two counters, by what rr_writer_wanted was when they came.           *)
RrExclusion ==
    \A t \in Procs : RrOwns(t) =>
        rr_held = {} /\ \A u \in Procs \ {t} : ~RrOwns(u)

(* rrw_exit() gives every hold back to the counter it was taken from: the  *)
(* two counters of a lock are the numbers of its holds with and without a  *)
(* node.                                                                   *)
RrCounts ==
    \A l \in RrLocks :
        /\ rr_linked_rcount[l] = Cardinality(HoldsOn(l) \cap rrn)
        /\ rr_anon_rcount[l] = Cardinality(HoldsOn(l) \ rrn)

(* No thread sleeps on after what it waits for has happened: every thread  *)
(* in cv_wait() would wait again if it looked now, and rr_writer_wanted    *)
(* keeps readers out only while a writer is there to be let in.            *)
RrSleepersWait ==
    \A l \in RrLocks :
        /\ \A t \in rr_cv[l] : IF rr_op[t] = "write" THEN WriteMustWait(l)
                                                    ELSE ReadMustWait(t, l)
        /\ rr_writer_wanted[l] =>
            \E t \in Procs : rr_op[t] = "write" /\ rr_at[t] = l

(* "Re-entrant": a thread that holds the lock for reading and asks for it  *)
(* again never sleeps, whoever waits for it to let go.                     *)
RrReentrant ==
    \A l \in RrLocks : \A t \in rr_cv[l] : RrHolds(t) = {}

(* rrw_held(): "If the lock was created with track_all, rrw_held(RW_READER)*)
(* will return B_TRUE iff the current thread has the lock for reader.      *)
(* Otherwise it may return B_TRUE if any thread has the lock for reader."  *)
rrw_held(t) == rr_anon_rcount[RRM_TD_LOCK[t]] # 0 \/ rrn_find(t) # {}
RrHeld ==
    \A t \in Procs :
        /\ RrHolds(t) # {} => rrw_held(t)
        /\ rr_track_all /\ rrw_held(t) => RrHolds(t) # {}

(* A lock of the array keeps what rrwlock.c says of it: counters that are  *)
(* the holds, nobody asleep who need not be, readers that re-enter without *)
(* sleeping, and an rrw_held() that tells readers.                         *)
RrCorrect == RrTypeOK /\ RrCounts /\ RrSleepersWait /\ RrReentrant /\ RrHeld
=============================================================================
