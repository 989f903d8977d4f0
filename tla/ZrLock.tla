-------------------------------- MODULE ZrLock --------------------------------
(***************************************************************************)
(* The zero reference lock (zrlock.c): a reference count that can be       *)
(* locked when it is zero.  The count is changed by atomic instructions    *)
(* outside of zr_mtx; a step is one access to the count or to zr_owner,    *)
(* which builds with ZFS_DEBUG keep.  Memory is sequentially consistent.   *)
(***************************************************************************)
EXTENDS LockClients

CONSTANT MaxZrRefs      \* bound: the references of one thread

ASSUME ZrAssumption == MaxZrRefs \in Nat

ZRL_LOCKED == -1

VARIABLES zr_refcount, zr_owner,
    zr_cv,              \* threads asleep on zr_cv
    zr_pc, zr_n,        \* where a thread is in a call; its variable n
    zr_refs, zr_locker  \* history: the references of each thread, who has the lock

zrVars == <<zr_refcount, zr_owner, zr_cv, zr_pc, zr_n, zr_refs, zr_locker>>

ZrInit ==
    /\ zr_refcount = 0 /\ zr_owner = NoProc
    /\ zr_cv = {}
    /\ zr_pc = [t \in Procs |-> "out"]
    /\ zr_n = [t \in Procs |-> 0]
    /\ zr_refs = [t \in Procs |-> 0] /\ zr_locker = NoProc

ZrGoto(t, l) == zr_pc' = [zr_pc EXCEPT ![t] = l]

-----------------------------------------------------------------------------
(* zrl_add_impl(): reads the count, ...                                    *)
ZrAddRead(t) ==
    /\ \/ zr_pc[t] = "out" /\ zr_locker # t /\ zr_refs[t] < MaxZrRefs
       \/ zr_pc[t] = "add"
    /\ zr_n' = [zr_n EXCEPT ![t] = zr_refcount]
    /\ ZrGoto(t, "add_cas")
    /\ UNCHANGED <<zr_refcount, zr_owner, zr_cv, zr_refs, zr_locker>>

(* ... adds one if it is still the same, as long as it is not locked, ...  *)
ZrAddCas(t) ==
    /\ zr_pc[t] = "add_cas"
    /\ IF zr_n[t] = ZRL_LOCKED
       THEN ZrGoto(t, "add_wait") /\ UNCHANGED <<zr_refcount, zr_n, zr_refs>>
       ELSE IF zr_refcount = zr_n[t]
       THEN /\ zr_refcount' = zr_n[t] + 1
            /\ zr_refs' = [zr_refs EXCEPT ![t] = @ + 1]
            /\ zr_n' = [zr_n EXCEPT ![t] = 0]
            /\ ZrGoto(t, "add_owner")
       ELSE /\ zr_n' = [zr_n EXCEPT ![t] = zr_refcount]
            /\ UNCHANGED <<zr_refcount, zr_pc, zr_refs>>
    /\ UNCHANGED <<zr_owner, zr_cv, zr_locker>>

ZrAddOwner(t) ==
    /\ zr_pc[t] = "add_owner"
    /\ zr_owner' = t
    /\ ZrGoto(t, "out")
    /\ UNCHANGED <<zr_refcount, zr_cv, zr_n, zr_refs, zr_locker>>

(* ... or waits, under zr_mtx, until it is not and begins again.           *)
ZrAddWait(t) ==
    /\ zr_pc[t] = "add_wait"
    /\ t \notin zr_cv
    /\ IF zr_refcount = ZRL_LOCKED THEN zr_cv' = zr_cv \cup {t} /\ UNCHANGED zr_pc
                                   ELSE ZrGoto(t, "add") /\ UNCHANGED zr_cv
    /\ UNCHANGED <<zr_refcount, zr_owner, zr_n, zr_refs, zr_locker>>

(* zrl_remove(): clears zr_owner if it is the thread itself, ...           *)
ZrRemoveTest(t) ==
    /\ zr_pc[t] = "out" /\ zr_refs[t] > 0
    /\ ZrGoto(t, IF zr_owner = t THEN "remove_clear" ELSE "remove_dec")
    /\ UNCHANGED <<zr_refcount, zr_owner, zr_cv, zr_n, zr_refs, zr_locker>>

ZrRemoveClear(t) ==
    /\ zr_pc[t] = "remove_clear"
    /\ zr_owner' = NoProc
    /\ ZrGoto(t, "remove_dec")
    /\ UNCHANGED <<zr_refcount, zr_cv, zr_n, zr_refs, zr_locker>>

(* ... and takes one off.                                                  *)
ZrRemoveDec(t) ==
    /\ zr_pc[t] = "remove_dec"
    /\ zr_refcount' = zr_refcount - 1
    /\ zr_refs' = [zr_refs EXCEPT ![t] = @ - 1]
    /\ ZrGoto(t, "out")
    /\ UNCHANGED <<zr_owner, zr_cv, zr_n, zr_locker>>

(* zrl_tryenter(): reads the count and, if it is zero, ...                 *)
ZrTryRead(t) ==
    /\ zr_pc[t] = "out" /\ zr_locker # t
    /\ zr_refcount = 0
    /\ ZrGoto(t, "try_cas")
    /\ UNCHANGED <<zr_refcount, zr_owner, zr_cv, zr_n, zr_refs, zr_locker>>

(* ... locks it if it still is.                                            *)
ZrTryCas(t) ==
    /\ zr_pc[t] = "try_cas"
    /\ IF zr_refcount = 0
       THEN zr_refcount' = ZRL_LOCKED /\ zr_locker' = t /\ ZrGoto(t, "try_owner")
       ELSE UNCHANGED <<zr_refcount, zr_locker>> /\ ZrGoto(t, "out")
    /\ UNCHANGED <<zr_owner, zr_cv, zr_n, zr_refs>>

ZrTryOwner(t) ==
    /\ zr_pc[t] = "try_owner"
    /\ zr_owner' = t
    /\ ZrGoto(t, "out")
    /\ UNCHANGED <<zr_refcount, zr_cv, zr_n, zr_refs, zr_locker>>

(* Mutant: gives the count back before it clears zr_owner.                 *)
ZrExitCountFirst(t) ==
    /\ zr_pc[t] = "out" /\ zr_locker = t
    /\ zr_refcount' = 0 /\ zr_locker' = NoProc
    /\ ZrGoto(t, "remove_clear")
    /\ UNCHANGED <<zr_owner, zr_cv, zr_n, zr_refs>>

(* zrl_exit(), under zr_mtx: clears zr_owner, ...                          *)
ZrExit(t) ==
    /\ zr_pc[t] = "out" /\ zr_locker = t
    /\ zr_owner' = NoProc
    /\ ZrGoto(t, "exit")
    /\ UNCHANGED <<zr_refcount, zr_cv, zr_n, zr_refs, zr_locker>>

(* ... then unlocks the count and wakes those that wait.                   *)
ZrExitCount(t) ==
    /\ zr_pc[t] = "exit"
    /\ zr_refcount' = 0 /\ zr_locker' = NoProc
    /\ zr_cv' = {}
    /\ ZrGoto(t, "out")
    /\ UNCHANGED <<zr_owner, zr_n, zr_refs>>

ZrNext ==
    \E t \in Procs :
        \/ ZrAddRead(t) \/ ZrAddCas(t) \/ ZrAddOwner(t) \/ ZrAddWait(t)
        \/ ZrRemoveTest(t) \/ ZrRemoveClear(t) \/ ZrRemoveDec(t)
        \/ ZrTryRead(t) \/ ZrTryCas(t) \/ ZrTryOwner(t)
        \/ ZrExit(t) \/ ZrExitCount(t)

ZrSpec == ZrInit /\ [][ZrNext]_zrVars

-----------------------------------------------------------------------------
ZrLabels == {"out", "add", "add_cas", "add_owner", "add_wait", "remove_clear",
             "remove_dec", "try_cas", "try_owner", "exit"}

ZrTypeOK ==
    /\ zr_refcount \in Int /\ zr_refcount >= ZRL_LOCKED
    /\ zr_owner \in Procs \cup {NoProc}
    /\ zr_cv \in SUBSET Procs
    /\ zr_pc \in [Procs -> ZrLabels]
    /\ zr_n \in [Procs -> Int]
    /\ zr_refs \in [Procs -> 0..MaxZrRefs]
    /\ zr_locker \in Procs \cup {NoProc}

(* zrl_tryenter() succeeds only without references, and zrl_add() returns  *)
(* only when the lock is not taken, whichever compare-and-swap comes first.*)
ZrExclusion ==
    zr_locker # NoProc =>
        zr_refcount = ZRL_LOCKED /\ \A t \in Procs : zr_refs[t] = 0

(* Who sleeps in zrl_add() sleeps because the lock is taken now.           *)
ZrSleepersWait == zr_cv # {} => zr_refcount = ZRL_LOCKED

(* What zrl_tryenter() and zrl_exit() assert of zr_owner, which threads    *)
(* set and clear without a lock, after and before they change the count:   *)
(* nobody is left in it when the count has become zero, and only the       *)
(* holder of the lock is in it while the lock is held.                     *)
ZrOwner ==
    \A t \in Procs :
        /\ zr_pc[t] = "try_owner" => zr_owner = NoProc
        /\ zr_pc[t] = "out" /\ zr_locker = t => zr_owner = t

(* References and the lock exclude each other, nobody sleeps on a lock     *)
(* that is free, and the assertions on zr_owner hold, whatever happens     *)
(* between two accesses to the count.                                      *)
ZrCorrect == ZrTypeOK /\ ZrExclusion /\ ZrSleepersWait /\ ZrOwner
=============================================================================
