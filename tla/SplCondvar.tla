------------------------------ MODULE SplCondvar ------------------------------
(***************************************************************************)
(* Mutexes and condition variables of the Windows porting layer            *)
(* (spl-mutex.c, spl-condvar.c), built on atomics and kernel events.       *)
(*                                                                         *)
(* One mutex and the condition variables that are used with it.  Clients   *)
(* call them in any order, as the rules for callers allow: signals and     *)
(* waits with the mutex held; nothing by a thread that has dropped its     *)
(* reference; no new wait on a condition variable that is to be destroyed. *)
(* The last thread that drops its reference destroys the mutex.            *)
(*                                                                         *)
(* A step is one access to memory that other threads can see.  stack holds *)
(* where a thread goes on after the call it is in.                         *)
(***************************************************************************)
EXTENDS LockClients, Sequences

CONSTANTS
    Cvs,
    WaitKinds           \* how each thread waits on each condition variable

ASSUME SplAssumption ==
    WaitKinds \in [Procs -> [Cvs -> SUBSET {"wait", "timedwait"}]]

VARIABLES
    m_owner,
    m_lock,             \* the event: set when the mutex may be free
    m_destroy_lock,     \* who has the spin lock
    m_initialised,
    cv_signal, cv_broadcast,    \* cv_kevent[] of each condition variable
    cv_waiters_count,
    cv_initialised,
    spl_pc, stack,
    call,               \* the condition variable a thread is calling, see Calls
    closing,            \* condition variables that are to be destroyed
    refs,               \* threads that have not dropped their reference
    owed                \* history: see BroadcastSet

mutexVars == <<m_owner, m_lock, m_destroy_lock, m_initialised>>
cvVars == <<cv_signal, cv_broadcast, cv_waiters_count, cv_initialised>>
clientVars == <<closing, refs>>
splVars == <<mutexVars, cvVars, spl_pc, stack, call, clientVars, owed>>

Results == {"none", "signal", "broadcast", "timeout"}
Calls == [cv : Cvs \cup {NoProc}, kind : {"wait", "timedwait"}, result : Results]
CallOn(c, k) == [cv |-> c, kind |-> k, result |-> "none"]
NoCall == CallOn(NoProc, "wait")

SplInit ==
    /\ m_owner = NoProc /\ m_lock = TRUE
    /\ m_destroy_lock = NoProc /\ m_initialised = TRUE
    /\ cv_signal = [c \in Cvs |-> FALSE]
    /\ cv_broadcast = [c \in Cvs |-> FALSE]
    /\ cv_waiters_count = [c \in Cvs |-> 0]
    /\ cv_initialised = [c \in Cvs |-> TRUE]
    /\ spl_pc = [t \in Procs |-> "out"]
    /\ stack = [t \in Procs |-> <<>>]
    /\ call = [t \in Procs |-> NoCall]
    /\ closing = {} /\ refs = Procs
    /\ owed = [c \in Cvs |-> {}]

SplGoto(t, l) == spl_pc' = [spl_pc EXCEPT ![t] = l] /\ UNCHANGED stack
Call(t, l, then) == spl_pc' = [spl_pc EXCEPT ![t] = l] /\ stack' = [stack EXCEPT ![t] = then \o @]
Return(t) == spl_pc' = [spl_pc EXCEPT ![t] = Head(stack[t])] /\ stack' = [stack EXCEPT ![t] = Tail(@)]

-----------------------------------------------------------------------------
(* spl_mutex_enter(): the compare-and-swap.                                *)
Enter(t) ==
    /\ spl_pc[t] = "enter"
    /\ IF m_owner = NoProc THEN m_owner' = t /\ Return(t)
                         ELSE UNCHANGED m_owner /\ SplGoto(t, "m_wait")
    /\ UNCHANGED <<m_lock, m_destroy_lock, m_initialised, cvVars, call, clientVars, owed>>

(* It failed: wait for the event, which resets itself, and try again.      *)
EnterWait(t) ==
    /\ spl_pc[t] = "m_wait"
    /\ IF m_lock THEN m_lock' = FALSE /\ SplGoto(t, "enter")
                 ELSE UNCHANGED m_lock /\ SplGoto(t, "m_blocked")
    /\ UNCHANGED <<m_owner, m_destroy_lock, m_initialised, cvVars, call, clientVars, owed>>

(* spl_mutex_tryenter().                                                   *)
TryEnter(t) ==
    /\ spl_pc[t] = "out"
    /\ m_owner = NoProc
    /\ m_owner' = t
    /\ SplGoto(t, "held")
    /\ UNCHANGED <<m_lock, m_destroy_lock, m_initialised, cvVars, call, clientVars, owed>>

(* Mutant: without the spin lock.                                          *)
ExitOwnerUnlocked(t) ==
    /\ spl_pc[t] = "exit"
    /\ m_owner' = NoProc
    /\ SplGoto(t, "exit_set")
    /\ UNCHANGED <<m_lock, m_destroy_lock, m_initialised, cvVars, call, clientVars, owed>>

(* spl_mutex_exit(): the spin lock, the owner, the event, the spin lock.   *)
ExitOwner(t) ==
    /\ spl_pc[t] = "exit"
    /\ m_destroy_lock = NoProc
    /\ m_destroy_lock' = t
    /\ m_owner' = NoProc
    /\ SplGoto(t, "exit_set")
    /\ UNCHANGED <<m_lock, m_initialised, cvVars, call, clientVars, owed>>

(* Mutant: does not wake a thread that is already blocked.                 *)
ExitSetNoWake(t) ==
    /\ spl_pc[t] = "exit_set"
    /\ m_lock' = (\A u \in Procs : spl_pc[u] # "m_blocked")
    /\ SplGoto(t, "exit_release")
    /\ UNCHANGED <<m_owner, m_destroy_lock, m_initialised, cvVars, call, clientVars, owed>>

(* KeSetEvent() lets one blocked thread go, or leaves the event set.       *)
ExitSet(t) ==
    /\ spl_pc[t] = "exit_set"
    /\ LET Blocked == {u \in Procs : spl_pc[u] = "m_blocked"} IN
       IF Blocked = {}
       THEN m_lock' = TRUE /\ SplGoto(t, "exit_release")
       ELSE /\ \E u \in Blocked :
                spl_pc' = [spl_pc EXCEPT ![t] = "exit_release", ![u] = "enter"]
            /\ UNCHANGED <<m_lock, stack>>
    /\ UNCHANGED <<m_owner, m_destroy_lock, m_initialised, cvVars, call, clientVars, owed>>

ExitRelease(t) ==
    /\ spl_pc[t] = "exit_release"
    /\ m_destroy_lock' = NoProc
    /\ Return(t)
    /\ UNCHANGED <<m_owner, m_lock, m_initialised, cvVars, call, clientVars, owed>>

(* spl_mutex_destroy(): waits for a mutex_exit() that is still under way.  *)
MutexDestroy(t) ==
    /\ spl_pc[t] = "m_destroy"
    /\ m_destroy_lock = NoProc
    /\ m_initialised' = FALSE
    /\ Return(t)
    /\ UNCHANGED <<m_owner, m_lock, m_destroy_lock, cvVars, call, clientVars, owed>>

-----------------------------------------------------------------------------
(* Threads that were counted and are not past KeWaitForMultipleObjects():  *)
(* on their way to it, or blocked in it.                                   *)
GoingToWait(c) ==
    {t \in Procs : call[t].cv = c /\ \/ spl_pc[t] = "ke_wait"
                                     \/ stack[t] # <<>> /\ Head(stack[t]) = "ke_wait"}
CvBlocked(c) == {t \in Procs : call[t].cv = c /\ spl_pc[t] = "cv_blocked"}

Wake(T, res) ==
    /\ spl_pc' = [t \in Procs |-> IF t \in T THEN "woken" ELSE spl_pc[t]]
    /\ call' = [t \in Procs |-> IF t \in T THEN [call[t] EXCEPT !.result = res] ELSE call[t]]

(* spl_cv_wait(), spl_cv_timedwait() and cv_timedwait_hires(): count the   *)
(* waiter, release the mutex, ...                                          *)
CvWait(t, c, k) ==
    /\ spl_pc[t] = "held"
    /\ c \notin closing
    /\ k \in WaitKinds[t][c]
    /\ cv_waiters_count' = [cv_waiters_count EXCEPT ![c] = @ + 1]
    /\ call' = [call EXCEPT ![t] = CallOn(c, k)]
    /\ Call(t, "exit", <<"ke_wait">>)
    /\ UNCHANGED <<mutexVars, cv_signal, cv_broadcast, cv_initialised, clientVars, owed>>

(* ... wait for either event (the first one set counts; the signal event   *)
(* resets itself), ...                                                     *)
KeWait(t) ==
    LET c == call[t].cv IN
    /\ spl_pc[t] = "ke_wait"
    /\ IF cv_signal[c] \/ cv_broadcast[c]
       THEN /\ Wake({t}, IF cv_signal[c] THEN "signal" ELSE "broadcast")
            /\ cv_signal' = [cv_signal EXCEPT ![c] = FALSE]
            /\ owed' = [owed EXCEPT ![c] = @ \ {t}]
       ELSE spl_pc' = [spl_pc EXCEPT ![t] = "cv_blocked"] /\ UNCHANGED <<call, cv_signal, owed>>
    /\ UNCHANGED <<mutexVars, cv_broadcast, cv_waiters_count, cv_initialised, stack, clientVars>>

(* ... at most as long as the caller said, ...                             *)
Timeout(t) ==
    /\ spl_pc[t] = "cv_blocked"
    /\ call[t].kind = "timedwait"
    /\ Wake({t}, "timeout")
    /\ UNCHANGED <<mutexVars, cvVars, stack, clientVars, owed>>

(* ... and: spl_cv_wait() takes the mutex, the others first see whether    *)
(* they are the last waiter of a broadcast.                                *)
Woken(t) ==
    /\ spl_pc[t] = "woken"
    /\ IF call[t].kind = "wait"
       THEN Call(t, "enter", <<"wait_clear">>)
       ELSE SplGoto(t, IF call[t].result = "broadcast" /\ cv_waiters_count[call[t].cv] = 1
                    THEN "timed_clear" ELSE "timed_dec")
    /\ UNCHANGED <<mutexVars, cvVars, call, clientVars, owed>>

(* Mutant: clears the event whether others wait or not.                    *)
WaitClearAlways(t) ==
    /\ spl_pc[t] = "wait_clear"
    /\ cv_broadcast' = [cv_broadcast EXCEPT ![call[t].cv] = FALSE]
    /\ SplGoto(t, "wait_dec")
    /\ UNCHANGED <<mutexVars, cv_signal, cv_waiters_count, cv_initialised, call, clientVars, owed>>

(* spl_cv_wait(), with the mutex: the last waiter clears the event, ...    *)
WaitClear(t) ==
    LET c == call[t].cv IN
    /\ spl_pc[t] = "wait_clear"
    /\ cv_broadcast' = [cv_broadcast EXCEPT ![c] = @ /\ cv_waiters_count[c] # 1]
    /\ SplGoto(t, "wait_dec")
    /\ UNCHANGED <<mutexVars, cv_signal, cv_waiters_count, cv_initialised, call, clientVars, owed>>

(* ... and is no longer counted.                                           *)
WaitDec(t) ==
    /\ spl_pc[t] = "wait_dec"
    /\ cv_waiters_count' = [cv_waiters_count EXCEPT ![call[t].cv] = @ - 1]
    /\ call' = [call EXCEPT ![t] = NoCall]
    /\ SplGoto(t, "held")
    /\ UNCHANGED <<mutexVars, cv_signal, cv_broadcast, cv_initialised, clientVars, owed>>

(* spl_cv_timedwait() and cv_timedwait_hires() do both without the mutex.  *)
TimedClear(t) ==
    /\ spl_pc[t] = "timed_clear"
    /\ cv_broadcast' = [cv_broadcast EXCEPT ![call[t].cv] = FALSE]
    /\ SplGoto(t, "timed_dec")
    /\ UNCHANGED <<mutexVars, cv_signal, cv_waiters_count, cv_initialised, call, clientVars, owed>>

TimedDec(t) ==
    /\ spl_pc[t] = "timed_dec"
    /\ cv_waiters_count' = [cv_waiters_count EXCEPT ![call[t].cv] = @ - 1]
    /\ call' = [call EXCEPT ![t] = NoCall]
    /\ Call(t, "enter", <<"held">>)
    /\ UNCHANGED <<mutexVars, cv_signal, cv_broadcast, cv_initialised, clientVars, owed>>

-----------------------------------------------------------------------------
NotifyDone(t) ==
    /\ Return(t)
    /\ call' = [call EXCEPT ![t] = IF Head(stack[t]) = "held" THEN NoCall ELSE @]

(* spl_cv_signal() and spl_cv_broadcast(): nothing to do without waiters.  *)
Notify(t) ==
    /\ spl_pc[t] \in {"signal", "broadcast"}
    /\ IF cv_waiters_count[call[t].cv] > 0
       THEN SplGoto(t, IF spl_pc[t] = "signal" THEN "signal_set" ELSE "broadcast_set") /\ UNCHANGED call
       ELSE NotifyDone(t)
    /\ UNCHANGED <<mutexVars, cvVars, clientVars, owed>>

(* The event lets one blocked waiter go, or stays set for the next one.    *)
SignalSet(t) ==
    LET c == call[t].cv IN
    /\ spl_pc[t] = "signal_set"
    /\ IF CvBlocked(c) = {}
       THEN cv_signal' = [cv_signal EXCEPT ![c] = TRUE] /\ NotifyDone(t)
       ELSE /\ \E u \in CvBlocked(c) :
                /\ spl_pc' = [spl_pc EXCEPT ![t] = Head(stack[t]), ![u] = "woken"]
                /\ call' = [call EXCEPT ![t] = NoCall, ![u].result = "signal"]
            /\ stack' = [stack EXCEPT ![t] = Tail(@)]
            /\ UNCHANGED cv_signal
    /\ UNCHANGED <<mutexVars, cv_broadcast, cv_waiters_count, cv_initialised, clientVars, owed>>

(* The event lets all blocked waiters go and stays set for those that are  *)
(* not blocked yet: these are owed a wakeup.                               *)
BroadcastSet(t) ==
    LET c == call[t].cv
        Blocked == CvBlocked(c)
    IN
    /\ spl_pc[t] = "broadcast_set"
    /\ cv_broadcast' = [cv_broadcast EXCEPT ![c] = TRUE]
    /\ spl_pc' = [u \in Procs |-> CASE u = t -> Head(stack[t])
                                  [] u \in Blocked -> "woken"
                                  [] OTHER -> spl_pc[u]]
    /\ call' = [u \in Procs |->
                 CASE u = t -> IF Head(stack[t]) = "held" THEN NoCall ELSE call[t]
                   [] u \in Blocked -> [call[u] EXCEPT !.result = "broadcast"]
                   [] OTHER -> call[u]]
    /\ stack' = [stack EXCEPT ![t] = Tail(@)]
    /\ owed' = [owed EXCEPT ![c] = @ \cup GoingToWait(c)]
    /\ UNCHANGED <<mutexVars, cv_signal, cv_waiters_count, cv_initialised, clientVars>>

(* spl_cv_destroy(): broadcasts as long as there are waiters.              *)
CvDestroy(t) ==
    LET c == call[t].cv IN
    /\ spl_pc[t] = "cv_destroy"
    /\ IF cv_waiters_count[c] > 0
       THEN Call(t, "broadcast", <<"cv_destroy">>) /\ UNCHANGED <<cv_initialised, call>>
       ELSE /\ cv_initialised' = [cv_initialised EXCEPT ![c] = FALSE]
            /\ call' = [call EXCEPT ![t] = NoCall]
            /\ Return(t)
    /\ UNCHANGED <<mutexVars, cv_signal, cv_broadcast, cv_waiters_count, clientVars, owed>>

-----------------------------------------------------------------------------
(* What callers do: enter, leave, signal, ...                              *)
CallEnter(t) ==
    /\ spl_pc[t] = "out"
    /\ Call(t, "enter", <<"held">>)
    /\ UNCHANGED <<mutexVars, cvVars, call, clientVars, owed>>

CallExit(t) ==
    /\ spl_pc[t] = "held"
    /\ Call(t, "exit", <<"out">>)
    /\ UNCHANGED <<mutexVars, cvVars, call, clientVars, owed>>

CallNotify(t, c, how) ==
    /\ spl_pc[t] = "held"
    /\ c \notin closing
    /\ call' = [call EXCEPT ![t] = CallOn(c, "wait")]
    /\ Call(t, how, <<"held">>)
    /\ UNCHANGED <<mutexVars, cvVars, clientVars, owed>>

(* ... wake all waiters of a condition variable for the last time and      *)
(* destroy it, ...                                                         *)
Close(t, c) ==
    /\ spl_pc[t] = "held"
    /\ c \notin closing
    /\ closing' = closing \cup {c}
    /\ call' = [call EXCEPT ![t] = CallOn(c, "wait")]
    /\ Call(t, "broadcast", <<"exit", "cv_destroy", "out">>)
    /\ UNCHANGED <<mutexVars, cvVars, refs, owed>>

(* ... drop the reference, the last one destroying the mutex.              *)
Drop(t) ==
    /\ spl_pc[t] = "held"
    /\ refs' = refs \ {t}
    /\ Call(t, "exit", IF refs' = {} THEN <<"m_destroy", "gone">> ELSE <<"gone">>)
    /\ UNCHANGED <<mutexVars, cvVars, call, closing, owed>>

(* Nobody is left to wake those that wait.                                 *)
AtRest == (\A t \in Procs : spl_pc[t] \in {"gone", "cv_blocked"}) /\ UNCHANGED splVars

SplNext ==
    \/ \E t \in Procs :
        \/ Enter(t) \/ EnterWait(t) \/ TryEnter(t)
        \/ ExitOwner(t) \/ ExitSet(t) \/ ExitRelease(t) \/ MutexDestroy(t)
        \/ KeWait(t) \/ Timeout(t) \/ Woken(t)
        \/ WaitClear(t) \/ WaitDec(t) \/ TimedClear(t) \/ TimedDec(t)
        \/ Notify(t) \/ SignalSet(t) \/ BroadcastSet(t) \/ CvDestroy(t)
        \/ CallEnter(t) \/ CallExit(t) \/ Drop(t)
        \/ \E c \in Cvs :
            \/ \E k \in {"wait", "timedwait"} : CvWait(t, c, k)
            \/ \E how \in {"signal", "broadcast"} : CallNotify(t, c, how)
            \/ Close(t, c)
    \/ AtRest

SplSpec == SplInit /\ [][SplNext]_splVars

-----------------------------------------------------------------------------
SplLabels == {"out", "held", "gone", "enter", "m_wait", "m_blocked", "exit", "exit_set",
           "exit_release", "m_destroy", "ke_wait", "cv_blocked", "woken", "wait_clear",
           "wait_dec", "timed_clear", "timed_dec", "signal", "broadcast", "signal_set",
           "broadcast_set", "cv_destroy"}

SplTypeOK ==
    /\ m_owner \in Procs \cup {NoProc} /\ m_lock \in BOOLEAN
    /\ m_destroy_lock \in Procs \cup {NoProc} /\ m_initialised \in BOOLEAN
    /\ cv_signal \in [Cvs -> BOOLEAN] /\ cv_broadcast \in [Cvs -> BOOLEAN]
    /\ cv_waiters_count \in [Cvs -> 0..Cardinality(Procs)]
    /\ cv_initialised \in [Cvs -> BOOLEAN]
    /\ spl_pc \in [Procs -> SplLabels]
    /\ \A t \in Procs : stack[t] \in Seq(SplLabels)
    /\ call \in [Procs -> Calls]
    /\ closing \in SUBSET Cvs /\ refs \in SUBSET Procs
    /\ owed \in [Cvs -> SUBSET Procs]

(* Between the return of spl_mutex_enter() and the call of                 *)
(* spl_mutex_exit(), also those inside the spl_cv functions, a thread is   *)
(* the owner: no other one is there.                                       *)
MutualExclusion ==
    \A t \in Procs :
        \/ spl_pc[t] \in {"held", "wait_clear", "wait_dec", "exit"}
        \/ spl_pc[t] \in {"signal", "broadcast", "signal_set", "broadcast_set"}
           /\ Head(stack[t]) \in {"held", "exit"}
        => m_owner = t

(* The event is not the lock, and others may overtake a thread that was    *)
(* woken: yet the mutex has one owner, and when it is free and threads are *)
(* blocked in spl_mutex_enter(), someone is about to take it or to wake    *)
(* one of them.                                                            *)
MutexWakeup ==
    /\ SplTypeOK /\ MutualExclusion
    /\ (m_owner = NoProc /\ \E t \in Procs : spl_pc[t] = "m_blocked") =>
        \E t \in Procs : spl_pc[t] \in {"enter", "exit_set"}

(* spl_cv_broadcast() reaches every thread that was counted as a waiter,   *)
(* also those that have released the mutex and are not blocked yet: the    *)
(* event they go to is not cleared before they have seen it.               *)
NoLostBroadcast == \A c \in Cvs : owed[c] # {} => cv_broadcast[c]

(* The thread that drops the last reference may free the memory: nobody    *)
(* else is still inside spl_mutex_exit() ("accidentally alow another       *)
(* thread to turbo into mutex_destroy()"), nobody owns the mutex then, and *)
(* nobody uses a condition variable when spl_cv_destroy() has returned.    *)
DestroyIsSafe ==
    /\ ~m_initialised => \A t \in Procs : spl_pc[t] = "gone"
    /\ (\E t \in Procs : spl_pc[t] = "m_destroy") => m_owner = NoProc
    /\ \A c \in Cvs : ~cv_initialised[c] => \A t \in Procs : call[t].cv # c
=============================================================================
