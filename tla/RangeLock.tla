------------------------------ MODULE RangeLock ------------------------------
(***************************************************************************)
(* Range locks of a file (zfs_rlock.c): the tree of ranges that are locked *)
(* and what zfs_rangelock_enter(), _exit() and _reduce() do to it.         *)
(*                                                                         *)
(* The tree is a function from the offsets of its nodes to the nodes.  The *)
(* handle a caller gets back stays in the tree until another reader        *)
(* overlaps it; then proxies take its place.                               *)
(***************************************************************************)
EXTENDS LockClients, FiniteSetsExt, TLC

CONSTANT UINT64_MAX     \* stands for the length of a lock on the whole file

VARIABLES
    rl_tree,
    rl_lr,              \* the locked_range_t of each thread, once it is locked
    rl_cv               \* the node and the condition variable a thread sleeps on

NoNode == -1
Awake == [at |-> NoNode, cv |-> "none"]
Unlocked == [off |-> 0, len |-> 0, type |-> "none"]

RlInit ==
    /\ rl_tree = <<>>
    /\ rl_lr = [t \in Procs |-> Unlocked]
    /\ rl_cv = [t \in Procs |-> Awake]

(* lr_proxy is lr = NoProc: the node is nobody's handle.                     *)
Node(len, count, type, lr) ==
    [len |-> len, count |-> count, type |-> type, lr |-> lr,
     write_wanted |-> FALSE, read_wanted |-> FALSE]
Proxy(len, count) == Node(len, count, "reader", NoProc)

EndOf(tree, o) == o + tree[o].len
Before(tree, o) == LET B == {p \in DOMAIN tree : p < o} IN IF B = {} THEN NoNode ELSE Max(B)
After(tree, o) == LET A == {p \in DOMAIN tree : p > o} IN IF A = {} THEN NoNode ELSE Min(A)

-----------------------------------------------------------------------------
(* zfs_rangelock_proxify() and zfs_rangelock_split(), of the node at o.    *)
Proxify(tree, o) == IF tree[o].lr = NoProc THEN tree ELSE (o :> Proxy(tree[o].len, 1)) @@ tree

(* Mutant: the part that is cut off counts one reader.                     *)
SplitOne(tree, o, at) ==
    LET p == Proxify(tree, o) IN
    (at :> Proxy(EndOf(tree, o) - at, 1)) @@ [p EXCEPT ![o].len = at - o]

Split(tree, o, at) ==
    LET p == Proxify(tree, o) IN
    (at :> Proxy(EndOf(tree, o) - at, tree[o].count)) @@ [p EXCEPT ![o].len = at - o]

NewProxy(tree, o, len) == (o :> Proxy(len, 1)) @@ tree
Bump(tree, o) == [tree EXCEPT ![o].count = @ + 1]

(* The loop of zfs_rangelock_add_reader() over the nodes it overlaps, from *)
(* next on: makes them proxies, counts them up, splits the last one and    *)
(* fills the gaps.                                                         *)
RECURSIVE AddForward(_, _, _, _)
AddForward(tree, end, prev, next) ==
    IF next = NoNode \/ end <= next
    THEN NewProxy(tree, EndOf(tree, prev), end - EndOf(tree, prev))
    ELSE LET full == IF prev # NoNode /\ EndOf(tree, prev) < next
                     THEN NewProxy(tree, EndOf(tree, prev), next - EndOf(tree, prev))
                     ELSE tree
             whole == Bump(Proxify(full, next), next)
         IN CASE end = EndOf(tree, next) -> whole
              [] end < EndOf(tree, next) -> Bump(Split(full, next, end), next)
              [] OTHER -> AddForward(whole, end, next, After(whole, next))

zfs_rangelock_add_reader(tree, t, off, len) ==
    LET end == off + len
        prev == IF off \in DOMAIN tree THEN off ELSE Before(tree, off)
        overlaps == prev # NoNode /\ EndOf(tree, prev) > off
        cut == IF overlaps /\ prev # off THEN Split(tree, prev, off) ELSE tree
        next == IF overlaps THEN off ELSE After(tree, off)
    IN IF next = NoNode \/ end <= next
       THEN (off :> Node(len, 1, "reader", t)) @@ cut
       ELSE AddForward(IF off < next THEN NewProxy(cut, off, next - off) ELSE cut,
                       end, NoNode, next)

-----------------------------------------------------------------------------
(* Mutant: the nodes that begin before the range are not looked at.        *)
WriterBlockerFrom(tree, off, len) ==
    LET a == After(tree, off)
    IN CASE off \in DOMAIN tree -> off
         [] a # NoNode /\ a < off + len -> a
         [] OTHER -> NoNode

(* The node a writer has to wait for: at the same offset, else the next    *)
(* one, else the one before, if they overlap.                              *)
WriterBlocker(tree, off, len) ==
    LET a == After(tree, off)
        b == Before(tree, off)
    IN CASE off \in DOMAIN tree -> off
         [] a # NoNode /\ a < off + len -> a
         [] b # NoNode /\ EndOf(tree, b) > off -> b
         [] OTHER -> NoNode

(* The node a reader has to wait for: the first one it overlaps that a     *)
(* writer has or waits for.                                                *)
ReaderBlocker(tree, off, len) ==
    LET B == {o \in DOMAIN tree : /\ o < off + len /\ EndOf(tree, o) > off
                                  /\ tree[o].type = "writer" \/ tree[o].write_wanted}
    IN IF B = {} THEN NoNode ELSE Min(B)

RlSleep(t, o, cv) ==
    /\ rl_cv' = [rl_cv EXCEPT ![t] = [at |-> o, cv |-> cv]]
    /\ rl_tree' = IF cv = "write" THEN [rl_tree EXCEPT ![o].write_wanted = TRUE]
                                  ELSE [rl_tree EXCEPT ![o].read_wanted = TRUE]
    /\ UNCHANGED rl_lr

RlLocked(t, off, len, type) ==
    /\ rl_lr' = [rl_lr EXCEPT ![t] = [off |-> off, len |-> len, type |-> type]]
    /\ UNCHANGED rl_cv

(* zfs_rangelock_enter_writer() once round its loop, after the callback.   *)
RlEnterWriter(t, off, len) ==
    LET o == WriterBlocker(rl_tree, off, len) IN
    IF o # NoNode
    THEN RlSleep(t, o, "write")
    ELSE /\ rl_tree' = (off :> Node(len, 1, "writer", t)) @@ rl_tree
         /\ RlLocked(t, off, len, "writer")

(* zfs_rangelock_enter_reader() once round its loop.                       *)
RlEnterReader(t, off, len) ==
    LET o == ReaderBlocker(rl_tree, off, len) IN
    IF o # NoNode
    THEN RlSleep(t, o, "read")
    ELSE /\ rl_tree' = zfs_rangelock_add_reader(rl_tree, t, off, len)
         /\ RlLocked(t, off, len, "reader")

(* Mutant: wakes the readers only if there is no writer to be woken.       *)
RlWakeWriters(nodes) ==
    rl_cv' = [t \in Procs |->
                IF rl_cv[t].at \in nodes
                   /\ (rl_cv[t].cv = "write" \/ ~rl_tree[rl_cv[t].at].write_wanted)
                THEN Awake ELSE rl_cv[t]]

(* Broadcasts on both condition variables of some nodes.                   *)
RlWake(nodes) ==
    rl_cv' = [t \in Procs |-> IF rl_cv[t].at \in nodes THEN Awake ELSE rl_cv[t]]

(* zfs_rangelock_exit(): the handle leaves the tree, or the proxies that   *)
(* stand for it are counted down and those at zero leave it.               *)
zfs_rangelock_exit(t) ==
    LET lr == rl_lr[t]
        own == rl_tree[lr.off].lr = t
        mine == IF own THEN {lr.off}
                       ELSE {o \in DOMAIN rl_tree : lr.off <= o /\ o < lr.off + lr.len}
        gone == {o \in mine : rl_tree[o].count = 1}
    IN
    /\ rl_tree' = [o \in DOMAIN rl_tree \ gone |->
                    IF o \in mine THEN [rl_tree[o] EXCEPT !.count = @ - 1] ELSE rl_tree[o]]
    /\ RlWake(gone)
    /\ rl_lr' = [rl_lr EXCEPT ![t] = Unlocked]

(* zfs_rangelock_reduce(), with rl_lock: the only node gets another range; *)
(* the broadcasts follow without the lock.                                 *)
zfs_rangelock_reduce(t, off, len) ==
    /\ rl_tree' = off :> [rl_tree[0] EXCEPT !.len = len]
    /\ rl_lr' = [rl_lr EXCEPT ![t] = [@ EXCEPT !.off = off, !.len = len]]
    /\ rl_cv' = [u \in Procs |-> IF rl_cv[u].at = 0 THEN [rl_cv[u] EXCEPT !.at = off]
                                                      ELSE rl_cv[u]]

-----------------------------------------------------------------------------
Covers(lr, x) == lr.off <= x /\ x < lr.off + lr.len

(* What the tree stands for: at every offset there is one node for all the *)
(* handles that cover it, counting them, and more than one only if all are *)
(* readers'.  So a writer is alone in its range, and splitting, counting   *)
(* and filling of gaps in zfs_rangelock_add_reader() lose or invent no     *)
(* lock, whatever the order of overlapping readers that come and go.       *)
RlTreeExact ==
    \A x \in 0..UINT64_MAX - 1 :
        LET holders == {t \in Procs : Covers(rl_lr[t], x)}
            nodes == {o \in DOMAIN rl_tree : o <= x /\ x < EndOf(rl_tree, o)}
        IN
        /\ Cardinality(nodes) = (IF holders = {} THEN 0 ELSE 1)
        /\ \A o \in nodes :
            /\ rl_tree[o].count = Cardinality(holders)
            /\ \A t \in holders : rl_tree[o].type = rl_lr[t].type
            /\ rl_tree[o].type = "writer" => Cardinality(holders) = 1

(* Who sleeps will be woken: the node it sleeps on is in the tree, marked  *)
(* as wanted, so that whoever is the last to leave it broadcasts; a node   *)
(* with sleepers is never replaced by proxies (zfs_rangelock_proxify() and *)
(* zfs_rangelock_split() assert it).                                       *)
RlSleepersAwaited ==
    \A t \in Procs : rl_cv[t] # Awake =>
        /\ rl_cv[t].at \in DOMAIN rl_tree
        /\ IF rl_cv[t].cv = "write" THEN rl_tree[rl_cv[t].at].write_wanted
                                    ELSE rl_tree[rl_cv[t].at].read_wanted
=============================================================================
