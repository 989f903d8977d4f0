------------------------------- MODULE ZplFile -------------------------------
(***************************************************************************)
(* Reads, writes and changes of the size of one file (zfs_write(),         *)
(* zfs_read(), zfs_trunc(), zfs_extend() and zfs_free_range()), which hold *)
(* the file together by range locks; z_size is changed under them and read *)
(* without a lock.                                                         *)
(*                                                                         *)
(* The file is a few cells of SPA_MINBLOCKSIZE; z_data has a mark for each *)
(* cell, which every write of it changes, or Hole.  Transactions, quotas,  *)
(* timestamps and the intent log are left out but for the errors they      *)
(* return.                                                                 *)
(***************************************************************************)
EXTENDS RangeLock

CONSTANTS
    MaxFileSize,        \* stands for the limit MAXOFFSET_T
    z_max_blksz,        \* in cells, a power of two
    FileOps,            \* bound: sets of calls; a behaviour has those of one set
    Exceptions          \* whether copying the caller's data may raise an exception

Cells == 0..MaxFileSize - 1

ASSUME FileAssumption ==
    /\ MaxFileSize \in Nat /\ UINT64_MAX \in Nat /\ UINT64_MAX > 2 * MaxFileSize
    /\ z_max_blksz \in Nat \ {0}
    /\ \A ops \in FileOps : ops \subseteq
        [kind : {"read", "write", "append", "trunc", "extend", "free"},
         off : 0..MaxFileSize, n : 0..MaxFileSize]
    /\ Exceptions \in BOOLEAN

VARIABLES z_size, z_blksz, z_data,
    zf_pc,              \* where each thread is in its call
    zf_op,              \* the call: what is left to be done, from off on
    zf_ops              \* the calls of this behaviour

rlVars == <<rl_tree, rl_lr, rl_cv>>
znodeVars == <<z_size, z_blksz, z_data>>
fileVars == <<rlVars, znodeVars, zf_pc, zf_op, zf_ops>>

ISP2(x) == \E k \in 0..x : x = 2^k

Hole == 0
NoOp == [kind |-> "read", off |-> 0, n |-> 0]

(* A file of one block, or one of several blocks of the size that was the  *)
(* largest when it grew to more than one.                                  *)
FileInit ==
    /\ RlInit
    /\ z_size \in 0..MaxFileSize
    /\ z_blksz \in {1, z_max_blksz}
    /\ z_data = [x \in Cells |-> IF x < z_size THEN 1 ELSE Hole]
    /\ zf_pc = [t \in Procs |-> "idle"]
    /\ zf_op = [t \in Procs |-> NoOp]
    /\ zf_ops \in FileOps

FileGoto(t, l) == zf_pc' = [zf_pc EXCEPT ![t] = l]

-----------------------------------------------------------------------------
FileCall(t, op) ==
    /\ zf_pc[t] = "idle"
    /\ zf_op' = [zf_op EXCEPT ![t] = op]
    /\ FileGoto(t, "enter")
    /\ UNCHANGED <<rlVars, znodeVars>>

(* zfs_rangelock_cb(): what a writer really locks.                         *)
zfs_rangelock_cb(off, len) ==
    LET end_size == Max({z_size, off + len}) IN
    IF end_size > z_blksz /\ (~ISP2(z_blksz) \/ z_blksz < z_max_blksz)
    THEN [off |-> 0, len |-> UINT64_MAX]
    ELSE [off |-> off, len |-> len]

(* Mutant: the end of the file is the one the caller saw before it waited. *)
AppendRangeStale(t) == zfs_rangelock_cb(zf_op[t].off, zf_op[t].n)

(* An append begins at the end the file has now.                           *)
AppendRange(t) == zfs_rangelock_cb(z_size, zf_op[t].n)

(* zfs_trunc() and zfs_extend(): "We will change zp_size, lock the whole   *)
(* file."                                                                  *)
WholeFile(t) == zfs_rangelock_cb(0, UINT64_MAX)

WriterRange(t) ==
    CASE zf_op[t].kind = "append" -> AppendRange(t)
      [] zf_op[t].kind \in {"trunc", "extend"} -> WholeFile(t)
      [] OTHER -> zfs_rangelock_cb(zf_op[t].off, zf_op[t].n)

(* The lock has been granted: an append that has locked the whole file     *)
(* writes at its end, and nothing is written beyond the limit.             *)
WriteFrom(t) ==
    LET op == zf_op[t]
        woff == CASE op.kind # "append" -> op.off
                  [] rl_lr'[t].len = UINT64_MAX -> z_size
                  [] OTHER -> rl_lr'[t].off
    IN [op EXCEPT !.off = woff, !.n = Min({@, MaxFileSize - woff})]

(* zfs_rangelock_enter(), once more after each wait.                       *)
FileEnter(t) ==
    LET op == zf_op[t] IN
    /\ zf_pc[t] = "enter"
    /\ rl_cv[t] = Awake
    /\ IF op.kind = "read"
       THEN RlEnterReader(t, op.off, op.n)
       ELSE RlEnterWriter(t, WriterRange(t).off, WriterRange(t).len)
    /\ zf_op' = IF op.kind \in {"write", "append"} /\ rl_lr'[t] # Unlocked
                THEN [zf_op EXCEPT ![t] = WriteFrom(t)] ELSE zf_op
    /\ zf_pc' = [zf_pc EXCEPT ![t] =
                  CASE rl_lr'[t] = Unlocked -> @
                    [] op.kind \in {"write", "append"} /\ zf_op'[t].n = 0 -> "exit"
                    [] OTHER -> "locked"]
    /\ UNCHANGED znodeVars

(* zfs_grow_blocksize(): not once there is more than one block.            *)
zfs_grow_blocksize(size) ==
    z_blksz' = IF size <= z_blksz \/ z_size > z_blksz THEN z_blksz ELSE size

(* zfs_write() with the whole file locked: lets the block grow, reduces    *)
(* the lock to what is written, ...                                        *)
WriteGrow(t) ==
    LET op == zf_op[t]
        end_size == Max({z_size, op.off + op.n})
    IN
    /\ zf_pc[t] = "locked" /\ op.kind \in {"write", "append"}
    /\ rl_lr[t].len = UINT64_MAX
    /\ zfs_grow_blocksize(Max({z_blksz, Min({z_max_blksz, end_size})}))
    /\ zfs_rangelock_reduce(t, op.off, op.n)
    /\ FileGoto(t, "reduced")
    /\ UNCHANGED <<z_size, z_data, zf_op>>

(* ... and wakes those that wait for the rest.                             *)
WriteReduced(t) ==
    /\ zf_pc[t] = "reduced"
    /\ RlWake({rl_lr[t].off})
    /\ FileGoto(t, "locked")
    /\ UNCHANGED <<rl_tree, rl_lr, znodeVars, zf_op>>

(* One transaction of zfs_write(): k cells are copied.  An exception in    *)
(* the middle ends the call at once, ...                                   *)
WriteData(t, k) ==
    LET op == zf_op[t] IN
    /\ zf_pc[t] = "locked" /\ op.kind \in {"write", "append"}
    /\ rl_lr[t].len # UINT64_MAX
    /\ k \in 1..op.n
    /\ z_data' = [x \in Cells |->
                    IF x \in op.off..op.off + k - 1 THEN (z_data[x] % 2) + 1 ELSE z_data[x]]
    /\ zf_op' = [zf_op EXCEPT ![t] = [@ EXCEPT !.off = @ + k, !.n = @ - k]]
    /\ \/ FileGoto(t, "size")
       \/ Exceptions /\ k < op.n /\ FileGoto(t, "exit")
    /\ UNCHANGED <<rlVars, z_size, z_blksz>>

(* Mutant: the size is what was written last.                              *)
WriteSizeSet(t) ==
    /\ zf_pc[t] = "size"
    /\ z_size' = zf_op[t].off
    /\ \/ zf_op[t].n > 0 /\ FileGoto(t, "locked")
       \/ FileGoto(t, "exit")
    /\ UNCHANGED <<rlVars, z_blksz, z_data, zf_op>>

(* ... otherwise z_size is raised to where it got by now, and it goes on   *)
(* with the rest or ends with an error or at the end.                      *)
WriteSize(t) ==
    /\ zf_pc[t] = "size"
    /\ z_size' = Max({z_size, zf_op[t].off})
    /\ \/ zf_op[t].n > 0 /\ FileGoto(t, "locked")
       \/ FileGoto(t, "exit")
    /\ UNCHANGED <<rlVars, z_blksz, z_data, zf_op>>

(* zfs_trunc(): frees what is beyond the new end, ...                      *)
TruncFree(t) ==
    /\ zf_pc[t] = "locked" /\ zf_op[t].kind = "trunc"
    /\ zf_op[t].off < z_size
    /\ z_data' = [x \in Cells |-> IF x >= zf_op[t].off THEN Hole ELSE z_data[x]]
    /\ FileGoto(t, "trunc_size")
    /\ UNCHANGED <<rlVars, z_size, z_blksz, zf_op>>

(* ... then changes the size.                                              *)
TruncSize(t) ==
    /\ zf_pc[t] = "trunc_size"
    /\ z_size' = zf_op[t].off
    /\ FileGoto(t, "exit")
    /\ UNCHANGED <<rlVars, z_blksz, z_data, zf_op>>

zfs_extend(t) ==
    LET end == zf_op[t].off IN
    /\ zf_pc[t] = "locked" /\ zf_op[t].kind = "extend"
    /\ end > z_size
    /\ IF end > z_blksz /\ (~ISP2(z_blksz) \/ z_blksz < z_max_blksz)
       THEN zfs_grow_blocksize(Min({end, z_max_blksz})) ELSE UNCHANGED z_blksz
    /\ z_size' = end
    /\ FileGoto(t, "exit")
    /\ UNCHANGED <<rlVars, z_data, zf_op>>

zfs_free_range(t) ==
    /\ zf_pc[t] = "locked" /\ zf_op[t].kind = "free"
    /\ zf_op[t].off < z_size
    /\ z_data' = [x \in Cells |->
                    IF x >= zf_op[t].off /\ x < Min({z_size, zf_op[t].off + zf_op[t].n})
                    THEN Hole ELSE z_data[x]]
    /\ FileGoto(t, "exit")
    /\ UNCHANGED <<rlVars, z_size, z_blksz, zf_op>>

(* The end of every call: after a read, with nothing to do, or on error.   *)
FileExit(t) ==
    /\ zf_pc[t] \in {"locked", "trunc_size", "exit"}
    /\ zfs_rangelock_exit(t)
    /\ FileGoto(t, "idle")
    /\ zf_op' = [zf_op EXCEPT ![t] = NoOp]
    /\ UNCHANGED znodeVars

FileNext ==
    /\ UNCHANGED zf_ops
    /\ \E t \in Procs :
        \/ \E op \in zf_ops : FileCall(t, op)
        \/ FileEnter(t) \/ WriteGrow(t) \/ WriteReduced(t)
        \/ \E k \in 1..MaxFileSize : WriteData(t, k)
        \/ WriteSize(t) \/ TruncFree(t) \/ TruncSize(t)
        \/ zfs_extend(t) \/ zfs_free_range(t) \/ FileExit(t)

FileSpec == FileInit /\ [][FileNext]_fileVars

-----------------------------------------------------------------------------
FileTypeOK ==
    /\ z_size \in 0..MaxFileSize /\ z_blksz \in 1..z_max_blksz
    /\ z_data \in [Cells -> {Hole, 1, 2}]
    /\ zf_pc \in [Procs -> {"idle", "enter", "locked", "reduced", "size",
                             "trunc_size", "exit"}]
    /\ \A t \in Procs : zf_op[t].off \in 0..MaxFileSize /\ zf_op[t].n \in 0..MaxFileSize
    /\ DOMAIN rl_tree \subseteq 0..2 * MaxFileSize

(* Nothing is left beyond the end of the file, where a later extension     *)
(* would show it: a cell beyond z_size has data only while the write that  *)
(* put it there still has its lock and has not come to the size yet.       *)
NothingBeyondEof ==
    /\ FileTypeOK
    /\ \A x \in Cells : x >= z_size /\ z_data[x] # Hole =>
        \E t \in Procs : zf_pc[t] = "size" /\ Covers(rl_lr[t], x)

(* "Obtain an appending range lock to guarantee file append semantics":    *)
(* what an append is going to write is written nowhere yet, although the   *)
(* end of the file was elsewhere when the call began to wait, and may move *)
(* on by a write further out while it writes.                              *)
AppendsFresh ==
    \A t \in Procs : zf_op[t].kind = "append" /\ zf_pc[t] \in {"locked", "reduced"} =>
        \A x \in zf_op[t].off..zf_op[t].off + zf_op[t].n - 1 : z_data[x] = Hole

(* zfs_write(): "Note that zp_size cannot change with this lock held."     *)
(* While a thread has the whole file locked nobody else changes the size   *)
(* or the block size, and what a reader has locked does not change.        *)
LockedIsStable ==
    [][znodeVars' # znodeVars =>
        \A t \in Procs :
            /\ rl_lr[t].len = UINT64_MAX => zf_pc'[t] # zf_pc[t]
            /\ rl_lr[t].type = "reader" =>
                \A x \in Cells : Covers(rl_lr[t], x) => z_data'[x] = z_data[x]]_fileVars
=============================================================================
