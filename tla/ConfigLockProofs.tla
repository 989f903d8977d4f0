--------------------------- MODULE ConfigLockProofs ---------------------------
(***************************************************************************)
(* The configuration locks of a pool for any number of locks, threads and  *)
(* I/Os that hold them.                                                    *)
(*                                                                         *)
(* The invariant says what the count of a lock counts, where in the array  *)
(* a call is, and that a call wants only locks behind those its thread     *)
(* has.  Deadlock is then impossible by the highest lock somebody sleeps   *)
(* on: who has it, or goes before others there, does not sleep.            *)
(***************************************************************************)
EXTENDS ConfigLock, FiniteSetTheorems, WellFoundedInduction, TLAPS

(* The holders of a lock.                                                  *)
SclReaders(i) == {t \in Procs : i \in scl_read[t]}
SclWriters(i) == {t \in Procs : i \in scl_write[t]}

(* SclExclusion, for one lock.                                             *)
SclHolders(i) ==
    /\ scl_count[i] = Cardinality(SclReaders(i)) + Cardinality(SclWriters(i)) + scl_io[i]
    /\ SclWriters(i) # {} => scl_count[i] = 1 /\ SclWriters(i) = {scl_writer[i]}
    /\ SclWriters(i) = {} => scl_writer[i] = NoProc

(* Where a thread is in its call, and on which lock it sleeps.             *)
SclCalls ==
    \A t \in Procs :
        /\ scl_op[t] # "none" => scl_todo[t] # {}
        /\ scl_op[t] = "exit" => scl_todo[t] \subseteq SclHeld(t)
        /\ scl_op[t] \in Readers \cup Writers =>
            /\ \A i \in scl_todo[t], j \in SclHeld(t) : j < i
            /\ scl_locks[t] \ scl_todo[t] \subseteq SclHeld(t)
        /\ \A i \in Scls : t \in scl_cv[i] =>
            scl_op[t] \in {"reader", "mmp", "writer"} /\ SclNextLock(t) = i

SclOneMode == \A t \in Procs : scl_read[t] \cap scl_write[t] = {}

SclInd == SclTypeOK /\ SclCalls /\ SclOneMode /\ SclExclusion /\ SclSleepersWait

-----------------------------------------------------------------------------
(* A set of natural numbers that is not empty has a smallest element.      *)
LEMMA NatMin ==
  ASSUME NEW S \in SUBSET Nat, S # {}
  PROVE  \E x \in S : \A y \in S : x <= y
  <1>1. PICK x \in S : \A y \in S : ~(<<y, x>> \in OpToRel(<, Nat))
    BY NatLessThanWellFounded, WFMin, Zenon
  <1>2. \A y \in S : ~(y < x)
    BY <1>1 DEF OpToRel
  <1> QED BY <1>2

(* The locks a call has still to go through have a first ...               *)
LEMMA SclMin ==
  ASSUME NEW S \in SUBSET Scls, S # {}
  PROVE  Min(S) \in S /\ \A y \in S : Min(S) <= y
  <1>1. S \in SUBSET Nat
    BY SclAssumption DEF Scls
  <1>2. \E x \in S : \A y \in S : x <= y
    BY <1>1, NatMin
  <1> QED BY <1>2 DEF Min

(* ... and a last.                                                         *)
LEMMA SclMax ==
  ASSUME NEW S \in SUBSET Scls, S # {}
  PROVE  Max(S) \in S /\ \A y \in S : Max(S) >= y
  <1> DEFINE T == {k \in Nat : SCL_LOCKS - k \in S}
  <1>1. \A y \in S : y \in Int /\ SCL_LOCKS - y \in T
    BY SclAssumption DEF Scls
  <1>2. PICK k \in T : \A j \in T : k <= j
    <2>1. T \in SUBSET Nat /\ T # {}
      BY <1>1
    <2> HIDE DEF T
    <2> QED BY <2>1, NatMin
  <1>3. SCL_LOCKS - k \in S /\ \A y \in S : SCL_LOCKS - k >= y
    BY <1>1, <1>2, SclAssumption
  <1> QED BY <1>3 DEF Max

(* SclExclusion is about each lock.                                        *)
LEMMA SclExclusionAll == SclExclusion <=> \A i \in Scls : SclHolders(i)
  BY DEF SclExclusion, SclHolders, SclReaders, SclWriters

(* The holders of a lock can be counted.                                   *)
LEMMA SclFinite ==
  ASSUME NEW i \in Scls
  PROVE  /\ IsFiniteSet(SclReaders(i)) /\ Cardinality(SclReaders(i)) \in Nat
         /\ IsFiniteSet(SclWriters(i)) /\ Cardinality(SclWriters(i)) \in Nat
         /\ Cardinality(SclReaders(i)) = 0 <=> SclReaders(i) = {}
         /\ Cardinality(SclWriters(i)) = 0 <=> SclWriters(i) = {}
  <1>1. SclReaders(i) \in SUBSET Procs /\ SclWriters(i) \in SUBSET Procs
    BY DEF SclReaders, SclWriters
  <1>2. IsFiniteSet(SclReaders(i)) /\ IsFiniteSet(SclWriters(i))
    BY <1>1, ClientsAssumption, FS_Subset
  <1> QED BY <1>2, FS_CardinalityType, FS_EmptySet

(* The next lock of a call is one it has still to go through.              *)
LEMMA SclNextInTodo ==
  ASSUME SclInd, NEW t \in Procs, scl_op[t] # "none"
  PROVE  /\ SclNextLock(t) \in Scls /\ SclNextLock(t) \in scl_todo[t]
         /\ \A k \in scl_todo[t] : SclNextLock(t) <= k
  <1>1. scl_todo[t] \in SUBSET Scls /\ scl_todo[t] # {}
    BY DEF SclInd, SclTypeOK, SclCalls
  <1> QED BY <1>1, SclMin DEF SclNextLock

(* spa_config_lock_init() makes locks in which all of this holds.          *)
LEMMA SclIndInit == SclInit => SclInd
  <1> SUFFICES ASSUME SclInit PROVE SclInd
    OBVIOUS
  <1>1. SclTypeOK
    BY SclAssumption DEF SclInit, SclTypeOK, Readers, Writers
  <1>2. SclCalls /\ SclOneMode
    BY DEF SclInit, SclCalls, SclOneMode, Readers, Writers
  <1>3. SclExclusion
    <2>1. \A i \in Scls : SclReaders(i) = {} /\ SclWriters(i) = {}
      BY DEF SclInit, SclReaders, SclWriters
    <2>2. ASSUME NEW i \in Scls PROVE SclHolders(i)
      <3>1. Cardinality(SclReaders(i)) = 0 /\ Cardinality(SclWriters(i)) = 0
        BY <2>1, FS_EmptySet
      <3> QED BY <2>1, <3>1 DEF SclInit, SclHolders
    <2> QED BY <2>2, SclExclusionAll
  <1>4. SclSleepersWait
    BY FS_EmptySet DEF SclInit, SclSleepersWait
  <1> QED BY <1>1, <1>2, <1>3, <1>4 DEF SclInd

-----------------------------------------------------------------------------
(* A reader gets a lock without a writer, a writer one without holders.    *)
LEMMA SclTakeHolders ==
  ASSUME SclInd, NEW t \in Procs, NEW i \in Scls, i \notin SclHeld(t),
         scl_op[t] \in Readers \cup Writers, ~SclMustWait(t, i),
         SclTake(t, i), scl_io' = scl_io
  PROVE  SclExclusion'
  <1> SUFFICES ASSUME NEW k \in Scls PROVE SclHolders(k)'
    BY DEF SclExclusion, SclHolders, SclReaders, SclWriters
  <1>0. SclHolders(k) /\ SclHolders(i) /\ scl_io[i] \in Nat
    BY SclExclusionAll DEF SclInd, SclTypeOK
  <1>1. CASE k # i
    <2>1. SclReaders(k)' = SclReaders(k) /\ SclWriters(k)' = SclWriters(k)
      BY <1>1 DEF SclInd, SclTypeOK, SclTake, SclReaders, SclWriters
    <2>2. scl_count'[k] = scl_count[k] /\ scl_writer'[k] = scl_writer[k]
      BY <1>1 DEF SclInd, SclTypeOK, SclTake
    <2> QED BY <1>0, <2>1, <2>2 DEF SclHolders
  <1>2. CASE k = i /\ scl_op[t] \in Readers
    <2>1. scl_op[t] \notin Writers
      BY <1>2 DEF Readers, Writers
    <2>2. SclReaders(i)' = SclReaders(i) \cup {t} /\ t \notin SclReaders(i)
          /\ SclWriters(i)' = SclWriters(i)
      BY <2>1 DEF SclInd, SclTypeOK, SclTake, SclReaders, SclWriters, SclHeld
    <2>3. SclWriters(i) = {}
      <3>1. scl_writer[i] = NoProc
        BY <1>2 DEF SclMustWait
      <3> QED BY <1>0, <3>1, ClientsAssumption DEF SclHolders, SclWriters
    <2>4. scl_count'[i] = scl_count[i] + 1 /\ scl_writer'[i] = scl_writer[i]
      BY <2>1 DEF SclInd, SclTypeOK, SclTake
    <2>5. Cardinality(SclReaders(i) \cup {t}) = Cardinality(SclReaders(i)) + 1
      BY <2>2, SclFinite, FS_AddElement
    <2> QED BY <1>0, <1>2, <2>2, <2>3, <2>4, <2>5, SclFinite DEF SclHolders
  <1>3. CASE k = i /\ scl_op[t] \in Writers
    <2>1. scl_op[t] \notin Readers
      BY <1>3 DEF Readers, Writers
    <2>2. scl_count[i] = 0
      BY <2>1 DEF SclMustWait
    <2>3. SclReaders(i) = {} /\ SclWriters(i) = {} /\ scl_io[i] = 0
      BY <1>0, <2>2, SclFinite DEF SclHolders
    <2>4. SclReaders(i)' = {} /\ SclWriters(i)' = {t}
      BY <1>3, <2>3 DEF SclInd, SclTypeOK, SclTake, SclReaders, SclWriters
    <2>5. scl_count'[i] = 1 /\ scl_writer'[i] = t
      BY <1>3, <2>2 DEF SclInd, SclTypeOK, SclTake
    <2>6. Cardinality({}) = 0 /\ Cardinality({t}) = 1
      BY FS_EmptySet, FS_Singleton
    <2> QED BY <1>3, <2>3, <2>4, <2>5, <2>6 DEF SclHolders
  <1> QED BY <1>1, <1>2, <1>3

(* One lock of a call is taken.                                            *)
LEMMA SclTakeKeeps ==
  ASSUME SclInd, NEW t \in Procs, NEW i \in Scls, i = SclNextLock(t),
         scl_op[t] \in Readers \cup Writers, ~SclMustWait(t, i), t \notin scl_cv[i],
         SclTake(t, i), scl_io' = scl_io, scl_cv' = scl_cv,
         scl_waits' = [scl_waits EXCEPT ![i] = @ \ {t}],
         scl_write_wanted' = [scl_write_wanted EXCEPT ![i] =
                               IF t \in scl_waits[i] THEN @ - 1 ELSE @]
  PROVE  SclInd'
  <1>0. scl_op[t] \notin {"none", "exit"}
    BY DEF Readers, Writers
  <1>1. i \in scl_todo[t] /\ \A k \in scl_todo[t] : i <= k
    BY <1>0, SclNextInTodo
  <1>2. i \notin SclHeld(t) /\ \A j \in SclHeld(t) : j < i
    BY <1>1, SclAssumption DEF SclInd, SclCalls, Scls
  <1>3. SclExclusion'
    BY <1>2, SclTakeHolders
  <1>a. IsFiniteSet(scl_waits[i]) /\ scl_write_wanted[i] = Cardinality(scl_waits[i])
        /\ scl_write_wanted[i] \in Nat
    BY ClientsAssumption, FS_Subset DEF SclInd, SclTypeOK, SclSleepersWait
  <1>b. Cardinality(scl_waits[i] \ {t}) =
            (IF t \in scl_waits[i] THEN scl_write_wanted[i] - 1 ELSE scl_write_wanted[i])
        /\ Cardinality(scl_waits[i] \ {t}) \in Nat
    BY <1>a, FS_RemoveElement, FS_CardinalityType
  <1>4. SclTypeOK'
    <2>1. scl_write_wanted' \in [Scls -> Nat]
      BY <1>b DEF SclInd, SclTypeOK
    <2>2. /\ scl_count' \in [Scls -> Nat] /\ scl_writer' \in [Scls -> Procs \cup {NoProc}]
          /\ scl_read' \in [Procs -> SUBSET Scls] /\ scl_write' \in [Procs -> SUBSET Scls]
      <3>1. scl_count' \in [Scls -> Nat]
        BY DEF SclInd, SclTypeOK, SclTake
      <3>2. CASE scl_op[t] \in Writers
        BY <3>1, <3>2 DEF SclInd, SclTypeOK, SclTake
      <3>3. CASE scl_op[t] \notin Writers
        BY <3>1, <3>3 DEF SclInd, SclTypeOK, SclTake
      <3> QED BY <3>2, <3>3
    <2>3. /\ scl_op' \in [Procs -> Readers \cup Writers \cup {"none", "exit"}]
          /\ scl_locks' \in [Procs -> SUBSET Scls] /\ scl_todo' \in [Procs -> SUBSET Scls]
      BY DEF SclInd, SclTypeOK, SclTake
    <2> QED BY <2>1, <2>2, <2>3 DEF SclInd, SclTypeOK
  <1>c. \A u \in Procs : u # t =>
            /\ scl_op'[u] = scl_op[u] /\ scl_todo'[u] = scl_todo[u]
            /\ scl_locks'[u] = scl_locks[u]
            /\ scl_read'[u] = scl_read[u] /\ scl_write'[u] = scl_write[u]
    BY DEF SclInd, SclTypeOK, SclTake
  <1>d. \A k \in Scls : t \notin scl_cv[k]
    BY DEF SclInd, SclCalls
  <1>5. SclOneMode'
    <2>1. scl_read'[t] \cap scl_write'[t] = {}
      BY <1>2 DEF SclInd, SclTypeOK, SclOneMode, SclTake, SclHeld
    <2> QED BY <1>c, <2>1 DEF SclInd, SclOneMode
  <1>6. SclCalls'
    <2> SUFFICES ASSUME NEW u \in Procs
                 PROVE  /\ scl_op'[u] # "none" => scl_todo'[u] # {}
                        /\ scl_op'[u] = "exit" => scl_todo'[u] \subseteq SclHeld(u)'
                        /\ scl_op'[u] \in Readers \cup Writers =>
                            /\ \A k \in scl_todo'[u], j \in SclHeld(u)' : j < k
                            /\ scl_locks'[u] \ scl_todo'[u] \subseteq SclHeld(u)'
                        /\ \A k \in Scls : u \in scl_cv'[k] =>
                            scl_op'[u] \in {"reader", "mmp", "writer"} /\ SclNextLock(u)' = k
      BY DEF SclCalls
    <2>1. CASE u # t
      <3>1. SclHeld(u)' = SclHeld(u) /\ SclNextLock(u)' = SclNextLock(u)
        BY <1>c, <2>1 DEF SclHeld, SclNextLock
      <3> QED BY <1>c, <2>1, <3>1 DEF SclInd, SclCalls
    <2>2. CASE u = t
      <3>1. scl_todo'[t] = scl_todo[t] \ {i} /\ SclHeld(t)' = SclHeld(t) \cup {i}
        BY DEF SclInd, SclTypeOK, SclTake, SclHeld
      <3>2. scl_op'[t] = IF scl_todo[t] = {i} THEN "none" ELSE scl_op[t]
        BY DEF SclInd, SclTypeOK, SclTake
      <3>3. scl_locks'[t] \subseteq scl_locks[t]
        BY DEF SclInd, SclTypeOK, SclTake
      <3>4. /\ \A k \in scl_todo[t], j \in SclHeld(t) : j < k
            /\ scl_locks[t] \ scl_todo[t] \subseteq SclHeld(t)
        BY DEF SclInd, SclCalls
      <3>5. \A k \in scl_todo[t] \ {i} : i < k
        BY <1>1, SclAssumption DEF SclInd, SclTypeOK, Scls
      <3>6. scl_op'[t] # "none" => scl_todo'[t] # {}
        BY <1>1, <3>1, <3>2
      <3>7. \A k \in scl_todo'[t], j \in SclHeld(t)' : j < k
        BY <3>1, <3>4, <3>5
      <3>8. scl_locks'[t] \ scl_todo'[t] \subseteq SclHeld(t)'
        BY <3>1, <3>3, <3>4
      <3> QED BY <1>0, <1>d, <2>2, <3>2, <3>6, <3>7, <3>8
    <2> QED BY <2>1, <2>2
  <1>7. SclSleepersWait'
    <2> SUFFICES ASSUME NEW k \in Scls
                 PROVE  /\ \A u \in scl_cv'[k] : SclMustWait(u, k)'
                        /\ scl_write_wanted'[k] = Cardinality(scl_waits'[k])
                        /\ \A u \in scl_waits'[k] : scl_op'[u] = "writer" /\ SclNextLock(u)' = k
      BY DEF SclSleepersWait
    <2>1. ASSUME NEW u \in scl_cv'[k] PROVE SclMustWait(u, k)'
      <3>1. u \in Procs /\ u # t /\ SclMustWait(u, k) /\ scl_op'[u] = scl_op[u]
        BY <1>c, <1>d DEF SclInd, SclTypeOK, SclSleepersWait
      <3>2. CASE k # i
        <4>1. scl_count'[k] = scl_count[k] /\ scl_writer'[k] = scl_writer[k]
              /\ scl_write_wanted'[k] = scl_write_wanted[k]
          BY <3>2 DEF SclInd, SclTypeOK, SclTake
        <4> QED BY <3>1, <4>1 DEF SclMustWait
      <3>3. CASE k = i
        <4>1. scl_count'[i] # 0
          BY DEF SclInd, SclTypeOK, SclTake
        <4>2. CASE scl_op[t] \in Writers
          <5>1. scl_writer'[i] # NoProc
            BY <4>2, ClientsAssumption DEF SclInd, SclTypeOK, SclTake
          <5> QED BY <3>3, <4>1, <5>1 DEF SclMustWait
        <4>3. CASE scl_op[t] \in Readers
          <5>1. scl_op[t] \notin Writers /\ scl_op[t] # "writer"
            BY <4>3 DEF Readers, Writers
          <5>2. t \notin scl_waits[i]
            BY <5>1 DEF SclInd, SclSleepersWait
          <5>3. scl_writer'[i] = scl_writer[i] /\ scl_write_wanted'[i] = scl_write_wanted[i]
            BY <5>1, <5>2 DEF SclInd, SclTypeOK, SclTake
          <5> QED BY <3>1, <3>3, <4>1, <5>3 DEF SclMustWait
        <4> QED BY <4>2, <4>3
      <3> QED BY <3>2, <3>3
    <2>2. scl_write_wanted'[k] = Cardinality(scl_waits'[k])
      BY <1>b DEF SclInd, SclTypeOK, SclSleepersWait
    <2>3. ASSUME NEW u \in scl_waits'[k]
          PROVE  scl_op'[u] = "writer" /\ SclNextLock(u)' = k
      <3>1. u \in Procs /\ u \in scl_waits[k] /\ (k = i => u # t)
        BY <2>3 DEF SclInd, SclTypeOK
      <3>2. scl_op[u] = "writer" /\ SclNextLock(u) = k
        BY <3>1 DEF SclInd, SclSleepersWait
      <3>3. u # t
        BY <3>1, <3>2
      <3> QED BY <1>c, <3>1, <3>2, <3>3 DEF SclNextLock
    <2> QED BY <2>1, <2>2, <2>3
  <1> QED BY <1>3, <1>4, <1>5, <1>6, <1>7 DEF SclInd

(* A call sleeps on a lock, and a writer holds back readers there.         *)
LEMMA SclSleepKeeps ==
  ASSUME SclInd, NEW t \in Procs, spa_config_enter_impl(t), SclMustWait(t, SclNextLock(t))
  PROVE  SclInd'
  <1> DEFINE i == SclNextLock(t)
             writer == scl_op[t] = "writer"
             counted == t \in scl_waits[i]
  <1>0. scl_op[t] \in {"reader", "mmp", "writer"} /\ i \in Scls
    BY SclNextInTodo DEF spa_config_enter_impl
  <1>a. /\ scl_cv' = [scl_cv EXCEPT ![i] = @ \cup {t}]
        /\ scl_waits' = IF writer THEN [scl_waits EXCEPT ![i] = @ \cup {t}] ELSE scl_waits
        /\ scl_write_wanted' = [scl_write_wanted EXCEPT ![i] =
                                 IF writer /\ ~counted THEN @ + 1 ELSE @]
        /\ UNCHANGED <<scl_count, scl_writer, scl_op, scl_locks, scl_todo, scl_read,
                       scl_write, scl_io>>
    BY DEF spa_config_enter_impl
  <1>b. IsFiniteSet(scl_waits[i]) /\ scl_write_wanted[i] = Cardinality(scl_waits[i])
        /\ scl_write_wanted[i] \in Nat
    BY <1>0, ClientsAssumption, FS_Subset DEF SclInd, SclTypeOK, SclSleepersWait
  <1>c. Cardinality(scl_waits[i] \cup {t}) =
            (IF counted THEN scl_write_wanted[i] ELSE scl_write_wanted[i] + 1)
    BY <1>b, FS_AddElement
  <1>d. \A u \in Procs : SclNextLock(u)' = SclNextLock(u) /\ SclHeld(u)' = SclHeld(u)
    BY <1>a DEF SclNextLock, SclHeld
  <1> HIDE DEF i, writer, counted
  <1>1. SclTypeOK'
    <2>1. scl_waits' \in [Scls -> SUBSET Procs] /\ scl_cv' \in [Scls -> SUBSET Procs]
      BY <1>0, <1>a DEF SclInd, SclTypeOK
    <2>2. scl_write_wanted' \in [Scls -> Nat]
      BY <1>0, <1>a, <1>b DEF SclInd, SclTypeOK
    <2> QED BY <1>a, <2>1, <2>2 DEF SclInd, SclTypeOK
  <1>2. SclOneMode' /\ SclExclusion'
    BY <1>a DEF SclInd, SclOneMode, SclExclusion
  <1>3. SclCalls'
    <2> SUFFICES ASSUME NEW u \in Procs
                 PROVE  /\ scl_op'[u] # "none" => scl_todo'[u] # {}
                        /\ scl_op'[u] = "exit" => scl_todo'[u] \subseteq SclHeld(u)'
                        /\ scl_op'[u] \in Readers \cup Writers =>
                            /\ \A k \in scl_todo'[u], j \in SclHeld(u)' : j < k
                            /\ scl_locks'[u] \ scl_todo'[u] \subseteq SclHeld(u)'
                        /\ \A k \in Scls : u \in scl_cv'[k] =>
                            scl_op'[u] \in {"reader", "mmp", "writer"} /\ SclNextLock(u)' = k
      BY DEF SclCalls
    <2>1. u \in scl_cv'[i] => u \in scl_cv[i] \/ u = t
      BY <1>0, <1>a DEF SclInd, SclTypeOK
    <2>2. \A k \in Scls : k # i => scl_cv'[k] = scl_cv[k]
      BY <1>0, <1>a DEF SclInd, SclTypeOK
    <2>3. \A k \in Scls : u \in scl_cv'[k] =>
              scl_op[u] \in {"reader", "mmp", "writer"} /\ SclNextLock(u) = k
      BY <1>0, <2>1, <2>2 DEF SclInd, SclCalls, i
    <2> QED BY <1>a, <1>d, <2>3 DEF SclInd, SclCalls
  <1>4. SclSleepersWait'
    <2> SUFFICES ASSUME NEW k \in Scls
                 PROVE  /\ \A u \in scl_cv'[k] : SclMustWait(u, k)'
                        /\ scl_write_wanted'[k] = Cardinality(scl_waits'[k])
                        /\ \A u \in scl_waits'[k] : scl_op'[u] = "writer" /\ SclNextLock(u)' = k
      BY DEF SclSleepersWait
    <2>1. CASE k # i
      <3>1. scl_cv'[k] = scl_cv[k] /\ scl_write_wanted'[k] = scl_write_wanted[k]
            /\ scl_waits'[k] = scl_waits[k]
        BY <1>0, <1>a, <2>1 DEF SclInd, SclTypeOK
      <3> QED BY <1>a, <1>d, <3>1 DEF SclInd, SclTypeOK, SclSleepersWait, SclMustWait
    <2>2. CASE k = i
      <3>1. scl_cv'[i] = scl_cv[i] \cup {t}
            /\ (scl_write_wanted[i] # 0 => scl_write_wanted'[i] # 0)
        BY <1>0, <1>a, <1>b DEF SclInd, SclTypeOK
      <3>2. \A u \in scl_cv'[k] : SclMustWait(u, k) /\ u \in Procs
        BY <1>0, <2>2, <3>1 DEF SclInd, SclTypeOK, SclSleepersWait, i
      <3>3. \A u \in scl_cv'[k] : SclMustWait(u, k)'
        BY <1>a, <2>2, <3>1, <3>2 DEF SclMustWait
      <3>4. scl_write_wanted'[i] = Cardinality(scl_waits'[i])
        BY <1>0, <1>a, <1>b, <1>c DEF SclInd, SclTypeOK
      <3>5. \A u \in scl_waits'[i] : u \in scl_waits[i] \/ (u = t /\ writer)
        BY <1>0, <1>a DEF SclInd, SclTypeOK
      <3>6. \A u \in scl_waits'[k] : scl_op[u] = "writer" /\ SclNextLock(u) = k /\ u \in Procs
        BY <1>0, <2>2, <3>5 DEF SclInd, SclTypeOK, SclSleepersWait, writer, i
      <3> QED BY <1>a, <1>d, <2>2, <3>3, <3>4, <3>6
    <2> QED BY <2>1, <2>2
  <1> QED BY <1>1, <1>2, <1>3, <1>4 DEF SclInd

(* One lock of spa_config_enter_impl().                                    *)
LEMMA SclEnterKeeps ==
  ASSUME SclInd, NEW t \in Procs, spa_config_enter_impl(t)
  PROVE  SclInd'
  <1>1. CASE SclMustWait(t, SclNextLock(t))
    BY <1>1, SclSleepKeeps
  <1>2. CASE ~SclMustWait(t, SclNextLock(t))
    <2>1. scl_op[t] \in Readers \cup Writers /\ SclNextLock(t) \in Scls
      BY SclNextInTodo DEF spa_config_enter_impl, Readers, Writers
    <2> QED BY <1>2, <2>1, SclTakeKeeps DEF spa_config_enter_impl
  <1> QED BY <1>1, <1>2

(* A call begins, and gives up, without a change to the locks.             *)
LEMMA SclCallChanged ==
  ASSUME SclInd, NEW t \in Procs, scl_op[t] \notin {"reader", "mmp", "writer"},
         NEW op \in Readers \cup Writers \cup {"none", "exit"},
         NEW locks \in SUBSET Scls, NEW todo \in SUBSET Scls,
         op # "none" => todo # {},
         op = "exit" => todo \subseteq SclHeld(t),
         op \in Readers \cup Writers =>
            (\A i \in todo, j \in SclHeld(t) : j < i) /\ locks \ todo \subseteq SclHeld(t),
         scl_op' = [scl_op EXCEPT ![t] = op],
         scl_locks' = [scl_locks EXCEPT ![t] = locks],
         scl_todo' = [scl_todo EXCEPT ![t] = todo],
         UNCHANGED <<sclLockVars, scl_waits, scl_read, scl_write, scl_io>>
  PROVE  SclInd'
  <1> USE DEF sclLockVars
  <1>1. SclTypeOK'
    BY DEF SclInd, SclTypeOK
  <1>2. SclOneMode' /\ SclExclusion'
    BY DEF SclInd, SclOneMode, SclExclusion
  <1>a. \A u \in Procs : u # t =>
            /\ scl_op'[u] = scl_op[u] /\ scl_todo'[u] = scl_todo[u]
            /\ scl_locks'[u] = scl_locks[u] /\ SclNextLock(u)' = SclNextLock(u)
    BY DEF SclInd, SclTypeOK, SclNextLock
  <1>b. scl_op'[t] = op /\ scl_todo'[t] = todo /\ scl_locks'[t] = locks
    BY DEF SclInd, SclTypeOK
  <1>c. \A u \in Procs : SclHeld(u)' = SclHeld(u)
    BY DEF SclHeld
  <1>d. \A k \in Scls : t \notin scl_cv[k] /\ t \notin scl_waits[k]
    BY DEF SclInd, SclCalls, SclSleepersWait
  <1>3. SclCalls'
    <2> SUFFICES ASSUME NEW u \in Procs
                 PROVE  /\ scl_op'[u] # "none" => scl_todo'[u] # {}
                        /\ scl_op'[u] = "exit" => scl_todo'[u] \subseteq SclHeld(u)'
                        /\ scl_op'[u] \in Readers \cup Writers =>
                            /\ \A k \in scl_todo'[u], j \in SclHeld(u)' : j < k
                            /\ scl_locks'[u] \ scl_todo'[u] \subseteq SclHeld(u)'
                        /\ \A k \in Scls : u \in scl_cv'[k] =>
                            scl_op'[u] \in {"reader", "mmp", "writer"} /\ SclNextLock(u)' = k
      BY DEF SclCalls
    <2>1. CASE u = t
      BY <1>b, <1>c, <1>d, <2>1
    <2>2. CASE u # t
      BY <1>a, <1>c, <2>2 DEF SclInd, SclCalls
    <2> QED BY <2>1, <2>2
  <1>4. SclSleepersWait'
    <2> SUFFICES ASSUME NEW k \in Scls
                 PROVE  /\ \A u \in scl_cv'[k] : SclMustWait(u, k)'
                        /\ scl_write_wanted'[k] = Cardinality(scl_waits'[k])
                        /\ \A u \in scl_waits'[k] : scl_op'[u] = "writer" /\ SclNextLock(u)' = k
      BY DEF SclSleepersWait
    <2>1. ASSUME NEW u \in scl_cv'[k] PROVE SclMustWait(u, k)'
      <3>1. u \in Procs /\ u # t /\ SclMustWait(u, k)
        BY <1>d DEF SclInd, SclTypeOK, SclSleepersWait
      <3> QED BY <1>a, <3>1 DEF SclMustWait
    <2>2. ASSUME NEW u \in scl_waits'[k]
          PROVE  scl_op'[u] = "writer" /\ SclNextLock(u)' = k
      <3>1. u \in Procs /\ u # t /\ scl_op[u] = "writer" /\ SclNextLock(u) = k
        BY <1>d DEF SclInd, SclTypeOK, SclSleepersWait
      <3> QED BY <1>a, <3>1
    <2>3. scl_write_wanted'[k] = Cardinality(scl_waits'[k])
      BY DEF SclInd, SclSleepersWait
    <2> QED BY <2>1, <2>2, <2>3
  <1> QED BY <1>1, <1>2, <1>3, <1>4 DEF SclInd

(* spa_config_enter() and spa_config_tryenter() begin.                     *)
LEMMA SclCallKeeps ==
  ASSUME SclInd, NEW t \in Procs, NEW op \in Readers \cup Writers, NEW locks \in SUBSET Scls,
         SclCall(t, op, locks)
  PROVE  SclInd'
  <1>1. op # "none" /\ op # "exit" /\ scl_op[t] \notin {"reader", "mmp", "writer"}
    BY DEF Readers, Writers, SclCall
  <1>2. \A i \in locks, j \in SclHeld(t) : j < i
    BY DEF SclCall
  <1> QED BY <1>1, <1>2, SclCallChanged DEF SclCall

(* One lock of spa_config_tryenter() is taken, or all are given back.      *)
LEMMA SclTryKeeps ==
  ASSUME SclInd, NEW t \in Procs, spa_config_tryenter(t)
  PROVE  SclInd'
  <1> DEFINE i == SclNextLock(t)
             taken == scl_locks[t] \ scl_todo[t]
  <1>0. scl_op[t] \in {"tryreader", "trywriter"} /\ scl_op[t] \in Readers \cup Writers
    BY DEF spa_config_tryenter, Readers, Writers
  <1>1. i \in Scls /\ t \notin scl_cv[i]
    BY <1>0, SclNextInTodo DEF SclInd, SclCalls
  <1>2. CASE SclMustWait(t, i)
    <2>1. taken \in SUBSET Scls /\ taken \subseteq SclHeld(t)
      BY <1>0 DEF SclInd, SclTypeOK, SclCalls
    <2>2. /\ scl_op' = [scl_op EXCEPT ![t] = IF taken = {} THEN "none" ELSE "exit"]
          /\ scl_locks' = [scl_locks EXCEPT ![t] = {}]
          /\ scl_todo' = [scl_todo EXCEPT ![t] = taken]
          /\ UNCHANGED <<sclLockVars, scl_waits, scl_read, scl_write, scl_io>>
      BY <1>2 DEF spa_config_tryenter, sclLockVars
    <2> HIDE DEF taken
    <2>3. CASE taken = {}
      BY <1>0, <2>1, <2>2, <2>3, SclCallChanged DEF Readers, Writers
    <2>4. CASE taken # {}
      BY <1>0, <2>1, <2>2, <2>4, SclCallChanged DEF Readers, Writers
    <2> QED BY <2>3, <2>4
  <1>3. CASE ~SclMustWait(t, i)
    <2>1. t \notin scl_waits[i]
      BY <1>0, <1>1 DEF SclInd, SclSleepersWait
    <2>2. /\ SclTake(t, i)
          /\ UNCHANGED <<scl_write_wanted, scl_cv, scl_waits, scl_io>>
      BY <1>3 DEF spa_config_tryenter
    <2>3. /\ scl_waits' = [scl_waits EXCEPT ![i] = @ \ {t}]
          /\ scl_write_wanted' = [scl_write_wanted EXCEPT ![i] =
                                   IF t \in scl_waits[i] THEN @ - 1 ELSE @]
      BY <1>1, <2>1, <2>2 DEF SclInd, SclTypeOK
    <2> QED BY <1>0, <1>1, <1>3, <2>2, <2>3, SclTakeKeeps
  <1> QED BY <1>2, <1>3

(* spa_config_exit() begins.                                               *)
LEMMA SclExitKeeps ==
  ASSUME SclInd, NEW t \in Procs, NEW locks \in SUBSET Scls, SclExit(t, locks)
  PROVE  SclInd'
  <1>1. /\ scl_locks' = [scl_locks EXCEPT ![t] = scl_locks[t]]
        /\ scl_locks[t] \in SUBSET Scls
    BY DEF SclInd, SclTypeOK, SclExit
  <1> QED BY <1>1, SclCallChanged DEF SclExit, Readers, Writers

-----------------------------------------------------------------------------
(* The last holder of a lock wakes those that sleep on it; after any other *)
(* they would only sleep again.                                            *)
LEMMA SclReleaseSleepers ==
  ASSUME SclInd, NEW i \in Scls, scl_count[i] > 0, SclRelease(i),
         UNCHANGED <<scl_write_wanted, scl_waits>>,
         \A u \in Procs : scl_op[u] \in {"reader", "mmp", "writer"} =>
            scl_op'[u] = scl_op[u] /\ scl_todo'[u] = scl_todo[u]
  PROVE  /\ SclSleepersWait'
         /\ \A k \in Scls : scl_cv'[k] \subseteq scl_cv[k]
         /\ scl_count' \in [Scls -> Nat] /\ scl_writer' \in [Scls -> Procs \cup {NoProc}]
         /\ scl_cv' \in [Scls -> SUBSET Procs]
  <1>1. /\ scl_count' \in [Scls -> Nat] /\ scl_writer' \in [Scls -> Procs \cup {NoProc}]
        /\ scl_cv' \in [Scls -> SUBSET Procs]
    BY DEF SclInd, SclTypeOK, SclRelease
  <1>2. \A k \in Scls : scl_cv'[k] \subseteq scl_cv[k]
    BY DEF SclInd, SclTypeOK, SclRelease
  <1>3. SclSleepersWait'
    <2> SUFFICES ASSUME NEW k \in Scls
                 PROVE  /\ \A u \in scl_cv'[k] : SclMustWait(u, k)'
                        /\ scl_write_wanted'[k] = Cardinality(scl_waits'[k])
                        /\ \A u \in scl_waits'[k] : scl_op'[u] = "writer" /\ SclNextLock(u)' = k
      BY DEF SclSleepersWait
    <2>1. ASSUME NEW u \in scl_cv'[k] PROVE SclMustWait(u, k)'
      <3>1. u \in Procs /\ u \in scl_cv[k] /\ SclMustWait(u, k)
        BY <1>2, <2>1 DEF SclInd, SclTypeOK, SclSleepersWait
      <3>2. scl_op'[u] = scl_op[u]
        BY <3>1 DEF SclInd, SclCalls
      <3>3. scl_writer'[k] = scl_writer[k]
            /\ (scl_count[k] # 0 => scl_count'[k] # 0)
        BY <2>1 DEF SclInd, SclTypeOK, SclRelease
      <3> QED BY <3>1, <3>2, <3>3 DEF SclMustWait
    <2>2. ASSUME NEW u \in scl_waits'[k]
          PROVE  scl_op'[u] = "writer" /\ SclNextLock(u)' = k
      <3>1. u \in Procs /\ scl_op[u] = "writer" /\ SclNextLock(u) = k
        BY DEF SclInd, SclTypeOK, SclSleepersWait
      <3> QED BY <3>1 DEF SclNextLock
    <2>3. scl_write_wanted'[k] = Cardinality(scl_waits'[k])
      BY DEF SclInd, SclSleepersWait
    <2> QED BY <2>1, <2>2, <2>3
  <1> QED BY <1>1, <1>2, <1>3

(* One lock of spa_config_exit().                                          *)
LEMMA SclExitOneKeeps ==
  ASSUME SclInd, NEW t \in Procs, spa_config_exit(t)
  PROVE  SclInd'
  <1> DEFINE i == Max(scl_todo[t])
  <1>0. scl_op[t] = "exit" /\ i \in scl_todo[t] /\ i \in Scls /\ i \in SclHeld(t)
    <2>1. scl_op[t] = "exit" /\ scl_todo[t] \in SUBSET Scls /\ scl_todo[t] # {}
      BY DEF spa_config_exit, SclInd, SclTypeOK, SclCalls
    <2>2. i \in scl_todo[t]
      BY <2>1, SclMax
    <2> QED BY <2>1, <2>2 DEF SclInd, SclCalls
  <1>a. /\ SclRelease(i)
        /\ scl_todo' = [scl_todo EXCEPT ![t] = @ \ {i}]
        /\ scl_op' = [scl_op EXCEPT ![t] = IF scl_todo[t] = {i} THEN "none" ELSE @]
        /\ scl_read' = [scl_read EXCEPT ![t] = @ \ {i}]
        /\ scl_write' = [scl_write EXCEPT ![t] = @ \ {i}]
        /\ UNCHANGED <<scl_write_wanted, scl_waits, scl_locks, scl_io>>
    BY DEF spa_config_exit
  <1> HIDE DEF i
  <1>b. PICK l \in Scls : l = i
    BY <1>0
  <1>c. \A u \in Procs : u # t =>
            /\ scl_op'[u] = scl_op[u] /\ scl_todo'[u] = scl_todo[u]
            /\ SclHeld(u)' = SclHeld(u) /\ SclNextLock(u)' = SclNextLock(u)
    BY <1>a DEF SclInd, SclTypeOK, SclHeld, SclNextLock
  <1>d. /\ SclHeld(t)' = SclHeld(t) \ {l} /\ scl_todo'[t] = scl_todo[t] \ {l}
        /\ scl_op'[t] = IF scl_todo[t] = {l} THEN "none" ELSE "exit"
    BY <1>0, <1>a, <1>b DEF SclInd, SclTypeOK, SclHeld
  <1>1. SclHolders(l) /\ scl_io[l] \in Nat /\ scl_count[l] \in Nat
    BY SclExclusionAll DEF SclInd, SclTypeOK
  <1>2. t \in SclReaders(l) \/ t \in SclWriters(l)
    BY <1>0, <1>b DEF SclHeld, SclReaders, SclWriters
  <1>3. scl_count[l] > 0
    BY <1>1, <1>2, SclFinite DEF SclHolders
  <1>4. /\ SclSleepersWait'
        /\ \A k \in Scls : scl_cv'[k] \subseteq scl_cv[k]
        /\ scl_count' \in [Scls -> Nat] /\ scl_writer' \in [Scls -> Procs \cup {NoProc}]
        /\ scl_cv' \in [Scls -> SUBSET Procs]
    BY <1>0, <1>a, <1>b, <1>c, <1>3, SclReleaseSleepers
  <1>5. SclTypeOK'
    BY <1>a, <1>4 DEF SclInd, SclTypeOK
  <1>6. SclOneMode'
    BY <1>a DEF SclInd, SclTypeOK, SclOneMode
  <1>7. SclCalls'
    <2> SUFFICES ASSUME NEW u \in Procs
                 PROVE  /\ scl_op'[u] # "none" => scl_todo'[u] # {}
                        /\ scl_op'[u] = "exit" => scl_todo'[u] \subseteq SclHeld(u)'
                        /\ scl_op'[u] \in Readers \cup Writers =>
                            /\ \A k \in scl_todo'[u], j \in SclHeld(u)' : j < k
                            /\ scl_locks'[u] \ scl_todo'[u] \subseteq SclHeld(u)'
                        /\ \A k \in Scls : u \in scl_cv'[k] =>
                            scl_op'[u] \in {"reader", "mmp", "writer"} /\ SclNextLock(u)' = k
      BY DEF SclCalls
    <2>1. CASE u # t
      BY <1>a, <1>c, <1>4, <2>1 DEF SclInd, SclCalls
    <2>2. CASE u = t
      <3>1. \A k \in Scls : t \notin scl_cv'[k]
        BY <1>0, <1>4 DEF SclInd, SclCalls
      <3>2. scl_todo[t] \subseteq SclHeld(t)
        BY <1>0 DEF SclInd, SclCalls
      <3>3. scl_op'[t] # "none" => scl_todo'[t] # {}
        BY <1>0, <1>b, <1>d
      <3> QED BY <1>d, <2>2, <3>1, <3>2, <3>3 DEF Readers, Writers
    <2> QED BY <2>1, <2>2
  <1>8. SclExclusion'
    <2> SUFFICES ASSUME NEW k \in Scls PROVE SclHolders(k)'
      BY DEF SclExclusion, SclHolders, SclReaders, SclWriters
    <2>0. SclHolders(k)
      BY SclExclusionAll DEF SclInd
    <2>1. CASE k # l
      <3>1. SclReaders(k)' = SclReaders(k) /\ SclWriters(k)' = SclWriters(k)
        BY <1>a, <1>b, <2>1 DEF SclInd, SclTypeOK, SclReaders, SclWriters
      <3>2. scl_count'[k] = scl_count[k] /\ scl_writer'[k] = scl_writer[k]
        BY <1>a, <1>b, <2>1 DEF SclInd, SclTypeOK, SclRelease
      <3> QED BY <1>a, <2>0, <3>1, <3>2 DEF SclHolders
    <2>2. CASE k = l
      <3>1. SclReaders(l)' = SclReaders(l) \ {t} /\ SclWriters(l)' = SclWriters(l) \ {t}
        BY <1>a, <1>b DEF SclInd, SclTypeOK, SclReaders, SclWriters
      <3>2. /\ scl_count'[l] = scl_count[l] - 1
            /\ scl_writer'[l] = IF scl_count[l] = 1 THEN NoProc ELSE scl_writer[l]
        BY <1>a, <1>b DEF SclInd, SclTypeOK, SclRelease
      <3>3. CASE t \in SclReaders(l)
        <4>1. Cardinality(SclReaders(l) \ {t}) = Cardinality(SclReaders(l)) - 1
              /\ Cardinality(SclReaders(l)) # 0
          BY <3>3, SclFinite, FS_RemoveElement
        <4>2. SclWriters(l) = {}
          BY <1>1, <4>1, SclFinite DEF SclHolders
        <4> QED BY <1>1, <1>a, <2>2, <3>1, <3>2, <4>1, <4>2, SclFinite DEF SclHolders
      <3>4. CASE t \in SclWriters(l)
        <4>1. SclWriters(l) = {t} /\ scl_count[l] = 1
          BY <1>1, <3>4 DEF SclHolders
        <4>2. SclReaders(l) = {} /\ scl_io[l] = 0
          <5>1. Cardinality(SclWriters(l)) = 1
            BY <4>1, FS_Singleton
          <5> QED BY <1>1, <4>1, <5>1, SclFinite DEF SclHolders
        <4>3. SclReaders(l)' = {} /\ SclWriters(l)' = {}
          BY <3>1, <4>1, <4>2
        <4> QED BY <1>a, <2>2, <3>2, <4>1, <4>2, <4>3, FS_EmptySet DEF SclHolders
      <3> QED BY <1>2, <3>3, <3>4
    <2> QED BY <2>1, <2>2
  <1> QED BY <1>4, <1>5, <1>6, <1>7, <1>8 DEF SclInd

(* A hold for reading is handed to an I/O: the count stays what it is.     *)
LEMMA SclHandOffKeeps ==
  ASSUME SclInd, NEW t \in Procs, NEW i \in Scls, SclHandOff(t, i)
  PROVE  SclInd'
  <1> USE DEF sclLockVars
  <1>1. SclTypeOK'
    BY SclAssumption DEF SclInd, SclTypeOK, SclHandOff
  <1>2. SclOneMode'
    BY DEF SclInd, SclTypeOK, SclOneMode, SclHandOff
  <1>3. SclCalls'
    <2> SUFFICES ASSUME NEW u \in Procs
                 PROVE  /\ scl_op'[u] # "none" => scl_todo'[u] # {}
                        /\ scl_op'[u] = "exit" => scl_todo'[u] \subseteq SclHeld(u)'
                        /\ scl_op'[u] \in Readers \cup Writers =>
                            /\ \A k \in scl_todo'[u], j \in SclHeld(u)' : j < k
                            /\ scl_locks'[u] \ scl_todo'[u] \subseteq SclHeld(u)'
                        /\ \A k \in Scls : u \in scl_cv'[k] =>
                            scl_op'[u] \in {"reader", "mmp", "writer"} /\ SclNextLock(u)' = k
      BY DEF SclCalls
    <2>1. CASE u # t
      <3>1. SclHeld(u)' = SclHeld(u) /\ SclNextLock(u)' = SclNextLock(u)
        BY <2>1 DEF SclInd, SclTypeOK, SclHandOff, SclHeld, SclNextLock
      <3> QED BY <3>1 DEF SclInd, SclCalls, SclHandOff
    <2>2. CASE u = t
      <3>1. scl_op[t] = "none" /\ scl_op'[t] = "none" /\ scl_cv' = scl_cv
        BY DEF SclHandOff
      <3> QED BY <2>2, <3>1 DEF SclInd, SclCalls, Readers, Writers
    <2> QED BY <2>1, <2>2
  <1>4. SclSleepersWait'
    <2> SUFFICES ASSUME NEW k \in Scls
                 PROVE  /\ \A u \in scl_cv'[k] : SclMustWait(u, k)'
                        /\ scl_write_wanted'[k] = Cardinality(scl_waits'[k])
                        /\ \A u \in scl_waits'[k] : scl_op'[u] = "writer" /\ SclNextLock(u)' = k
      BY DEF SclSleepersWait
    <2>1. \A u \in Procs : SclNextLock(u)' = SclNextLock(u)
      BY DEF SclHandOff, SclNextLock
    <2>2. \A u \in scl_cv[k] : SclMustWait(u, k)' <=> SclMustWait(u, k)
      BY DEF SclHandOff, SclMustWait
    <2> QED BY <2>1, <2>2 DEF SclInd, SclTypeOK, SclSleepersWait, SclHandOff
  <1>5. SclExclusion'
    <2> SUFFICES ASSUME NEW k \in Scls PROVE SclHolders(k)'
      BY DEF SclExclusion, SclHolders, SclReaders, SclWriters
    <2>0. SclHolders(k) /\ scl_io[k] \in Nat
      BY SclExclusionAll DEF SclInd, SclTypeOK
    <2>1. SclWriters(k)' = SclWriters(k) /\ scl_count' = scl_count /\ scl_writer' = scl_writer
      BY DEF SclHandOff, SclWriters
    <2>2. CASE k # i
      <3>1. SclReaders(k)' = SclReaders(k) /\ scl_io'[k] = scl_io[k]
        BY <2>2 DEF SclInd, SclTypeOK, SclHandOff, SclReaders
      <3> QED BY <2>0, <2>1, <3>1 DEF SclHolders
    <2>3. CASE k = i
      <3>1. SclReaders(k)' = SclReaders(k) \ {t} /\ t \in SclReaders(k)
            /\ scl_io'[k] = scl_io[k] + 1
        BY <2>3 DEF SclInd, SclTypeOK, SclHandOff, SclReaders
      <3>2. Cardinality(SclReaders(k) \ {t}) = Cardinality(SclReaders(k)) - 1
        BY <3>1, SclFinite, FS_RemoveElement
      <3>3. Cardinality(SclReaders(k)) \in Nat /\ Cardinality(SclWriters(k)) \in Nat
        BY SclFinite
      <3>4. scl_count[k] = Cardinality(SclReaders(k)) + Cardinality(SclWriters(k)) + scl_io[k]
        BY <2>0 DEF SclHolders
      <3>5. scl_count[k] =
                Cardinality(SclReaders(k) \ {t}) + Cardinality(SclWriters(k)) + (scl_io[k] + 1)
        BY ONLY <2>0, <3>2, <3>3, <3>4
      <3>6. scl_count'[k] = Cardinality(SclReaders(k)') + Cardinality(SclWriters(k)') + scl_io'[k]
        BY <2>1, <3>1, <3>5
      <3> QED BY <2>0, <2>1, <3>6 DEF SclHolders
    <2> QED BY <2>2, <2>3
  <1> QED BY <1>1, <1>2, <1>3, <1>4, <1>5 DEF SclInd

(* An I/O is done and releases its lock.                                   *)
LEMMA SclIoDoneKeeps ==
  ASSUME SclInd, NEW i \in Scls, SclIoDone(i)
  PROVE  SclInd'
  <1>0. /\ SclHolders(i) /\ scl_io[i] \in Nat /\ scl_io[i] > 0 /\ scl_count[i] \in Nat
        /\ SclRelease(i) /\ scl_io' = [scl_io EXCEPT ![i] = @ - 1]
        /\ UNCHANGED <<scl_write_wanted, scl_waits, scl_op, scl_locks, scl_todo,
                       scl_read, scl_write>>
    BY SclExclusionAll DEF SclInd, SclTypeOK, SclIoDone
  <1>1. SclWriters(i) = {} /\ scl_count[i] > 0
    <2>1. /\ Cardinality(SclReaders(i)) \in Nat /\ Cardinality(SclWriters(i)) \in Nat
          /\ Cardinality(SclWriters(i)) = 0 <=> SclWriters(i) = {}
      BY SclFinite
    <2>2. /\ scl_count[i] = Cardinality(SclReaders(i)) + Cardinality(SclWriters(i)) + scl_io[i]
          /\ SclWriters(i) # {} => scl_count[i] = 1
          /\ scl_io[i] \in Nat /\ scl_io[i] > 0
      BY <1>0 DEF SclHolders
    <2> QED BY ONLY <2>1, <2>2
  <1>2. /\ SclSleepersWait'
        /\ \A k \in Scls : scl_cv'[k] \subseteq scl_cv[k]
        /\ scl_count' \in [Scls -> Nat] /\ scl_writer' \in [Scls -> Procs \cup {NoProc}]
        /\ scl_cv' \in [Scls -> SUBSET Procs]
    BY <1>0, <1>1, SclReleaseSleepers
  <1>3. SclTypeOK'
    <2>1. scl_io' \in [Scls -> 0..MaxHandedOff]
      BY <1>0, SclAssumption DEF SclInd, SclTypeOK
    <2> QED BY <1>0, <1>2, <2>1 DEF SclInd, SclTypeOK
  <1>4. SclOneMode'
    BY <1>0 DEF SclInd, SclOneMode
  <1>5. SclCalls'
    BY <1>0, <1>2 DEF SclInd, SclCalls, SclHeld, SclNextLock
  <1>6. SclExclusion'
    <2> SUFFICES ASSUME NEW k \in Scls PROVE SclHolders(k)'
      BY DEF SclExclusion, SclHolders, SclReaders, SclWriters
    <2>0. SclHolders(k)
      BY SclExclusionAll DEF SclInd
    <2>1. SclReaders(k)' = SclReaders(k) /\ SclWriters(k)' = SclWriters(k)
      BY <1>0 DEF SclReaders, SclWriters
    <2>2. CASE k # i
      <3>1. scl_count'[k] = scl_count[k] /\ scl_writer'[k] = scl_writer[k]
            /\ scl_io'[k] = scl_io[k]
        BY <1>0, <2>2 DEF SclInd, SclTypeOK, SclRelease
      <3> QED BY <2>0, <2>1, <3>1 DEF SclHolders
    <2>3. CASE k = i
      <3>1. /\ scl_count'[k] = scl_count[k] - 1 /\ scl_io'[k] = scl_io[k] - 1
            /\ scl_writer[k] = NoProc /\ scl_writer'[k] = NoProc
        BY <1>0, <1>1, <2>3 DEF SclInd, SclTypeOK, SclRelease, SclHolders
      <3>2. /\ Cardinality(SclReaders(k)) \in Nat /\ Cardinality(SclWriters(k)) \in Nat
            /\ SclWriters(k) = {} /\ scl_io[k] \in Nat
        BY <1>0, <1>1, <2>3, SclFinite
      <3>3. scl_count[k] = Cardinality(SclReaders(k)) + Cardinality(SclWriters(k)) + scl_io[k]
        BY <2>0 DEF SclHolders
      <3>4. scl_count[k] - 1 =
                Cardinality(SclReaders(k)) + Cardinality(SclWriters(k)) + (scl_io[k] - 1)
        BY ONLY <3>2, <3>3
      <3> QED BY <2>1, <3>1, <3>2, <3>4 DEF SclHolders
    <2> QED BY <2>2, <2>3
  <1> QED BY <1>2, <1>3, <1>4, <1>5, <1>6 DEF SclInd

-----------------------------------------------------------------------------
(* The invariant holds in every state.                                     *)
LEMMA SclInvariant == SclSpec => []SclInd
  <1>1. SclInd /\ [SclNext]_sclVars => SclInd'
    <2> SUFFICES ASSUME SclInd, [SclNext]_sclVars PROVE SclInd'
      OBVIOUS
    <2>1. CASE SclNext
      BY <2>1, SclCallKeeps, SclEnterKeeps, SclTryKeeps, SclExitKeeps, SclExitOneKeeps,
         SclHandOffKeeps, SclIoDoneKeeps DEF SclNext
    <2>2. CASE UNCHANGED sclVars
      <3> USE <2>2 DEF sclVars, sclLockVars
      <3>1. SclTypeOK' /\ SclOneMode'
        BY DEF SclInd, SclTypeOK, SclOneMode
      <3>2. SclExclusion'
        BY DEF SclInd, SclExclusion
      <3>3. SclCalls'
        BY DEF SclInd, SclCalls, SclHeld, SclNextLock
      <3>4. SclSleepersWait'
        BY DEF SclInd, SclSleepersWait, SclMustWait, SclNextLock
      <3> QED BY <3>1, <3>2, <3>3, <3>4 DEF SclInd
    <2> QED BY <2>1, <2>2
  <1> QED BY SclIndInit, <1>1, PTL DEF SclSpec

(* The locks exclude writers from all others, I/Os included, and nobody    *)
(* sleeps on a lock it could have.                                         *)
THEOREM SclLocksAreCorrect == SclSpec => []SclCorrect
  <1>1. SclInd => SclCorrect
    BY DEF SclInd, SclCorrect
  <1> QED BY SclInvariant, <1>1, PTL

(* Threads that keep the order of the array do not deadlock, with any      *)
(* number of locks and threads: of those that sleep on the highest lock    *)
(* anybody sleeps on, each waits for one that does not sleep.              *)
THEOREM SclDeadlockFree == SclSpec => []SclNoDeadlock
  <1>1. SclInd => SclNoDeadlock
    <2> SUFFICES ASSUME SclInd, \A i \in Scls : ~(scl_io[i] > 0),
                        \E t \in Procs : SclAsleep(t)
                 PROVE  \E t \in Procs : ~SclAsleep(t) /\ (SclHeld(t) # {} \/ scl_todo[t] # {})
      BY DEF SclNoDeadlock
    <2> DEFINE S == {i \in Scls : scl_cv[i] # {}}
    <2>1. PICK i \in Scls : scl_cv[i] # {} /\ \A k \in S : i >= k
      <3>1. S \in SUBSET Scls /\ S # {}
        BY DEF SclAsleep
      <3> HIDE DEF S
      <3>2. Max(S) \in S /\ \A k \in S : Max(S) >= k
        BY <3>1, SclMax
      <3> QED BY <3>1, <3>2 DEF S
    <2>2. ASSUME NEW w \in Procs, i \in SclHeld(w) PROVE ~SclAsleep(w)
      <3> SUFFICES ASSUME NEW k \in Scls, w \in scl_cv[k] PROVE FALSE
        BY DEF SclAsleep
      <3>1. scl_op[w] \in Readers \cup Writers /\ scl_op[w] # "none" /\ SclNextLock(w) = k
        BY DEF SclInd, SclCalls, Readers, Writers
      <3>2. k \in scl_todo[w]
        BY <3>1, SclNextInTodo
      <3>3. i < k
        BY <2>2, <3>1, <3>2 DEF SclInd, SclCalls
      <3> QED BY <2>1, <3>3, SclAssumption DEF Scls
    <2>3. SclHolders(i) /\ scl_io[i] \in Nat /\ scl_count[i] \in Nat
      BY SclExclusionAll DEF SclInd, SclTypeOK
    <2>4. ASSUME scl_count[i] # 0
          PROVE  \E w \in Procs : ~SclAsleep(w) /\ SclHeld(w) # {}
      <3>1. scl_io[i] = 0
        BY <2>3
      <3>2. SclReaders(i) # {} \/ SclWriters(i) # {}
        BY <2>3, <2>4, <3>1, SclFinite DEF SclHolders
      <3>3. PICK w \in Procs : i \in SclHeld(w)
        BY <3>2 DEF SclReaders, SclWriters, SclHeld
      <3> QED BY <2>2, <3>3
    <2>5. PICK t \in Procs : t \in scl_cv[i]
      BY <2>1 DEF SclInd, SclTypeOK
    <2>6. SclMustWait(t, i)
      BY <2>5 DEF SclInd, SclSleepersWait
    <2>7. CASE scl_count[i] # 0
      BY <2>4, <2>7
    <2>8. CASE scl_count[i] = 0
      <3>1. scl_writer[i] = NoProc
        BY <2>3, <2>8, SclFinite DEF SclHolders
      <3>2. scl_write_wanted[i] # 0
        BY <2>6, <2>8, <3>1 DEF SclMustWait
      <3>3. scl_waits[i] # {}
        BY <3>2, FS_EmptySet DEF SclInd, SclSleepersWait
      <3>4. PICK u \in Procs : u \in scl_waits[i]
        BY <3>3 DEF SclInd, SclTypeOK
      <3>5. scl_op[u] = "writer" /\ SclNextLock(u) = i
        BY <3>4 DEF SclInd, SclSleepersWait
      <3>6. ~SclMustWait(u, i)
        BY <2>8, <3>5 DEF SclMustWait, Readers
      <3>7. ~SclAsleep(u)
        BY <3>5, <3>6 DEF SclInd, SclCalls, SclSleepersWait, SclAsleep
      <3>8. scl_todo[u] # {}
        BY <3>5 DEF SclInd, SclCalls
      <3> QED BY <3>7, <3>8
    <2> QED BY <2>7, <2>8
  <1> QED BY SclInvariant, <1>1, PTL
=============================================================================
