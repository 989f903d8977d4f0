------------------------------ MODULE RrwProofs ------------------------------
(***************************************************************************)
(* Re-entrant reader/writer locks for any number of threads, of holds per  *)
(* thread, and of locks in the array of a reader-mostly lock.              *)
(*                                                                         *)
(* The invariant says which locks of the array a writer has at each point  *)
(* of its way through it, and that a lock with a writer has no readers in  *)
(* either counter.                                                         *)
(***************************************************************************)
EXTENDS RrwLock, FiniteSetTheorems, TLAPS

(* A hold may have a node, and has one if all are tracked.                 *)
RrNodes == rrn \subseteq rr_held /\ (rr_track_all => rr_held \subseteq rrn)

(* The locks of the array that a thread has for writing: those before the  *)
(* one it enters, those from the one it leaves on, or all.                 *)
RrHas(t, l) ==
    \/ rr_op[t] = "write" /\ l < rr_at[t]
    \/ rr_op[t] = "exit" /\ l >= rr_at[t]
    \/ rr_op[t] = "none" /\ rr_writer[0] = t

RrWriters == \A t \in Procs, l \in RrLocks : rr_writer[l] = t <=> RrHas(t, l)

RrNoReaders ==
    \A l \in RrLocks : rr_writer[l] # NoProc =>
        rr_anon_rcount[l] = 0 /\ rr_linked_rcount[l] = 0

(* What a thread brought into the call it is in, and where it sleeps.      *)
RrCalls ==
    \A t \in Procs :
        /\ rr_op[t] = "write" => RrHolds(t) = {}
        /\ rr_op[t] \in {"read", "prio"} =>
            rr_at[t] = RRM_TD_LOCK[t] /\ <<t, rr_tag[t]>> \notin rr_held
        /\ \A l \in RrLocks : t \in rr_cv[l] =>
            rr_at[t] = l /\ rr_op[t] \in {"read", "prio", "write"}

RrInd ==
    /\ RrTypeOK /\ RrNodes /\ RrCounts /\ RrWriters /\ RrNoReaders /\ RrCalls
    /\ RrSleepersWait /\ RrReentrant

-----------------------------------------------------------------------------
(* The holds on a lock are finitely many.                                  *)
LEMMA RrHoldsFinite ==
  ASSUME RrTypeOK, NEW l \in RrLocks
  PROVE  IsFiniteSet(HoldsOn(l)) /\ IsFiniteSet(HoldsOn(l) \cap rrn)
         /\ IsFiniteSet(HoldsOn(l) \ rrn)
  <1>1. IsFiniteSet(Procs \X RrTags)
    BY ClientsAssumption, RrwAssumption, FS_Product
  <1>2. HoldsOn(l) \in SUBSET (Procs \X RrTags)
    BY DEF RrTypeOK, HoldsOn
  <1>3. IsFiniteSet(HoldsOn(l))
    BY <1>1, <1>2, FS_Subset
  <1> QED BY <1>3, FS_Intersection, FS_Difference

(* Every hold is in one of the counters of its lock.                       *)
LEMMA RrHoldCounted ==
  ASSUME RrTypeOK, RrCounts, NEW h \in rr_held
  PROVE  /\ RRM_TD_LOCK[h[1]] \in RrLocks
         /\ h \in rrn => rr_linked_rcount[RRM_TD_LOCK[h[1]]] > 0
         /\ h \notin rrn => rr_anon_rcount[RRM_TD_LOCK[h[1]]] > 0
  <1> DEFINE l == RRM_TD_LOCK[h[1]]
  <1>1. l \in RrLocks /\ h \in HoldsOn(l)
    BY RrwAssumption DEF RrTypeOK, HoldsOn
  <1>2. h \in rrn => Cardinality(HoldsOn(l) \cap rrn) # 0
    <2>1. IsFiniteSet(HoldsOn(l) \cap rrn)
      BY <1>1, RrHoldsFinite
    <2> QED BY <1>1, <2>1, FS_EmptySet
  <1>3. h \notin rrn => Cardinality(HoldsOn(l) \ rrn) # 0
    BY <1>1, RrHoldsFinite, FS_EmptySet
  <1>4. /\ rr_linked_rcount[l] = Cardinality(HoldsOn(l) \cap rrn)
        /\ rr_anon_rcount[l] = Cardinality(HoldsOn(l) \ rrn)
        /\ rr_linked_rcount[l] \in Nat /\ rr_anon_rcount[l] \in Nat
    BY <1>1 DEF RrCounts, RrTypeOK
  <1> QED BY <1>1, <1>2, <1>3, <1>4

(* The counters follow a hold that is given, with a node or without, ...   *)
LEMMA RrHoldAdded ==
  ASSUME RrTypeOK, RrNodes, RrCounts, NEW h \in Procs \X RrTags, h \notin rr_held,
         NEW l \in RrLocks, l = RRM_TD_LOCK[h[1]], NEW link \in BOOLEAN,
         rr_held' = rr_held \cup {h},
         rrn' = IF link THEN rrn \cup {h} ELSE rrn,
         rr_linked_rcount' = [rr_linked_rcount EXCEPT ![l] = IF link THEN @ + 1 ELSE @],
         rr_anon_rcount' = [rr_anon_rcount EXCEPT ![l] = IF link THEN @ ELSE @ + 1]
  PROVE  RrCounts'
  <1>1. h \notin rrn
    BY DEF RrNodes
  <1> SUFFICES ASSUME NEW k \in RrLocks
               PROVE  /\ rr_linked_rcount'[k] = Cardinality(HoldsOn(k)' \cap rrn')
                      /\ rr_anon_rcount'[k] = Cardinality(HoldsOn(k)' \ rrn')
    BY DEF RrCounts
  <1>2. /\ rr_linked_rcount[k] = Cardinality(HoldsOn(k) \cap rrn)
        /\ rr_anon_rcount[k] = Cardinality(HoldsOn(k) \ rrn)
    BY DEF RrCounts
  <1>3. CASE k # l
    <2>1. HoldsOn(k)' = HoldsOn(k) /\ h \notin HoldsOn(k)
      BY <1>3 DEF HoldsOn
    <2>2. HoldsOn(k)' \cap rrn' = HoldsOn(k) \cap rrn /\ HoldsOn(k)' \ rrn' = HoldsOn(k) \ rrn
      BY <2>1
    <2>3. rr_linked_rcount'[k] = rr_linked_rcount[k] /\ rr_anon_rcount'[k] = rr_anon_rcount[k]
      BY <1>3 DEF RrTypeOK
    <2> QED BY <1>2, <2>2, <2>3
  <1>4. CASE k = l
    <2>1. HoldsOn(l)' = HoldsOn(l) \cup {h} /\ h \notin HoldsOn(l)
      BY DEF HoldsOn
    <2>2. CASE link
      <3>1. /\ HoldsOn(l)' \cap rrn' = (HoldsOn(l) \cap rrn) \cup {h}
            /\ h \notin HoldsOn(l) \cap rrn
            /\ HoldsOn(l)' \ rrn' = HoldsOn(l) \ rrn
        BY <1>1, <2>1, <2>2
      <3>2. /\ rr_linked_rcount'[l] = rr_linked_rcount[l] + 1
            /\ rr_anon_rcount'[l] = rr_anon_rcount[l]
        BY <2>2 DEF RrTypeOK
      <3>3. IsFiniteSet(HoldsOn(l) \cap rrn)
        BY RrHoldsFinite
      <3>4. Cardinality((HoldsOn(l) \cap rrn) \cup {h}) = Cardinality(HoldsOn(l) \cap rrn) + 1
        BY <3>1, <3>3, FS_AddElement
      <3> QED BY <1>2, <1>4, <3>1, <3>2, <3>4
    <2>3. CASE ~link
      <3>1. /\ HoldsOn(l)' \ rrn' = (HoldsOn(l) \ rrn) \cup {h}
            /\ h \notin HoldsOn(l) \ rrn
            /\ HoldsOn(l)' \cap rrn' = HoldsOn(l) \cap rrn
        BY <1>1, <2>1, <2>3
      <3>2. /\ rr_linked_rcount'[l] = rr_linked_rcount[l]
            /\ rr_anon_rcount'[l] = rr_anon_rcount[l] + 1
        BY <2>3 DEF RrTypeOK
      <3>3. IsFiniteSet(HoldsOn(l) \ rrn)
        BY RrHoldsFinite
      <3>4. Cardinality((HoldsOn(l) \ rrn) \cup {h}) = Cardinality(HoldsOn(l) \ rrn) + 1
        BY <3>1, <3>3, FS_AddElement
      <3> QED BY <1>2, <1>4, <3>1, <3>2, <3>4
    <2> QED BY <2>2, <2>3
  <1> QED BY <1>3, <1>4

(* ... and one that is returned.                                           *)
LEMMA RrHoldRemoved ==
  ASSUME RrTypeOK, RrCounts, NEW h \in rr_held,
         NEW l \in RrLocks, l = RRM_TD_LOCK[h[1]], NEW linked \in BOOLEAN, linked = (h \in rrn),
         rr_held' = rr_held \ {h},
         rrn' = rrn \ {h},
         rr_linked_rcount' = [rr_linked_rcount EXCEPT ![l] = IF linked THEN @ - 1 ELSE @],
         rr_anon_rcount' = [rr_anon_rcount EXCEPT ![l] = IF linked THEN @ ELSE @ - 1]
  PROVE  RrCounts'
  <1> SUFFICES ASSUME NEW k \in RrLocks
               PROVE  /\ rr_linked_rcount'[k] = Cardinality(HoldsOn(k)' \cap rrn')
                      /\ rr_anon_rcount'[k] = Cardinality(HoldsOn(k)' \ rrn')
    BY DEF RrCounts
  <1>2. /\ rr_linked_rcount[k] = Cardinality(HoldsOn(k) \cap rrn)
        /\ rr_anon_rcount[k] = Cardinality(HoldsOn(k) \ rrn)
    BY DEF RrCounts
  <1>3. CASE k # l
    <2>1. HoldsOn(k)' = HoldsOn(k) /\ h \notin HoldsOn(k)
      BY <1>3 DEF HoldsOn
    <2>2. HoldsOn(k)' \cap rrn' = HoldsOn(k) \cap rrn /\ HoldsOn(k)' \ rrn' = HoldsOn(k) \ rrn
      BY <2>1
    <2>3. rr_linked_rcount'[k] = rr_linked_rcount[k] /\ rr_anon_rcount'[k] = rr_anon_rcount[k]
      BY <1>3 DEF RrTypeOK
    <2> QED BY <1>2, <2>2, <2>3
  <1>4. CASE k = l
    <2>1. HoldsOn(l)' = HoldsOn(l) \ {h} /\ h \in HoldsOn(l)
      BY DEF HoldsOn
    <2>2. CASE linked
      <3>1. /\ HoldsOn(l)' \cap rrn' = (HoldsOn(l) \cap rrn) \ {h}
            /\ h \in HoldsOn(l) \cap rrn
            /\ HoldsOn(l)' \ rrn' = HoldsOn(l) \ rrn
        BY <2>1, <2>2
      <3>2. /\ rr_linked_rcount'[l] = rr_linked_rcount[l] - 1
            /\ rr_anon_rcount'[l] = rr_anon_rcount[l]
        BY <2>2 DEF RrTypeOK
      <3>3. IsFiniteSet(HoldsOn(l) \cap rrn)
        BY RrHoldsFinite
      <3>4. Cardinality((HoldsOn(l) \cap rrn) \ {h}) = Cardinality(HoldsOn(l) \cap rrn) - 1
        BY <3>1, <3>3, FS_RemoveElement
      <3> QED BY <1>2, <1>4, <3>1, <3>2, <3>4
    <2>3. CASE ~linked
      <3>1. /\ HoldsOn(l)' \ rrn' = (HoldsOn(l) \ rrn) \ {h}
            /\ h \in HoldsOn(l) \ rrn
            /\ HoldsOn(l)' \cap rrn' = HoldsOn(l) \cap rrn
        BY <2>1, <2>3
      <3>2. /\ rr_linked_rcount'[l] = rr_linked_rcount[l]
            /\ rr_anon_rcount'[l] = rr_anon_rcount[l] - 1
        BY <2>3 DEF RrTypeOK
      <3>3. IsFiniteSet(HoldsOn(l) \ rrn)
        BY RrHoldsFinite
      <3>4. Cardinality((HoldsOn(l) \ rrn) \ {h}) = Cardinality(HoldsOn(l) \ rrn) - 1
        BY <3>1, <3>3, FS_RemoveElement
      <3> QED BY <1>2, <1>4, <3>1, <3>2, <3>4
    <2> QED BY <2>2, <2>3
  <1> QED BY <1>3, <1>4

-----------------------------------------------------------------------------
(* rrw_init() and rrm_init() make locks in which all of this holds.        *)
LEMMA RrIndInit == RrInit => RrInd
  <1> SUFFICES ASSUME RrInit PROVE RrInd
    OBVIOUS
  <1> USE ClientsAssumption, RrwAssumption DEF RrLocks
  <1>1. RrTypeOK
    BY DEF RrInit, RrTypeOK
  <1>2. RrNodes /\ RrWriters /\ RrNoReaders /\ RrCalls /\ RrSleepersWait /\ RrReentrant
    BY DEF RrInit, RrNodes, RrWriters, RrHas, RrNoReaders, RrCalls, RrSleepersWait, RrReentrant
  <1>3. RrCounts
    BY FS_EmptySet DEF RrInit, RrCounts, HoldsOn
  <1> QED BY <1>1, <1>2, <1>3 DEF RrInd

(* A call begins.                                                          *)
LEMMA RrEnterKeeps ==
  ASSUME NEW t \in Procs, NEW op \in {"read", "prio", "write"}, NEW tag \in RrTags,
         RrInd, RrEnter(t, op, tag)
  PROVE  RrInd'
  <1> USE ClientsAssumption, RrwAssumption DEF rrCounts
  <1>0. 0 \in RrLocks
    BY DEF RrLocks
  <1>1. RrTypeOK'
    BY <1>0 DEF RrInd, RrTypeOK, RrEnter
  <1>2. RrNodes' /\ RrNoReaders'
    BY DEF RrInd, RrNodes, RrNoReaders, RrEnter
  <1>3. RrCounts'
    BY DEF RrInd, RrCounts, HoldsOn, RrEnter
  <1>4. RrWriters'
    <2> SUFFICES ASSUME NEW u \in Procs, NEW k \in RrLocks
                 PROVE  rr_writer'[k] = u <=> RrHas(u, k)'
      BY DEF RrWriters
    <2>1. CASE u = t
      BY <1>0, <2>1 DEF RrInd, RrTypeOK, RrHas, RrEnter, RrLocks
    <2>2. CASE u # t
      BY <2>2 DEF RrInd, RrTypeOK, RrWriters, RrHas, RrEnter
    <2> QED BY <2>1, <2>2
  <1>5. \A l \in RrLocks : t \notin rr_cv[l]
    BY DEF RrInd, RrCalls, RrEnter
  <1>6. RrCalls'
    BY <1>5 DEF RrInd, RrTypeOK, RrCalls, RrHolds, RrEnter
  <1>7. RrSleepersWait'
    BY <1>5 DEF RrInd, RrTypeOK, RrSleepersWait, ReadMustWait, WriteMustWait, rrn_find, RrEnter
  <1>8. RrReentrant'
    BY DEF RrInd, RrReentrant, RrHolds, RrEnter
  <1> QED BY <1>1, <1>2, <1>3, <1>4, <1>6, <1>7, <1>8 DEF RrInd

(* A reader sleeps; it has no hold that somebody could wait for.           *)
LEMMA RrReadSleeps ==
  ASSUME NEW t \in Procs, RrInd, rrw_enter_read_impl(t), ReadMustWait(t, rr_at[t])
  PROVE  RrInd'
  <1> USE ClientsAssumption, RrwAssumption DEF rrCounts
  <1> DEFINE l == rr_at[t]
  <1>0. /\ l \in RrLocks /\ l = RRM_TD_LOCK[t] /\ rr_op[t] \in {"read", "prio"}
        /\ rr_cv' = [rr_cv EXCEPT ![l] = @ \cup {t}]
        /\ UNCHANGED <<rr_track_all, rr_writer, rr_writer_wanted, rr_tag, rr_op, rr_at,
                       rr_anon_rcount, rr_linked_rcount, rrn, rr_held>>
    BY DEF RrInd, RrTypeOK, RrCalls, rrw_enter_read_impl, RrSleep
  <1>1. RrTypeOK'
    BY <1>0 DEF RrInd, RrTypeOK
  <1>2. RrNodes' /\ RrNoReaders'
    BY <1>0 DEF RrInd, RrNodes, RrNoReaders
  <1>3. RrCounts'
    BY <1>0 DEF RrInd, RrCounts, HoldsOn
  <1>4. RrWriters'
    BY <1>0 DEF RrInd, RrWriters, RrHas
  <1>5. RrCalls'
    BY <1>0 DEF RrInd, RrTypeOK, RrCalls, RrHolds
  <1>6. RrSleepersWait'
    BY <1>0 DEF RrInd, RrTypeOK, RrSleepersWait, ReadMustWait, WriteMustWait, rrn_find
  <1>7. RrHolds(t) = {}
    <2> SUFFICES ASSUME NEW h \in rr_held, h[1] = t PROVE FALSE
      BY DEF RrHolds
    <2>1. (h \in rrn => rr_linked_rcount[l] > 0) /\ (h \notin rrn => rr_anon_rcount[l] > 0)
      BY <1>0, RrHoldCounted DEF RrInd
    <2>2. rr_writer[l] = NoProc
      BY <1>0, <2>1 DEF RrInd, RrNoReaders
    <2>3. rr_anon_rcount[l] = 0 /\ rrn_find(t) = {}
      BY <2>2 DEF ReadMustWait
    <2> QED BY <2>1, <2>3 DEF rrn_find
  <1>8. RrReentrant'
    BY <1>0, <1>7 DEF RrInd, RrTypeOK, RrReentrant, RrHolds
  <1> QED BY <1>1, <1>2, <1>3, <1>4, <1>5, <1>6, <1>8 DEF RrInd

(* A reader gets in: into the counter with nodes if a writer waits, so     *)
(* that the readers held back by rr_writer_wanted stay so.                 *)
LEMMA RrReadEnters ==
  ASSUME NEW t \in Procs, RrInd, rrw_enter_read_impl(t), ~ReadMustWait(t, rr_at[t])
  PROVE  RrInd'
  <1> USE ClientsAssumption, RrwAssumption DEF rrCounts
  <1> DEFINE l == rr_at[t]
             h == <<t, rr_tag[t]>>
             link == Linked(l)
  <1>0. /\ l \in RrLocks /\ l = RRM_TD_LOCK[t] /\ rr_op[t] \in {"read", "prio"}
        /\ h \in Procs \X RrTags /\ h \notin rr_held /\ link \in BOOLEAN
        /\ t \notin rr_cv[l] /\ rr_writer[l] = NoProc
    BY DEF RrInd, RrTypeOK, RrCalls, rrw_enter_read_impl, ReadMustWait, Linked
  <1>a. /\ rr_linked_rcount' = [rr_linked_rcount EXCEPT ![l] = IF link THEN @ + 1 ELSE @]
        /\ rr_anon_rcount' = [rr_anon_rcount EXCEPT ![l] = IF link THEN @ ELSE @ + 1]
        /\ rrn' = IF link THEN rrn \cup {h} ELSE rrn
        /\ rr_held' = rr_held \cup {h}
        /\ rr_op' = [rr_op EXCEPT ![t] = "none"]
        /\ UNCHANGED <<rr_track_all, rr_writer, rr_writer_wanted, rr_tag, rr_cv, rr_at>>
    BY DEF rrw_enter_read_impl
  <1>b. \A k \in RrLocks : t \notin rr_cv[k]
    BY <1>0 DEF RrInd, RrCalls
  <1> HIDE DEF h, link
  <1>1. RrTypeOK'
    BY <1>0, <1>a DEF RrInd, RrTypeOK
  <1>2. RrNodes'
    BY <1>0, <1>a DEF RrInd, RrNodes, link, Linked
  <1>3. RrCounts'
    <2>1. l = RRM_TD_LOCK[h[1]]
      BY <1>0 DEF h
    <2> QED BY <1>0, <1>a, <2>1, RrHoldAdded DEF RrInd
  <1>4. RrWriters'
    <2> SUFFICES ASSUME NEW u \in Procs, NEW k \in RrLocks
                 PROVE  rr_writer'[k] = u <=> RrHas(u, k)'
      BY DEF RrWriters
    <2>1. CASE u = t
      <3>1. rr_writer[k] # t /\ rr_writer[0] # t
        <4>1. 0 \in RrLocks
          BY DEF RrLocks
        <4> QED BY <1>0, <4>1 DEF RrInd, RrWriters, RrHas
      <3> QED BY <1>0, <1>a, <2>1, <3>1 DEF RrInd, RrTypeOK, RrHas
    <2>2. CASE u # t
      BY <1>a, <2>2 DEF RrInd, RrTypeOK, RrWriters, RrHas
    <2> QED BY <2>1, <2>2
  <1>5. RrNoReaders'
    BY <1>0, <1>a DEF RrInd, RrTypeOK, RrNoReaders
  <1>6. RrCalls'
    BY <1>0, <1>a, <1>b DEF RrInd, RrTypeOK, RrCalls, RrHolds, h
  <1>7. RrSleepersWait'
    <2> SUFFICES ASSUME NEW k \in RrLocks
                 PROVE  /\ \A u \in rr_cv'[k] : IF rr_op'[u] = "write"
                                                THEN WriteMustWait(k)' ELSE ReadMustWait(u, k)'
                        /\ rr_writer_wanted'[k] =>
                            \E u \in Procs : rr_op'[u] = "write" /\ rr_at'[u] = k
      BY DEF RrSleepersWait
    <2>1. ASSUME NEW u \in rr_cv'[k]
          PROVE  IF rr_op'[u] = "write" THEN WriteMustWait(k)' ELSE ReadMustWait(u, k)'
      <3>1. u \in Procs /\ u \in rr_cv[k] /\ u # t /\ rr_op'[u] = rr_op[u]
        BY <1>a, <1>b DEF RrInd, RrTypeOK
      <3>2. CASE rr_op[u] = "write"
        <4>1. WriteMustWait(k)
          BY <3>1, <3>2 DEF RrInd, RrSleepersWait
        <4> QED BY <1>0, <1>a, <3>1, <3>2, <4>1 DEF RrInd, RrTypeOK, WriteMustWait
      <3>3. CASE rr_op[u] # "write"
        <4>1. ReadMustWait(u, k)
          BY <3>1, <3>3 DEF RrInd, RrSleepersWait
        <4>2. rrn_find(u)' = rrn_find(u)
          BY <1>0, <1>a, <3>1 DEF rrn_find, h
        <4>3. rr_writer_wanted[k] => rr_anon_rcount'[k] = rr_anon_rcount[k]
          BY <1>0, <1>a DEF RrInd, RrTypeOK, link, Linked
        <4> QED BY <1>a, <3>1, <3>3, <4>1, <4>2, <4>3 DEF ReadMustWait
      <3> QED BY <3>2, <3>3
    <2>2. rr_writer_wanted'[k] => \E u \in Procs : rr_op'[u] = "write" /\ rr_at'[u] = k
      BY <1>0, <1>a DEF RrInd, RrTypeOK, RrSleepersWait
    <2> QED BY <2>1, <2>2
  <1>8. RrReentrant'
    BY <1>0, <1>a, <1>b DEF RrInd, RrTypeOK, RrReentrant, RrHolds, h
  <1> QED BY <1>1, <1>2, <1>3, <1>4, <1>5, <1>6, <1>7, <1>8 DEF RrInd

(* A writer sleeps, and readers that come for the first time with it.      *)
LEMMA RrWriteSleeps ==
  ASSUME NEW t \in Procs, RrInd, rrw_enter_write(t), WriteMustWait(rr_at[t])
  PROVE  RrInd'
  <1> USE ClientsAssumption, RrwAssumption DEF rrCounts
  <1> DEFINE l == rr_at[t]
  <1>0. /\ l \in RrLocks /\ rr_op[t] = "write"
        /\ rr_cv' = [rr_cv EXCEPT ![l] = @ \cup {t}]
        /\ rr_writer_wanted' = [rr_writer_wanted EXCEPT ![l] = TRUE]
        /\ UNCHANGED <<rr_track_all, rr_writer, rr_tag, rr_op, rr_at,
                       rr_anon_rcount, rr_linked_rcount, rrn, rr_held>>
    BY DEF RrInd, RrTypeOK, rrw_enter_write, RrSleep
  <1>1. RrTypeOK'
    BY <1>0 DEF RrInd, RrTypeOK
  <1>2. RrNodes' /\ RrNoReaders'
    BY <1>0 DEF RrInd, RrNodes, RrNoReaders
  <1>3. RrCounts'
    BY <1>0 DEF RrInd, RrCounts, HoldsOn
  <1>4. RrWriters'
    BY <1>0 DEF RrInd, RrWriters, RrHas
  <1>5. RrCalls'
    BY <1>0 DEF RrInd, RrTypeOK, RrCalls, RrHolds
  <1>6. RrSleepersWait'
    <2> SUFFICES ASSUME NEW k \in RrLocks
                 PROVE  /\ \A u \in rr_cv'[k] : IF rr_op'[u] = "write"
                                                THEN WriteMustWait(k)' ELSE ReadMustWait(u, k)'
                        /\ rr_writer_wanted'[k] =>
                            \E u \in Procs : rr_op'[u] = "write" /\ rr_at'[u] = k
      BY DEF RrSleepersWait
    <2>1. ASSUME NEW u \in rr_cv'[k]
          PROVE  IF rr_op'[u] = "write" THEN WriteMustWait(k)' ELSE ReadMustWait(u, k)'
      <3>1. CASE u \in rr_cv[k]
        BY <1>0, <3>1 DEF RrInd, RrTypeOK, RrSleepersWait, ReadMustWait, WriteMustWait, rrn_find
      <3>2. CASE u = t /\ k = l
        BY <1>0, <3>2 DEF WriteMustWait
      <3> QED BY <1>0, <2>1, <3>1, <3>2 DEF RrInd, RrTypeOK
    <2>2. rr_writer_wanted'[k] => \E u \in Procs : rr_op'[u] = "write" /\ rr_at'[u] = k
      BY <1>0 DEF RrInd, RrTypeOK, RrSleepersWait
    <2> QED BY <2>1, <2>2
  <1>7. RrReentrant'
    <2>1. RrHolds(t) = {} /\ \A u \in Procs : RrHolds(u)' = RrHolds(u)
      BY <1>0 DEF RrInd, RrCalls, RrHolds
    <2> QED BY <1>0, <2>1 DEF RrInd, RrTypeOK, RrReentrant
  <1> QED BY <1>1, <1>2, <1>3, <1>4, <1>5, <1>6, <1>7 DEF RrInd

(* A writer gets one lock of the array and goes on to the next.            *)
LEMMA RrWriteEnters ==
  ASSUME NEW t \in Procs, RrInd, rrw_enter_write(t), ~WriteMustWait(rr_at[t])
  PROVE  RrInd'
  <1> USE ClientsAssumption, RrwAssumption DEF rrCounts
  <1> DEFINE l == rr_at[t]
  <1>0. /\ l \in RrLocks /\ rr_op[t] = "write" /\ t \notin rr_cv[l]
        /\ rr_writer[l] = NoProc /\ rr_anon_rcount[l] = 0 /\ rr_linked_rcount[l] = 0
    BY DEF RrInd, RrTypeOK, rrw_enter_write, WriteMustWait
  <1>a. /\ rr_writer_wanted' = [rr_writer_wanted EXCEPT ![l] = FALSE]
        /\ rr_writer' = [rr_writer EXCEPT ![l] = t]
        /\ IF l + 1 \in RrLocks
           THEN rr_at' = [rr_at EXCEPT ![t] = l + 1] /\ rr_op' = rr_op
           ELSE rr_op' = [rr_op EXCEPT ![t] = "none"] /\ rr_at' = rr_at
        /\ UNCHANGED <<rr_track_all, rr_tag, rr_cv, rr_anon_rcount, rr_linked_rcount,
                       rrn, rr_held>>
    BY DEF rrw_enter_write
  <1>b. \A k \in RrLocks : t \notin rr_cv[k]
    BY <1>0 DEF RrInd, RrCalls
  <1>c. \A u \in Procs : u # t => rr_op'[u] = rr_op[u] /\ rr_at'[u] = rr_at[u]
    BY <1>a DEF RrInd, RrTypeOK
  <1>1. RrTypeOK'
    BY <1>0, <1>a DEF RrInd, RrTypeOK
  <1>2. RrNodes'
    BY <1>a DEF RrInd, RrNodes
  <1>3. RrCounts'
    BY <1>a DEF RrInd, RrCounts, HoldsOn
  <1>4. RrWriters'
    <2> SUFFICES ASSUME NEW u \in Procs, NEW k \in RrLocks
                 PROVE  rr_writer'[k] = u <=> RrHas(u, k)'
      BY DEF RrWriters
    <2>0. 0 \in RrLocks /\ k \in Int /\ l \in Int
      BY <1>0 DEF RrLocks
    <2>1. CASE u = t
      <3>1. rr_writer[k] = t <=> k < l
        BY <1>0 DEF RrInd, RrWriters, RrHas
      <3>2. rr_writer'[k] = t <=> k < l + 1
        BY <1>0, <1>a, <2>0, <3>1 DEF RrInd, RrTypeOK
      <3>3. CASE l + 1 \in RrLocks
        <4>1. rr_op'[t] = "write" /\ rr_at'[t] = l + 1
          BY <1>0, <1>a, <3>3 DEF RrInd, RrTypeOK
        <4> QED BY <2>1, <3>2, <4>1 DEF RrHas
      <3>4. CASE l + 1 \notin RrLocks
        <4>1. rr_op'[t] = "none"
          BY <1>a, <3>4 DEF RrInd, RrTypeOK
        <4>2. k < l + 1 /\ 0 <= l
          BY <1>0, <3>4 DEF RrLocks
        <4>3. rr_writer[0] = t <=> 0 < l
          BY <1>0, <2>0 DEF RrInd, RrWriters, RrHas
        <4>4. rr_writer'[0] = t
          BY <1>0, <1>a, <2>0, <4>2, <4>3 DEF RrInd, RrTypeOK
        <4> QED BY <2>1, <3>2, <4>1, <4>2, <4>4 DEF RrHas
      <3> QED BY <3>3, <3>4
    <2>2. CASE u # t
      BY <1>0, <1>a, <1>c, <2>0, <2>2 DEF RrInd, RrTypeOK, RrWriters, RrHas
    <2> QED BY <2>1, <2>2
  <1>5. RrNoReaders'
    BY <1>0, <1>a DEF RrInd, RrTypeOK, RrNoReaders
  <1>6. RrCalls'
    <2> SUFFICES ASSUME NEW u \in Procs
                 PROVE  /\ rr_op'[u] = "write" => RrHolds(u)' = {}
                        /\ rr_op'[u] \in {"read", "prio"} =>
                            rr_at'[u] = RRM_TD_LOCK[u] /\ <<u, rr_tag'[u]>> \notin rr_held'
                        /\ \A k \in RrLocks : u \in rr_cv'[k] =>
                            rr_at'[u] = k /\ rr_op'[u] \in {"read", "prio", "write"}
      BY DEF RrCalls
    <2>1. CASE u = t
      BY <1>0, <1>a, <1>b, <2>1 DEF RrInd, RrTypeOK, RrCalls, RrHolds
    <2>2. CASE u # t
      BY <1>a, <1>c, <2>2 DEF RrInd, RrCalls, RrHolds
    <2> QED BY <2>1, <2>2
  <1>7. RrSleepersWait'
    <2> SUFFICES ASSUME NEW k \in RrLocks
                 PROVE  /\ \A u \in rr_cv'[k] : IF rr_op'[u] = "write"
                                                THEN WriteMustWait(k)' ELSE ReadMustWait(u, k)'
                        /\ rr_writer_wanted'[k] =>
                            \E u \in Procs : rr_op'[u] = "write" /\ rr_at'[u] = k
      BY DEF RrSleepersWait
    <2>1. CASE k = l
      <3>1. rr_writer'[k] # NoProc /\ rr_writer_wanted'[k] = FALSE
        BY <1>0, <1>a, <2>1 DEF RrInd, RrTypeOK
      <3> QED BY <3>1 DEF ReadMustWait, WriteMustWait
    <2>2. CASE k # l
      <3>1. rr_writer'[k] = rr_writer[k] /\ rr_writer_wanted'[k] = rr_writer_wanted[k]
        BY <1>a, <2>2 DEF RrInd, RrTypeOK
      <3>2. ASSUME NEW u \in rr_cv'[k]
            PROVE  IF rr_op'[u] = "write" THEN WriteMustWait(k)' ELSE ReadMustWait(u, k)'
        <4>1. u \in Procs /\ u \in rr_cv[k] /\ rr_op'[u] = rr_op[u]
          BY <1>a, <1>b, <1>c, <3>2 DEF RrInd, RrTypeOK
        <4>2. IF rr_op[u] = "write" THEN WriteMustWait(k) ELSE ReadMustWait(u, k)
          BY <4>1 DEF RrInd, RrSleepersWait
        <4>3. rrn_find(u)' = rrn_find(u)
          BY <1>a DEF rrn_find
        <4> QED BY <1>a, <3>1, <4>1, <4>2, <4>3 DEF ReadMustWait, WriteMustWait
      <3>3. ASSUME rr_writer_wanted'[k]
            PROVE  \E u \in Procs : rr_op'[u] = "write" /\ rr_at'[u] = k
        <4>1. PICK u \in Procs : rr_op[u] = "write" /\ rr_at[u] = k
          BY <3>1, <3>3 DEF RrInd, RrSleepersWait
        <4>2. u # t
          BY <2>2, <4>1
        <4> QED BY <1>c, <4>1, <4>2
      <3> QED BY <3>2, <3>3
    <2> QED BY <2>1, <2>2
  <1>8. RrReentrant'
    BY <1>a DEF RrInd, RrReentrant, RrHolds
  <1> QED BY <1>1, <1>2, <1>3, <1>4, <1>5, <1>6, <1>7, <1>8 DEF RrInd

(* A reader leaves.  Who sleeps because of it is woken when its counter    *)
(* becomes zero, and sleeps on rightly as long as it does not.             *)
LEMMA RrExitReadKeeps ==
  ASSUME NEW t \in Procs, NEW tag \in RrTags, RrInd, RrExitRead(t, tag)
  PROVE  RrInd'
  <1> USE ClientsAssumption, RrwAssumption DEF rrCounts
  <1> DEFINE l == RRM_TD_LOCK[t]
             h == <<t, tag>>
             linked == h \in rrn
  <1>0. /\ l \in RrLocks /\ rr_op[t] = "none" /\ h \in rr_held /\ linked \in BOOLEAN
        /\ linked => rr_linked_rcount[l] > 0
        /\ ~linked => rr_anon_rcount[l] > 0
    <2>1. l \in RrLocks /\ rr_op[t] = "none" /\ h \in rr_held /\ h[1] = t
      BY DEF RrExitRead
    <2> QED BY <2>1, RrHoldCounted DEF RrInd
  <1>1. rr_writer[l] = NoProc
    BY <1>0 DEF RrInd, RrNoReaders
  <1>a. /\ rrn' = rrn \ {h} /\ rr_held' = rr_held \ {h}
        /\ rr_linked_rcount' = [rr_linked_rcount EXCEPT ![l] = IF linked THEN @ - 1 ELSE @]
        /\ rr_anon_rcount' = [rr_anon_rcount EXCEPT ![l] = IF linked THEN @ ELSE @ - 1]
        /\ BroadcastLast(l, linked)
        /\ UNCHANGED <<rr_writer, rr_track_all, rr_writer_wanted, rr_op, rr_at, rr_tag>>
    <2>1. ExitLinked(t, tag, l) <=> linked
      BY DEF ExitLinked, rrn_find
    <2>2. rrw_exit(t, tag, l)
          /\ UNCHANGED <<rr_track_all, rr_writer_wanted, rr_op, rr_at, rr_tag>>
      BY DEF RrExitRead
    <2> QED BY <1>1, <2>1, <2>2 DEF rrw_exit, BroadcastLast
  <1> HIDE DEF h, linked
  <1>2. RrTypeOK'
    <2>1. /\ rr_linked_rcount' \in [RrLocks -> Nat] /\ rr_anon_rcount' \in [RrLocks -> Nat]
      BY <1>0, <1>a DEF RrInd, RrTypeOK
    <2>2. rr_cv' \in [RrLocks -> SUBSET Procs]
      BY <1>0, <1>a DEF RrInd, RrTypeOK, BroadcastLast
    <2> QED BY <1>a, <2>1, <2>2 DEF RrInd, RrTypeOK
  <1>3. RrNodes'
    BY <1>a DEF RrInd, RrNodes
  <1>4. RrCounts'
    <2>1. l = RRM_TD_LOCK[h[1]] /\ linked = (h \in rrn)
      BY DEF h, linked
    <2> QED BY <1>0, <1>a, <2>1, RrHoldRemoved DEF RrInd
  <1>5. RrWriters'
    BY <1>a DEF RrInd, RrWriters, RrHas
  <1>6. RrNoReaders'
    BY <1>0, <1>1, <1>a DEF RrInd, RrTypeOK, RrNoReaders
  <1>b. /\ \A k \in RrLocks : rr_cv'[k] \subseteq rr_cv[k]
        /\ rr_cv'[l] # {} => /\ linked => rr_linked_rcount'[l] # 0
                             /\ ~linked => rr_anon_rcount'[l] # 0
    BY <1>0, <1>a DEF RrInd, RrTypeOK, BroadcastLast
  <1>7. RrCalls'
    BY <1>a, <1>b DEF RrInd, RrCalls, RrHolds
  <1>8. RrSleepersWait'
    <2> SUFFICES ASSUME NEW k \in RrLocks
                 PROVE  /\ \A u \in rr_cv'[k] : IF rr_op'[u] = "write"
                                                THEN WriteMustWait(k)' ELSE ReadMustWait(u, k)'
                        /\ rr_writer_wanted'[k] =>
                            \E u \in Procs : rr_op'[u] = "write" /\ rr_at'[u] = k
      BY DEF RrSleepersWait
    <2>1. ASSUME NEW u \in rr_cv'[k]
          PROVE  IF rr_op'[u] = "write" THEN WriteMustWait(k)' ELSE ReadMustWait(u, k)'
      <3>1. u \in rr_cv[k] /\ u \in Procs
        BY <1>b, <2>1 DEF RrInd, RrTypeOK
      <3>2. IF rr_op[u] = "write" THEN WriteMustWait(k) ELSE ReadMustWait(u, k)
        BY <3>1 DEF RrInd, RrSleepersWait
      <3>3. CASE rr_op[u] = "write"
        <4>1. CASE k # l
          BY <1>a, <3>2, <3>3, <4>1 DEF RrInd, RrTypeOK, WriteMustWait
        <4>2. CASE k = l
          <5>1. rr_linked_rcount'[l] # 0 \/ rr_anon_rcount'[l] # 0
            BY <1>b, <2>1, <4>2
          <5>2. rr_linked_rcount'[l] \in Nat /\ rr_anon_rcount'[l] \in Nat
            BY <1>0, <1>2 DEF RrTypeOK
          <5>3. rr_anon_rcount'[k] > 0 \/ rr_linked_rcount'[k] > 0
            BY <4>2, <5>1, <5>2
          <5>4. WriteMustWait(k)'
            BY <5>3 DEF WriteMustWait
          <5> QED BY <1>a, <3>3, <5>4
        <4> QED BY <4>1, <4>2
      <3>4. CASE rr_op[u] # "write"
        <4>1. rrn_find(u) = {} => rrn_find(u)' = {}
          BY <1>a DEF rrn_find
        <4>2. rr_anon_rcount[k] = 0 => rr_anon_rcount'[k] = 0
          BY <1>0, <1>a DEF RrInd, RrTypeOK
        <4> QED BY <1>a, <3>2, <3>4, <4>1, <4>2 DEF ReadMustWait
      <3> QED BY <3>3, <3>4
    <2>2. rr_writer_wanted'[k] => \E u \in Procs : rr_op'[u] = "write" /\ rr_at'[u] = k
      BY <1>a DEF RrInd, RrSleepersWait
    <2> QED BY <2>1, <2>2
  <1>9. RrReentrant'
    BY <1>a, <1>b DEF RrInd, RrReentrant, RrHolds
  <1> QED BY <1>2, <1>3, <1>4, <1>5, <1>6, <1>7, <1>8, <1>9 DEF RrInd

(* A writer leaves one lock of the array after the other and wakes all.    *)
LEMMA RrExitWriteKeeps ==
  ASSUME NEW t \in Procs, RrInd, RrExitWrite(t)
  PROVE  RrInd'
  <1> USE ClientsAssumption, RrwAssumption DEF rrCounts
  <1> DEFINE l == IF rr_op[t] = "exit" THEN rr_at[t] ELSE 0
  <1>0. 0 \in RrLocks /\ l \in RrLocks /\ rr_op[t] \in {"none", "exit"}
    BY DEF RrInd, RrTypeOK, RrExitWrite, RrOwns, RrLocks
  <1>1. \A k \in RrLocks : rr_writer[k] = t <=> k >= l
    <2>1. CASE rr_op[t] = "exit"
      BY <2>1 DEF RrInd, RrWriters, RrHas
    <2>2. CASE rr_op[t] = "none"
      <3>1. rr_writer[0] = t /\ l = 0
        BY <2>2 DEF RrExitWrite, RrOwns
      <3> QED BY <1>0, <2>2, <3>1 DEF RrInd, RrWriters, RrHas, RrLocks
    <2> QED BY <1>0, <2>1, <2>2
  <1>2. rr_writer[l] = t
    BY <1>0, <1>1 DEF RrLocks
  <1>a. /\ rr_writer' = [rr_writer EXCEPT ![l] = NoProc]
        /\ rr_cv' = [rr_cv EXCEPT ![l] = {}]
        /\ IF l + 1 \in RrLocks
           THEN rr_op' = [rr_op EXCEPT ![t] = "exit"] /\ rr_at' = [rr_at EXCEPT ![t] = l + 1]
           ELSE rr_op' = [rr_op EXCEPT ![t] = "none"] /\ rr_at' = rr_at
        /\ UNCHANGED <<rr_track_all, rr_writer_wanted, rr_tag, rr_anon_rcount,
                       rr_linked_rcount, rrn, rr_held>>
    <2>1. rr_writer[l] # NoProc
      BY <1>2
    <2> QED BY <2>1 DEF RrExitWrite, rrw_exit
  <1> HIDE DEF l
  <1>b. \A k \in RrLocks : t \notin rr_cv[k] /\ rr_cv'[k] \subseteq rr_cv[k]
    BY <1>0, <1>a DEF RrInd, RrTypeOK, RrCalls
  <1>c. \A u \in Procs : u # t => rr_op'[u] = rr_op[u] /\ rr_at'[u] = rr_at[u]
    BY <1>a DEF RrInd, RrTypeOK
  <1>d. rr_op'[t] \in {"none", "exit"}
    BY <1>a DEF RrInd, RrTypeOK
  <1>3. RrTypeOK'
    BY <1>0, <1>a DEF RrInd, RrTypeOK
  <1>4. RrNodes'
    BY <1>a DEF RrInd, RrNodes
  <1>5. RrCounts'
    BY <1>a DEF RrInd, RrCounts, HoldsOn
  <1>6. RrWriters'
    <2> SUFFICES ASSUME NEW u \in Procs, NEW k \in RrLocks
                 PROVE  rr_writer'[k] = u <=> RrHas(u, k)'
      BY DEF RrWriters
    <2>0. k \in Int /\ l \in Int
      BY <1>0 DEF RrLocks
    <2>1. CASE u = t
      <3>1. rr_writer'[k] = t <=> k >= l + 1
        BY <1>0, <1>1, <1>a, <2>0 DEF RrInd, RrTypeOK
      <3>2. CASE l + 1 \in RrLocks
        <4>1. rr_op'[t] = "exit" /\ rr_at'[t] = l + 1
          BY <1>a, <3>2 DEF RrInd, RrTypeOK
        <4> QED BY <2>1, <3>1, <4>1 DEF RrHas
      <3>3. CASE l + 1 \notin RrLocks
        <4>1. rr_op'[t] = "none"
          BY <1>a, <3>3 DEF RrInd, RrTypeOK
        <4>2. ~(k >= l + 1)
          BY <1>0, <3>3 DEF RrLocks
        <4>3. rr_writer'[0] # t
          <5>1. l >= 0
            BY <1>0 DEF RrLocks
          <5> QED BY <1>0, <1>1, <1>a, <2>0, <5>1 DEF RrInd, RrTypeOK
        <4> QED BY <2>1, <3>1, <4>1, <4>2, <4>3 DEF RrHas
      <3> QED BY <3>2, <3>3
    <2>2. CASE u # t
      BY <1>0, <1>2, <1>a, <1>c, <2>0, <2>2 DEF RrInd, RrTypeOK, RrWriters, RrHas
    <2> QED BY <2>1, <2>2
  <1>7. RrNoReaders'
    BY <1>0, <1>a DEF RrInd, RrTypeOK, RrNoReaders
  <1>8. RrCalls'
    <2> SUFFICES ASSUME NEW u \in Procs
                 PROVE  /\ rr_op'[u] = "write" => RrHolds(u)' = {}
                        /\ rr_op'[u] \in {"read", "prio"} =>
                            rr_at'[u] = RRM_TD_LOCK[u] /\ <<u, rr_tag'[u]>> \notin rr_held'
                        /\ \A k \in RrLocks : u \in rr_cv'[k] =>
                            rr_at'[u] = k /\ rr_op'[u] \in {"read", "prio", "write"}
      BY DEF RrCalls
    <2>1. CASE u = t
      BY <1>b, <1>d, <2>1
    <2>2. CASE u # t
      BY <1>a, <1>b, <1>c, <2>2 DEF RrInd, RrCalls, RrHolds
    <2> QED BY <2>1, <2>2
  <1>9. RrSleepersWait'
    <2> SUFFICES ASSUME NEW k \in RrLocks
                 PROVE  /\ \A u \in rr_cv'[k] : IF rr_op'[u] = "write"
                                                THEN WriteMustWait(k)' ELSE ReadMustWait(u, k)'
                        /\ rr_writer_wanted'[k] =>
                            \E u \in Procs : rr_op'[u] = "write" /\ rr_at'[u] = k
      BY DEF RrSleepersWait
    <2>1. ASSUME NEW u \in rr_cv'[k]
          PROVE  IF rr_op'[u] = "write" THEN WriteMustWait(k)' ELSE ReadMustWait(u, k)'
      <3>1. k # l /\ u \in rr_cv[k] /\ u \in Procs /\ rr_op'[u] = rr_op[u]
        BY <1>0, <1>a, <1>b, <1>c, <2>1 DEF RrInd, RrTypeOK
      <3>2. IF rr_op[u] = "write" THEN WriteMustWait(k) ELSE ReadMustWait(u, k)
        BY <3>1 DEF RrInd, RrSleepersWait
      <3>3. rr_writer'[k] = rr_writer[k]
        BY <1>a, <3>1 DEF RrInd, RrTypeOK
      <3>4. rrn_find(u)' = rrn_find(u)
        BY <1>a DEF rrn_find
      <3> QED BY <1>a, <3>1, <3>2, <3>3, <3>4 DEF ReadMustWait, WriteMustWait
    <2>2. ASSUME rr_writer_wanted'[k]
          PROVE  \E u \in Procs : rr_op'[u] = "write" /\ rr_at'[u] = k
      <3>1. PICK u \in Procs : rr_op[u] = "write" /\ rr_at[u] = k
        BY <1>a, <2>2 DEF RrInd, RrSleepersWait
      <3> QED BY <1>0, <1>c, <3>1
    <2> QED BY <2>1, <2>2
  <1>10. RrReentrant'
    BY <1>a, <1>b DEF RrInd, RrReentrant, RrHolds
  <1> QED BY <1>3, <1>4, <1>5, <1>6, <1>7, <1>8, <1>9, <1>10 DEF RrInd

-----------------------------------------------------------------------------
(* The invariant holds in every state.                                     *)
LEMMA RrInvariant == RrSpec => []RrInd
  <1>1. RrInd /\ [RrNext]_rrVars => RrInd'
    <2> SUFFICES ASSUME RrInd, [RrNext]_rrVars PROVE RrInd'
      OBVIOUS
    <2>1. CASE RrNext
      BY <2>1, RrEnterKeeps, RrReadSleeps, RrReadEnters, RrWriteSleeps, RrWriteEnters,
         RrExitReadKeeps, RrExitWriteKeeps DEF RrNext
    <2>2. CASE UNCHANGED rrVars
      <3> USE <2>2 DEF rrVars, rrCounts
      <3>1. RrTypeOK' /\ RrNodes' /\ RrNoReaders'
        BY DEF RrInd, RrTypeOK, RrNodes, RrNoReaders
      <3>2. RrCounts'
        BY DEF RrInd, RrCounts, HoldsOn
      <3>3. RrWriters' /\ RrCalls'
        BY DEF RrInd, RrWriters, RrHas, RrCalls, RrHolds
      <3>4. RrSleepersWait' /\ RrReentrant'
        BY DEF RrInd, RrSleepersWait, RrReentrant, RrHolds, ReadMustWait, WriteMustWait, rrn_find
      <3> QED BY <3>1, <3>2, <3>3, <3>4 DEF RrInd
    <2> QED BY <2>1, <2>2
  <1> QED BY RrIndInit, <1>1, PTL DEF RrSpec

(* A writer that has gone through the array is alone: no hold is left on   *)
(* any lock, and no other thread has gone through it.                      *)
THEOREM RrWriterIsAlone == RrSpec => []RrExclusion
  <1>1. RrInd => RrExclusion
    <2> SUFFICES ASSUME RrInd, NEW t \in Procs, RrOwns(t)
                 PROVE  rr_held = {} /\ \A u \in Procs \ {t} : ~RrOwns(u)
      BY DEF RrExclusion
    <2>1. \A k \in RrLocks : rr_writer[k] = t
      BY DEF RrInd, RrWriters, RrHas, RrOwns
    <2>2. rr_held = {}
      <3> SUFFICES ASSUME NEW h \in rr_held PROVE FALSE
        OBVIOUS
      <3> DEFINE l == RRM_TD_LOCK[h[1]]
      <3>1. /\ l \in RrLocks
            /\ rr_linked_rcount[l] > 0 \/ rr_anon_rcount[l] > 0
        BY RrHoldCounted DEF RrInd
      <3>2. rr_writer[l] # NoProc
        BY <2>1, <3>1, ClientsAssumption
      <3> QED BY <3>1, <3>2 DEF RrInd, RrNoReaders
    <2> QED BY <2>2 DEF RrOwns
  <1> QED BY RrInvariant, <1>1, PTL

(* rrw_held() tells readers as its comment says.                           *)
LEMMA RrHeldIsRight == RrInd => RrHeld
  <1> SUFFICES ASSUME RrInd, NEW t \in Procs
               PROVE  /\ RrHolds(t) # {} => rrw_held(t)
                      /\ rr_track_all /\ rrw_held(t) => RrHolds(t) # {}
    BY DEF RrHeld
  <1>1. ASSUME NEW h \in RrHolds(t) PROVE rrw_held(t)
    <2>1. h \in rr_held /\ h[1] = t
      BY <1>1 DEF RrHolds
    <2>2. h \notin rrn => rr_anon_rcount[RRM_TD_LOCK[t]] > 0
      BY <2>1, RrHoldCounted DEF RrInd
    <2> QED BY <2>1, <2>2 DEF rrw_held, rrn_find
  <1>2. ASSUME rr_track_all, rrw_held(t) PROVE RrHolds(t) # {}
    <2> DEFINE l == RRM_TD_LOCK[t]
    <2>1. l \in RrLocks /\ HoldsOn(l) \ rrn = {}
      BY <1>2, RrwAssumption DEF RrInd, RrNodes, HoldsOn
    <2>2. rr_anon_rcount[l] = 0
      BY <2>1, FS_EmptySet DEF RrInd, RrCounts
    <2> QED BY <1>2, <2>2 DEF RrInd, RrNodes, rrw_held, rrn_find, RrHolds
  <1> QED BY <1>1, <1>2

(* The counters are right, nobody sleeps who need not, a thread that       *)
(* re-enters as a reader does not sleep at all, and rrw_held() is right.   *)
THEOREM RrLockIsCorrect == RrSpec => []RrCorrect
  <1>1. RrInd => RrCorrect
    BY RrHeldIsRight DEF RrInd, RrCorrect
  <1> QED BY RrInvariant, <1>1, PTL
=============================================================================
