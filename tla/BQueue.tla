-------------------------------- MODULE BQueue --------------------------------
(***************************************************************************)
(* The blocking queue between a thread that traverses or receives and the  *)
(* one that works on what it finds (bqueue.c).  There is one thread at     *)
(* each end; each has a list of its own, and the lists in between and      *)
(* their sizes are moved under bq_lock.  A step is one critical section of *)
(* bq_lock or what one thread does without it.                             *)
(*                                                                         *)
(* The items are numbered as they come.  The producer flushes the last.    *)
(***************************************************************************)
EXTENDS Integers, Sequences, SequencesExt

CONSTANTS
    MaxItems,           \* bound: the items of a behaviour
    bq_maxsize, bq_fill_fraction

ASSUME BqAssumption ==
    /\ MaxItems \in Nat /\ bq_maxsize \in Nat \ {0}
    /\ bq_fill_fraction \in Nat \ {0}

VARIABLES
    bq_enqueuing_list, bq_list, bq_dequeuing_list,  \* the sizes of the items, in order
    bq_enqueuing_size, bq_size, bq_dequeuing_size,
    bq_add_cv, bq_pop_cv,   \* whether the producer, the consumer sleeps on it
    bq_enq, bq_deq,     \* where the two threads are
    bq_in, bq_out       \* history: the sizes of what was put in and taken out

bqVars == <<bq_enqueuing_list, bq_list, bq_dequeuing_list, bq_enqueuing_size, bq_size,
            bq_dequeuing_size, bq_add_cv, bq_pop_cv, bq_enq, bq_deq, bq_in, bq_out>>
producerVars == <<bq_enqueuing_list, bq_enqueuing_size, bq_enq, bq_in>>
consumerVars == <<bq_dequeuing_list, bq_dequeuing_size, bq_deq, bq_out>>

(* bqueue_init().                                                          *)
BqInit ==
    /\ bq_enqueuing_list = <<>> /\ bq_list = <<>> /\ bq_dequeuing_list = <<>>
    /\ bq_enqueuing_size = 0 /\ bq_size = 0 /\ bq_dequeuing_size = 0
    /\ bq_add_cv = FALSE /\ bq_pop_cv = FALSE
    /\ bq_enq = "idle" /\ bq_deq = "idle"
    /\ bq_in = <<>> /\ bq_out = <<>>

(* bqueue_enqueue(), bqueue_enqueue_flush(): adds to the producer's list.  *)
BqEnqueue(item_size, flush) ==
    /\ bq_enq = "idle"
    /\ Len(bq_in) < MaxItems
    /\ Len(bq_in) + 1 = MaxItems => flush
    /\ bq_enqueuing_list' = Append(bq_enqueuing_list, item_size)
    /\ bq_enqueuing_size' = bq_enqueuing_size + item_size
    /\ bq_in' = Append(bq_in, item_size)
    /\ bq_enq' = IF flush \/ bq_enqueuing_size' >= bq_maxsize \div bq_fill_fraction
                 THEN "flush" ELSE "idle"
    /\ UNCHANGED <<bq_list, bq_size, bq_add_cv, bq_pop_cv, consumerVars>>

(* Mutant: the consumer is woken when the queue has been filled, only.     *)
BqPopWakeFull == bq_pop_cv' = (bq_pop_cv /\ bq_size' < bq_maxsize)

(* cv_broadcast(&q->bq_pop_cv).                                            *)
BqPopWake == bq_pop_cv' = FALSE

(* The producer waits while the queue is full.                             *)
BqFull == bq_size > bq_maxsize

(* bqueue_enqueue_impl() with bq_lock, once more after each wait.          *)
BqFlush ==
    /\ bq_enq = "flush" /\ ~bq_add_cv
    /\ IF BqFull
       THEN /\ bq_add_cv' = TRUE
            /\ UNCHANGED <<producerVars, bq_list, bq_size, bq_pop_cv>>
       ELSE /\ bq_size' = bq_size + bq_enqueuing_size
            /\ bq_list' = bq_list \o bq_enqueuing_list
            /\ bq_enqueuing_list' = <<>> /\ bq_enqueuing_size' = 0
            /\ BqPopWake
            /\ bq_enq' = "idle"
            /\ UNCHANGED <<bq_in, bq_add_cv>>
    /\ UNCHANGED consumerVars

(* The consumer takes the first item of its own list.                      *)
BqTake(list, size) ==
    /\ bq_dequeuing_list' = Tail(list)
    /\ bq_dequeuing_size' = size - Head(list)
    /\ bq_out' = Append(bq_out, Head(list))
    /\ bq_deq' = "idle"

(* bqueue_dequeue(): from its own list, ...                                *)
BqDequeue ==
    /\ bq_deq = "idle"
    /\ IF bq_dequeuing_list # <<>>
       THEN BqTake(bq_dequeuing_list, bq_dequeuing_size)
       ELSE bq_deq' = "pop" /\ UNCHANGED <<bq_dequeuing_list, bq_dequeuing_size, bq_out>>
    /\ UNCHANGED <<producerVars, bq_list, bq_size, bq_add_cv, bq_pop_cv>>

(* Mutant: the items stay in the queue as well.                            *)
BqPopCopies == bq_size' = 0 /\ UNCHANGED bq_list

(* list_move_tail() and bq_size = 0.                                       *)
BqPopAll == bq_list' = <<>> /\ bq_size' = 0

(* ... or with bq_lock, once more after each wait, all there is.           *)
BqPop ==
    /\ bq_deq = "pop" /\ ~bq_pop_cv
    /\ IF bq_size = 0
       THEN /\ bq_pop_cv' = TRUE
            /\ UNCHANGED <<consumerVars, bq_list, bq_size, bq_add_cv>>
       ELSE /\ BqTake(bq_dequeuing_list \o bq_list, bq_size)
            /\ BqPopAll
            /\ bq_add_cv' = FALSE
            /\ UNCHANGED bq_pop_cv
    /\ UNCHANGED producerVars

(* The consumer has had everything and asks for no more.                   *)
BqAtEnd == Len(bq_out) = MaxItems /\ UNCHANGED bqVars

BqNext ==
    \/ \E item_size \in 1..bq_maxsize, flush \in BOOLEAN : BqEnqueue(item_size, flush)
    \/ BqFlush \/ BqPop \/ BqAtEnd
    \/ Len(bq_out) < MaxItems /\ BqDequeue

BqSpec == BqInit /\ [][BqNext]_bqVars

-----------------------------------------------------------------------------
SumOf(list) == IF list = <<>> THEN 0 ELSE FoldSeq(LAMBDA x, y : x + y, 0, list)

BqTypeOK ==
    /\ {bq_add_cv, bq_pop_cv} \subseteq BOOLEAN
    /\ bq_enq \in {"idle", "flush"} /\ bq_deq \in {"idle", "pop"}
    /\ bq_enqueuing_size = SumOf(bq_enqueuing_list)
    /\ bq_size = SumOf(bq_list)
    /\ bq_dequeuing_size = SumOf(bq_dequeuing_list)

(* Every item comes out once and in the order it was put in, although it   *)
(* goes through three lists, two of which are changed without bq_lock.     *)
BqFifo ==
    /\ BqTypeOK
    /\ bq_in = bq_out \o bq_dequeuing_list \o bq_list \o bq_enqueuing_list

(* The two threads do not wait for each other, and nobody sleeps on when   *)
(* it could go on: the producer sleeps only while the queue is full, the   *)
(* consumer only while it is empty, and when the producer has flushed the  *)
(* last item the consumer sleeps only after it has had it.  The shared     *)
(* list goes beyond bq_maxsize by what a flush that found room has         *)
(* gathered: less than one fill fraction, and the item that came last.     *)
BqNobodyStuck ==
    /\ bq_size <= bq_maxsize + (bq_maxsize \div bq_fill_fraction) + bq_maxsize
    /\ bq_add_cv => bq_size > bq_maxsize
    /\ bq_pop_cv => bq_size = 0
    /\ bq_pop_cv /\ Len(bq_in) = MaxItems /\ bq_enq = "idle" => Len(bq_out) = MaxItems
=============================================================================
