----------------------------- MODULE PoolCommit -----------------------------
(***************************************************************************)
(* What committing a txg means to the rest of the system: one txg at a     *)
(* time is being committed; it takes effect at one instant; once           *)
(* spa_sync() has returned, a crash cannot undo it.                        *)
(***************************************************************************)
EXTENDS Integers

CONSTANT InitTxg        \* the txg the pool was created in

VARIABLES
    durable,            \* the txg that opening the pool would find
    tip,                \* the txg that is being, or was last, committed
    acked,              \* the last one spa_sync() has finished
    up                  \* the system is running

commitVars == <<durable, tip, acked, up>>

CommitInit == durable = InitTxg /\ tip = InitTxg /\ acked = InitTxg /\ up = TRUE

(* The changes of the next txg are being written.                          *)
Begin ==
    /\ up /\ acked = tip
    /\ tip' \in Nat /\ tip' > tip
    /\ UNCHANGED <<durable, acked, up>>

TakeEffect == up /\ durable' = tip /\ UNCHANGED <<tip, acked, up>>

Acknowledge == up /\ durable = tip /\ acked' = tip /\ UNCHANGED <<durable, tip, up>>

(* What was being committed may or may not have taken effect.              *)
Fail == up /\ up' = FALSE /\ durable' \in {durable, tip} /\ UNCHANGED <<tip, acked>>

Recover == ~up /\ up' = TRUE /\ tip' = durable /\ acked' = durable /\ UNCHANGED durable

CommitNext == Begin \/ TakeEffect \/ Acknowledge \/ Fail \/ Recover

CommitSpec == CommitInit /\ [][CommitNext]_commitVars
=============================================================================
