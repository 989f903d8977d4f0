-------------------------------- MODULE MCTxg --------------------------------
(* Model-checking instances of the transaction-group pipeline.             *)
EXTENDS TxgRefines, TLC

CONSTANTS t1, t2

(* Both threads run transactions, push txgs out with kicks, and one of     *)
(* them stops the pool.                                                    *)
Transactions == [t \in {t1, t2} |-> {"hold", "callback", "kick", "stop"}]

(* One thread runs transactions and waits for them to be on disk, the      *)
(* other waits in all ways and stops the pool.                             *)
Waiters ==
    (t1 :> {"hold", "wait_synced"}) @@ (t2 :> {"wait_synced", "wait_sig", "wait_open", "stop"})

Symmetry == Permutations({t1, t2})
=============================================================================
