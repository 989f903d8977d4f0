---------------------------- MODULE MCAllocWaits ----------------------------
(* Transactions that wait and the allocator side by side: a behaviour is   *)
(* one of one of them, the other stays in one of its initial states.       *)
EXTENDS MCDmuTx, MCMetaslab

VARIABLE active         \* what this behaviour is one of

BothInit ==
    /\ active \in {"dmu_tx", "metaslab"}
    /\ Init /\ MsInit
    /\ active # "metaslab" => ms_budget.crashes = 2

BothNext ==
    /\ UNCHANGED active
    /\ IF active = "dmu_tx" THEN Next ELSE UNCHANGED vars
    /\ IF active = "metaslab" THEN MsNext ELSE UNCHANGED msVars

BothSpec ==
    /\ BothInit /\ [][BothNext]_<<active, vars, msVars>>
    /\ active = "dmu_tx" => Fairness
=============================================================================
