------------------------------ MODULE MCDevLoop ------------------------------
(***************************************************************************)
(* Values for TLC's runs of DevLoop: how often each external event may     *)
(* happen, and which code versions have diffs that matter to the policy.   *)
(***************************************************************************)
EXTENDS DevLoop

BudgetOf(events) == [e \in ExternalEvents |-> IF e \in DOMAIN events THEN events[e] ELSE 0]

Interrupted == BudgetOf([kill |-> 1, fault |-> 2, quota |-> 1])
Resumed == BudgetOf([resume |-> 1, dpush |-> 1, kill |-> 1, rebuild |-> 1])
OneOfEach == BudgetOf([kill |-> 1, fault |-> 1, quota |-> 1])

NoCodes == {}
BaseCode == {0}
SecondCode == {2}
==============================================================================
