-------------------------- MODULE JobQueueContract --------------------------
(***************************************************************************)
(* What the queue service promises its clients, without rows, clocks,      *)
(* locks or receipts: an accepted job is delivered at most `budget' times, *)
(* stays accepted until a delivery of it has been completed, and is        *)
(* never un-completed.  A refused job ("retryable: false") loses the       *)
(* deliveries it has left.  JobQueue.tla is shown to implement this        *)
(* module: the refinement mapping is the INSTANCE at the end of it.        *)
(***************************************************************************)
EXTENDS Naturals

CONSTANT Jobs

VARIABLES stage,      \* job -> "new", "accepted" or "completed"
          delivered,  \* job -> how often it was handed to a worker
          budget      \* job -> how often it may be handed out in all

contractVars == <<stage, delivered, budget>>

ContractInit ==
    /\ stage = [j \in Jobs |-> "new"]
    /\ delivered = [j \in Jobs |-> 0]
    /\ budget = [j \in Jobs |-> 0]

Accept(j) ==
    /\ stage[j] = "new"
    /\ budget'[j] \in Nat \ {0}
    /\ budget' = [budget EXCEPT ![j] = budget'[j]]
    /\ stage' = [stage EXCEPT ![j] = "accepted"]
    /\ UNCHANGED delivered

Deliver(j) ==
    /\ stage[j] = "accepted"
    /\ delivered[j] < budget[j]
    /\ delivered' = [delivered EXCEPT ![j] = @ + 1]
    /\ UNCHANGED <<stage, budget>>

Complete(j) ==
    /\ stage[j] = "accepted"
    /\ delivered[j] > 0
    /\ stage' = [stage EXCEPT ![j] = "completed"]
    /\ UNCHANGED <<delivered, budget>>

Refuse(j) ==
    /\ stage[j] = "accepted"
    /\ delivered[j] > 0
    /\ budget' = [budget EXCEPT ![j] = delivered[j]]
    /\ UNCHANGED <<stage, delivered>>

ContractNext ==
    \E j \in Jobs : Accept(j) \/ Deliver(j) \/ Complete(j) \/ Refuse(j)

ContractSpec == ContractInit /\ [][ContractNext]_contractVars
=============================================================================
