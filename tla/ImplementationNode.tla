-------------------------- MODULE ImplementationNode --------------------------
(***************************************************************************)
(* The implementation node as the rest of the graph sees it: one step that *)
(* runs every agent of the plan against the shared budget.  Workflow's     *)
(* Implementation action takes this step; AgentPool shows what it is made  *)
(* of.                                                                     *)
(***************************************************************************)
EXTENDS Budget

VARIABLES
    budget,   \* runtime.budget
    edited,   \* whether an edit reached the working tree
    returned  \* whether the node has returned

vars == <<budget, edited, returned>>

(***************************************************************************)
(* The budgets a run reaches implementation with: tools have been called,  *)
(* a limit may have been met, but no agent has run yet.                    *)
(***************************************************************************)
Arriving ==
    {b \in [model : {0}, tool : 0..MaxToolCalls, reason : {"none", "time", "tool"}] :
        b.reason = "tool" => b.tool = MaxToolCalls}

Init == budget \in Arriving /\ edited = FALSE /\ returned = FALSE

Dispatch ==
    /\ ~returned
    /\ budget' \in RunAgents(budget)
    /\ edited' \in {FALSE, budget'.model # budget.model}
    /\ returned' = TRUE

Next == Dispatch

Spec == Init /\ [][Next]_vars
=============================================================================
