------------------------------- MODULE Budget -------------------------------
(***************************************************************************)
(* The execution budget of one SWE-Forge run (agent/sweforge/budget.py):   *)
(* one object that the graph's nodes and the tool-calling agents share.    *)
(*                                                                         *)
(*   model, tool   calls consumed so far                                   *)
(*   reason        exhausted_reason: the limit the last failing check met, *)
(*                 "none" as long as no check has failed                   *)
(*                                                                         *)
(* The clock is read only inside a check, so whether the wall time has     *)
(* passed is chosen anew at each check until one finds that it has.  Token *)
(* and cost limits are left out: every caller consumes a model call with   *)
(* no usage, so cost_usd stays 0.0 and check_cost never fails; check_tokens*)
(* and check_recovery have no caller.                                      *)
(***************************************************************************)
EXTENDS Integers

CONSTANTS
    MaxModelCalls,  \* BudgetLimits.max_model_calls
    MaxToolCalls,   \* BudgetLimits.max_tool_calls
    Workers         \* WorkflowConfig.subtask_workers: threads sharing the budget

ASSUME BudgetAssumption ==
    /\ MaxModelCalls \in Nat
    /\ MaxToolCalls \in Nat
    /\ Workers \in Nat \ {0}

Limits == {"time", "model", "tool"}

Budgets == [model : Nat, tool : Nat, reason : Limits \union {"none"}]

FreshBudget == [model |-> 0, tool |-> 0, reason |-> "none"]

Exhausted(b) == b.reason # "none"
OutOfTime(b) == b.reason = "time"

(***************************************************************************)
(* check_model_call and check_tool_call look at the clock first, so a      *)
(* failing check names the time limit whenever it has passed, and names    *)
(* the counter only when the counter is at its limit.                      *)
(***************************************************************************)
ModelCallFits(b) == ~OutOfTime(b) /\ b.model < MaxModelCalls
ToolCallFits(b)  == ~OutOfTime(b) /\ b.tool < MaxToolCalls

ModelRefusals(b) ==
    {"time"} \union (IF ~OutOfTime(b) /\ b.model >= MaxModelCalls THEN {"model"} ELSE {})
ToolRefusals(b) ==
    {"time"} \union (IF ~OutOfTime(b) /\ b.tool >= MaxToolCalls THEN {"tool"} ELSE {})

Refuse(b, limit) == [b EXCEPT !.reason = limit]

(***************************************************************************)
(* model_calls += 1 is one step of the interpreter's lock, but             *)
(* tool_calls += max(0, count) calls a function between its load and its   *)
(* store: it stores one more than the counter it has seen.                 *)
(***************************************************************************)
ConsumeModelCall(b)      == [b EXCEPT !.model = @ + 1]
ConsumeToolCall(b, seen) == [b EXCEPT !.tool = seen + 1]

(***************************************************************************)
(* A check and the consumption that follows it are two separate statements *)
(* run by each worker, so the counters are bounded by the limit plus the   *)
(* workers that may stand between the two.  With three workers or more the *)
(* tool counter is not: while one holds an old value to store, the others  *)
(* are let in again each time that another old value is stored.            *)
(***************************************************************************)
ModelCeiling == MaxModelCalls + Workers - 1
ToolCeiling  == MaxToolCalls + Workers - 1

ToolWithinCeiling(b) == Workers <= 2 => b.tool <= ToolCeiling

(***************************************************************************)
(* SWEForgeRuntime.call_tool, n times in a row by one node: the first k    *)
(* calls are served and the rest are answered "tool budget exhausted".  A  *)
(* refused call consumes nothing but does set exhausted_reason.            *)
(***************************************************************************)
Served(b, n) == {k \in 0..n : k = 0 \/ (~OutOfTime(b) /\ b.tool + k <= MaxToolCalls)}

RefusedAfter(b, k) ==
    LET c == [b EXCEPT !.tool = @ + k] IN {Refuse(c, r) : r \in ToolRefusals(c)}

CallTools(b, n) ==
    (IF n \in Served(b, n) THEN {[b EXCEPT !.tool = @ + n]} ELSE {})
        \union UNION {RefusedAfter(b, k) : k \in Served(b, n) \ {n}}

(***************************************************************************)
(* What dispatching the agents of a plan may leave in the budget: each one *)
(* runs a ToolCallingLoop, which checks before every model and tool call.  *)
(* No call is made once a limit is reached, a tool call follows a model    *)
(* call, and only a refusal sets exhausted_reason.  A provider error ends  *)
(* an agent with its call unconsumed, so there is no lower bound; and of   *)
(* several workers one may store a lower tool counter than the one that    *)
(* another was refused for.                                                *)
(***************************************************************************)
ToolCounters(b) ==
    IF Workers <= 2 THEN b.tool..ToolCeiling ELSE {n \in Nat : n >= b.tool}

RunAgents(b) ==
    {c \in [model : b.model..ModelCeiling, tool : ToolCounters(b),
            reason : Limits \union {b.reason}] :
        /\ c.model # b.model => ModelCallFits(b)
        /\ c.tool # b.tool => ToolCallFits(b) /\ c.model # b.model
        /\ OutOfTime(b) => OutOfTime(c)
        /\ c.reason # b.reason /\ c.reason = "model" => c.model >= MaxModelCalls
        /\ c.reason # b.reason /\ c.reason = "tool" =>
               c.tool >= MaxToolCalls \/ (Workers > 1 /\ c.tool # b.tool)}
=============================================================================
