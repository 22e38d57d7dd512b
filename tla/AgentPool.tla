------------------------------ MODULE AgentPool ------------------------------
(***************************************************************************)
(* Inside the implementation node: the layers of the task plan, the thread *)
(* pool that runs the agents of a layer, and the ToolCallingLoop that each *)
(* agent runs against the budget they share                                *)
(* (agent/sweforge/graph/workflow.py, schemas.py, agents/tool_loop.py).    *)
(*                                                                         *)
(* A check of the budget, the call it allows and the charge for that call  *)
(* are separate steps, since another agent's thread may run between any    *)
(* two of them.  One check is one step, since it reads the counter once,   *)
(* and so is the charge for a model call; the charge for a tool call is    *)
(* the load of the counter and its store, between which the interpreter    *)
(* may switch threads (see ConsumeToolCall).                               *)
(***************************************************************************)
EXTENDS Budget, FiniteSets

CONSTANTS
    Subtasks,       \* ids of the plan's subtasks
    Plans,          \* the depends_on relations a plan may have
    MaxIterations,  \* ToolCallingLoop.max_iterations
    MaxRetries,     \* ToolErrorPolicy.max_retries
    MaxRequested    \* bound on the tool calls of one response

(***************************************************************************)
(* TaskPlan._validate_dag: known ids only, and no cycle.                   *)
(***************************************************************************)
ValidDag(depends) ==
    /\ depends \in [Subtasks -> SUBSET Subtasks]
    /\ \A S \in SUBSET Subtasks \ {{}} : \E s \in S : depends[s] \intersect S = {}

ASSUME PoolAssumption ==
    /\ IsFiniteSet(Subtasks) /\ Subtasks \subseteq Nat
    /\ \A depends \in Plans : ValidDag(depends)
    /\ MaxIterations \in Nat
    /\ MaxRetries \in Nat
    /\ MaxRequested \in Nat

VARIABLES
    plan,      \* depends_on of every subtask; never changes
    start,     \* the budget the node was entered with; never changes
    budget,    \* runtime.budget
    late,      \* elapsed() has reached max_wall_time_seconds
    finished,  \* subtasks of the layers that have been dispatched
    stage,     \* where each agent is in agent.run
    round,     \* rounds of the tool phase an agent has completed
    pending,   \* tool calls of the last response still to be served
    tries,     \* attempts made of the tool call being served
    loaded,    \* the counter an agent is about to store one more of, or 0
    refused,   \* a model check has been refused to this agent
    requests,  \* model requests the agent has sent
    result,    \* what agent.run returned
    edited,    \* an edit has reached the working tree
    returned   \* the node has returned

loop == <<round, pending, tries, loaded>>
node == <<finished, edited, returned>>
vars == <<plan, start, budget, late, node, stage, loop, refused, requests, result>>

Stages == {"waiting", "check", "invoke", "charge", "serve", "chargeTool", "storeTool",
           "runTool", "final", "extract", "chargeFinal", "done"}

-----------------------------------------------------------------------------
(* The dispatch of a plan.                                                 *)

Node == INSTANCE ImplementationNode WITH budget <- IF returned THEN budget ELSE start

Init ==
    /\ plan \in Plans
    /\ start \in Node!Arriving
    /\ budget = start
    /\ late \in {OutOfTime(start), TRUE}
    /\ finished = {} /\ edited = FALSE /\ returned = FALSE
    /\ stage = [s \in Subtasks |-> "waiting"]
    /\ round = [s \in Subtasks |-> 0]
    /\ pending = [s \in Subtasks |-> 0]
    /\ tries = [s \in Subtasks |-> 0]
    /\ loaded = [s \in Subtasks |-> 0]
    /\ refused = [s \in Subtasks |-> FALSE]
    /\ requests = [s \in Subtasks |-> 0]
    /\ result = [s \in Subtasks |-> "none"]

(***************************************************************************)
(* TaskPlan.execution_layers: the subtasks not yet layered whose           *)
(* dependencies all are.                                                   *)
(***************************************************************************)
Layer == {s \in Subtasks \ finished : plan[s] \subseteq finished}

Active == {s \in Subtasks : stage[s] \notin {"waiting", "done"}}

(***************************************************************************)
(* One agent after the other, or a ThreadPoolExecutor of subtask_workers   *)
(* threads for a layer of several, which takes them in the order of their  *)
(* ids.                                                                    *)
(***************************************************************************)
Width == IF Workers > 1 /\ Cardinality(Layer) > 1 THEN Workers ELSE 1

Goto(s, to) == stage' = [stage EXCEPT ![s] = to]
Finish(s, r) == Goto(s, "done") /\ result' = [result EXCEPT ![s] = r]

(***************************************************************************)
(* The tool phase is entered again until its iterations are used up.       *)
(***************************************************************************)
NextRound(n) == IF n < MaxIterations THEN "check" ELSE "final"

(***************************************************************************)
(* A model that cannot bind tools skips the tool phase, and a model that   *)
(* cannot be built fails the agent.                                        *)
(***************************************************************************)
StartAgent(s) ==
    /\ s \in Layer /\ stage[s] = "waiting"
    /\ \A t \in Layer : t < s => stage[t] # "waiting"
    /\ Cardinality(Active) < Width
    /\ \/ \E to \in {NextRound(0), "final"} : Goto(s, to) /\ UNCHANGED result
       \/ Finish(s, "failed")
    /\ UNCHANGED <<plan, start, budget, late, node, loop, refused, requests>>

EndLayerEarly ==
    /\ Layer # {}
    /\ finished' = finished \union Layer
    /\ UNCHANGED <<plan, start, budget, late, edited, returned, stage, loop,
                   refused, requests, result>>

EndLayerOfSuccesses ==
    /\ Layer # {}
    /\ \A s \in Layer : stage[s] = "done"
    /\ finished' = finished \union {s \in Layer : result[s] = "edits"}
    /\ UNCHANGED <<plan, start, budget, late, edited, returned, stage, loop,
                   refused, requests, result>>

EndLayer ==
    /\ Layer # {}
    /\ \A s \in Layer : stage[s] = "done"
    /\ finished' = finished \union Layer
    /\ UNCHANGED <<plan, start, budget, late, edited, returned, stage, loop,
                   refused, requests, result>>

(***************************************************************************)
(* The edits of every layer are written at the end; a write may fail.      *)
(***************************************************************************)
Return ==
    /\ ~returned /\ Layer = {}
    /\ edited' \in {FALSE, \E s \in Subtasks : result[s] = "edits"}
    /\ returned' = TRUE
    /\ UNCHANGED <<plan, start, budget, late, finished, stage, loop, refused,
                   requests, result>>

ClockRunsOut ==
    /\ ~returned /\ ~late
    /\ late' = TRUE
    /\ UNCHANGED <<plan, start, budget, node, stage, loop, refused, requests, result>>

-----------------------------------------------------------------------------
(* The budget's checks, with the clock as it is.                           *)

(***************************************************************************)
(* Slips, here and below: what a plausible mistake in the definition that  *)
(* comes next would make of it.  No specification uses them; a mutation of *)
(* the model puts one in the place of the definition.                      *)
(***************************************************************************)
ModelCheckOnceMore == ~late /\ budget.model <= MaxModelCalls

ModelCheckPasses == ~late /\ budget.model < MaxModelCalls
ToolCheckPasses  == ~late /\ budget.tool < MaxToolCalls

RefuseNamingCounter(limit) == budget' = Refuse(budget, limit)

RefuseCall(limit) == budget' = Refuse(budget, IF late THEN "time" ELSE limit)

(***************************************************************************)
(* A refused model check ends the tool phase.                              *)
(***************************************************************************)
CheckModel(s) ==
    /\ stage[s] = "check"
    /\ \/ /\ ModelCheckPasses
          /\ Goto(s, "invoke")
          /\ UNCHANGED <<budget, refused>>
       \/ /\ ~ModelCheckPasses
          /\ RefuseCall("model")
          /\ refused' = [refused EXCEPT ![s] = TRUE]
          /\ Goto(s, "final")
    /\ UNCHANGED <<plan, start, late, node, loop, requests, result>>

(***************************************************************************)
(* A provider's exception is swallowed by agent.run: the agent has failed  *)
(* and its request is never charged.                                       *)
(***************************************************************************)
SendRequest(s, answered) ==
    /\ requests' = [requests EXCEPT ![s] = @ + 1]
    /\ \/ Goto(s, answered) /\ UNCHANGED result
       \/ Finish(s, "failed")
    /\ UNCHANGED <<plan, start, budget, late, node, loop, refused>>

Invoke(s) == stage[s] = "invoke" /\ SendRequest(s, "charge")

(***************************************************************************)
(* The response asks for tools, or for none and so ends the tool phase.    *)
(***************************************************************************)
Charge(s) ==
    /\ stage[s] = "charge"
    /\ budget' = ConsumeModelCall(budget)
    /\ \E n \in 0..MaxRequested :
          /\ pending' = [pending EXCEPT ![s] = n]
          /\ Goto(s, IF n = 0 THEN "final" ELSE "serve")
    /\ round' = [round EXCEPT ![s] = @ + 1]
    /\ UNCHANGED <<plan, start, late, node, tries, loaded, refused, requests, result>>

ServeOnceMore(s, n) ==
    /\ pending' = [pending EXCEPT ![s] = n]
    /\ Goto(s, IF n >= 0 THEN "serve" ELSE NextRound(round[s]))

(***************************************************************************)
(* What follows a tool call with n more of the same response to serve.     *)
(***************************************************************************)
AfterTool(s, n) ==
    /\ pending' = [pending EXCEPT ![s] = n]
    /\ Goto(s, IF n > 0 THEN "serve" ELSE NextRound(round[s]))

(***************************************************************************)
(* An unknown tool is answered without a check; a refused check answers    *)
(* one call and drops the rest of the response.                            *)
(***************************************************************************)
ServeTool(s) ==
    /\ stage[s] = "serve"
    /\ \/ AfterTool(s, pending[s] - 1) /\ UNCHANGED budget
       \/ /\ ToolCheckPasses
          /\ Goto(s, "chargeTool")
          /\ UNCHANGED <<budget, pending>>
       \/ /\ ~ToolCheckPasses
          /\ RefuseCall("tool")
          /\ AfterTool(s, 0)
    /\ UNCHANGED <<plan, start, late, node, round, tries, loaded, refused, requests,
                   result>>

(***************************************************************************)
(* The charge for a tool call: a charge stored by another agent in between *)
(* is lost.                                                                *)
(***************************************************************************)
ChargeTool(s) ==
    /\ stage[s] = "chargeTool"
    /\ loaded' = [loaded EXCEPT ![s] = budget.tool]
    /\ Goto(s, "storeTool")
    /\ UNCHANGED <<plan, start, budget, late, node, round, pending, tries, refused,
                   requests, result>>

StoreTool(s) ==
    /\ stage[s] = "storeTool"
    /\ budget' = ConsumeToolCall(budget, loaded[s])
    /\ loaded' = [loaded EXCEPT ![s] = 0]
    /\ tries' = [tries EXCEPT ![s] = 1]
    /\ Goto(s, "runTool")
    /\ UNCHANGED <<plan, start, late, node, round, pending, refused, requests, result>>

(***************************************************************************)
(* A retryable failure is retried, uncharged, until ToolErrorPolicy gives  *)
(* up; any other outcome is the tool's answer.                             *)
(***************************************************************************)
RunTool(s) ==
    /\ stage[s] = "runTool"
    /\ \/ /\ tries[s] <= MaxRetries
          /\ tries' = [tries EXCEPT ![s] = @ + 1]
          /\ UNCHANGED <<stage, pending>>
       \/ AfterTool(s, pending[s] - 1) /\ UNCHANGED tries
    /\ UNCHANGED <<plan, start, budget, late, node, round, loaded, refused, requests,
                   result>>

(***************************************************************************)
(* The check before the structured extraction is not caught in the loop:   *)
(* agent.run swallows it, and the agent has failed.                        *)
(***************************************************************************)
FinalCheck(s) ==
    /\ stage[s] = "final"
    /\ \/ /\ ModelCheckPasses
          /\ Goto(s, "extract")
          /\ UNCHANGED <<budget, refused, result>>
       \/ /\ ~ModelCheckPasses
          /\ RefuseCall("model")
          /\ refused' = [refused EXCEPT ![s] = TRUE]
          /\ Finish(s, "failed")
    /\ UNCHANGED <<plan, start, late, node, loop, requests>>

Extract(s) == stage[s] = "extract" /\ SendRequest(s, "chargeFinal")

ChargeFinal(s) ==
    /\ stage[s] = "chargeFinal"
    /\ budget' = ConsumeModelCall(budget)
    /\ \E r \in {"edits", "failed"} : Finish(s, r)
    /\ UNCHANGED <<plan, start, late, node, loop, refused, requests>>

-----------------------------------------------------------------------------

AgentStep(s) ==
    \/ CheckModel(s) \/ Invoke(s) \/ Charge(s)
    \/ ServeTool(s) \/ ChargeTool(s) \/ StoreTool(s) \/ RunTool(s)
    \/ FinalCheck(s) \/ Extract(s) \/ ChargeFinal(s)

Done == returned /\ UNCHANGED vars

Next ==
    \/ \E s \in Subtasks : StartAgent(s) \/ AgentStep(s)
    \/ EndLayer \/ Return
    \/ ClockRunsOut
    \/ Done

Spec == Init /\ [][Next]_vars

(***************************************************************************)
(* The interpreter runs every thread that can run, model and tool calls    *)
(* return or time out, and the pool and the node go on when they can.  The *)
(* clock owes nothing.                                                     *)
(***************************************************************************)
FairSpec ==
    /\ Spec
    /\ \A s \in Subtasks : WF_vars(StartAgent(s)) /\ WF_vars(AgentStep(s))
    /\ WF_vars(EndLayer) /\ WF_vars(Return)

-----------------------------------------------------------------------------
(* Properties.                                                             *)

(* Every variable holds a value the code could give it.                    *)
TypeOK ==
    /\ plan \in Plans
    /\ start \in Budgets /\ budget \in Budgets
    /\ late \in BOOLEAN /\ edited \in BOOLEAN /\ returned \in BOOLEAN
    /\ finished \in SUBSET Subtasks
    /\ stage \in [Subtasks -> Stages]
    /\ round \in [Subtasks -> Nat]
    /\ pending \in [Subtasks -> 0..MaxRequested]
    /\ tries \in [Subtasks -> Nat]
    /\ loaded \in [Subtasks -> Nat]
    /\ refused \in [Subtasks -> BOOLEAN]
    /\ requests \in [Subtasks -> Nat]
    /\ result \in [Subtasks -> {"none", "edits", "failed"}]

(***************************************************************************)
(* The model calls charged and those allowed but not yet charged stay      *)
(* within the ceiling: the limit, and one call for each further worker.    *)
(***************************************************************************)
InFlight == {s \in Subtasks : stage[s] \in {"invoke", "charge", "extract", "chargeFinal"}}
CallsCovered == budget.model + Cardinality(InFlight) <= ModelCeiling

(***************************************************************************)
(* The same of tool calls, for the one or two workers for which it holds   *)
(* although a charge can be lost.                                          *)
(***************************************************************************)
ToolInFlight == {s \in Subtasks : stage[s] \in {"chargeTool", "storeTool"}}
ToolCallsCovered ==
    Workers <= 2 => budget.tool + Cardinality(ToolInFlight) <= ToolCeiling

(***************************************************************************)
(* Both, of the one budget that the agents of a layer check and charge     *)
(* from several threads.                                                   *)
(***************************************************************************)
ChargesCovered == CallsCovered /\ ToolCallsCovered

(***************************************************************************)
(* An agent that was refused a model call sends no request any more,       *)
(* although the loop goes on to its final check: no limit is ever lifted.  *)
(***************************************************************************)
RefusedAgentSendsNothing ==
    [][\A s \in Subtasks : refused[s] => requests'[s] = requests[s]]_vars

(***************************************************************************)
(* An agent starts only after every agent it depends on has returned,      *)
(* however the threads of a layer interleave.                              *)
(***************************************************************************)
DependenciesFirst ==
    [][\A s \in Subtasks :
          stage[s] = "waiting" /\ stage'[s] # "waiting" =>
              \A d \in plan[s] : stage[d] = "done"]_vars

(***************************************************************************)
(* An agent sends one request per round and one for its output.            *)
(***************************************************************************)
RequestsBounded == \A s \in Subtasks : requests[s] <= MaxIterations + 1

(***************************************************************************)
(* Every agent returns and so does the node, with every subtask dispatched.*)
(***************************************************************************)
NodeReturns == <>(returned /\ finished = Subtasks)

(***************************************************************************)
(* The node is the one step that Workflow takes it to be.                  *)
(***************************************************************************)
ImplementsNode == Node!Spec
=============================================================================
