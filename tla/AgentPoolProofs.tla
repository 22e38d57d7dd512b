-------------------------- MODULE AgentPoolProofs --------------------------
(***************************************************************************)
(* Proofs about AgentPool, for every set of subtasks, plan, budget, number *)
(* of workers and bounds of the loop.                                      *)
(***************************************************************************)
EXTENDS AgentPool, FiniteSetTheorems, TLAPS

-----------------------------------------------------------------------------
(* Types.                                                                  *)

(* An agent serves tools only while its last response has some to serve.   *)
Serving == {"serve", "chargeTool", "storeTool", "runTool"}
PendingInv == \A s \in Subtasks : stage[s] \in Serving => pending[s] > 0

(***************************************************************************)
(* A round is followed by another check or by the final one.               *)
(***************************************************************************)
LEMMA NextRoundStage == \A n : NextRound(n) \in {"check", "final"}
BY DEF NextRound

(***************************************************************************)
(* A run reaches the node with a budget in which no model call is charged. *)
(***************************************************************************)
LEMMA ArrivingType == \A b \in Node!Arriving : b \in Budgets /\ b.model = 0 /\ b.tool <= MaxToolCalls
BY BudgetAssumption DEF Node!Arriving, Budgets, Limits

(***************************************************************************)
(* A charge sets one counter; a refusal sets the reason only.              *)
(***************************************************************************)
LEMMA ChargeType ==
    ASSUME NEW b \in Budgets
    PROVE  /\ ConsumeModelCall(b) \in Budgets
           /\ ConsumeModelCall(b).model = b.model + 1 /\ ConsumeModelCall(b).tool = b.tool
           /\ ConsumeModelCall(b).reason = b.reason
           /\ \A limit \in Limits : /\ Refuse(b, limit) \in Budgets
                                    /\ Refuse(b, limit).model = b.model
                                    /\ Refuse(b, limit).tool = b.tool
                                    /\ Refuse(b, limit).reason = limit
BY DEF Budgets, ConsumeModelCall, Refuse, Limits

(***************************************************************************)
(* The charge for a tool call, over the counter it has seen.               *)
(***************************************************************************)
LEMMA StoreType ==
    ASSUME NEW b \in Budgets, NEW n \in Nat
    PROVE  /\ ConsumeToolCall(b, n) \in Budgets
           /\ ConsumeToolCall(b, n).model = b.model
           /\ ConsumeToolCall(b, n).tool = n + 1
           /\ ConsumeToolCall(b, n).reason = b.reason
BY DEF Budgets, ConsumeToolCall

(***************************************************************************)
(* What an agent's step leaves alone of the node.                          *)
(***************************************************************************)
LEMMA AgentStepFrame ==
    ASSUME NEW s \in Subtasks, StartAgent(s) \/ AgentStep(s)
    PROVE  UNCHANGED <<plan, start, late, finished, edited, returned>>
BY DEF StartAgent, AgentStep, CheckModel, Invoke, SendRequest, Charge, ServeTool,
   ChargeTool, StoreTool, RunTool, FinalCheck, Extract, ChargeFinal, node

(***************************************************************************)
(* Every variable has its type, and no agent serves a call it has not got. *)
(***************************************************************************)
THEOREM PoolTypes == Spec => [](TypeOK /\ PendingInv)
<1>1. Init => TypeOK /\ PendingInv
  <2> SUFFICES ASSUME Init PROVE TypeOK /\ PendingInv
      OBVIOUS
  <2>1. start \in Budgets /\ budget \in Budgets
      BY ArrivingType DEF Init
  <2>2. late \in BOOLEAN /\ edited \in BOOLEAN /\ returned \in BOOLEAN
      BY DEF Init, OutOfTime
  <2>3. refused \in [Subtasks -> BOOLEAN]
      BY DEF Init
  <2>4. 0 \in 0..MaxRequested
      BY PoolAssumption
  <2>5. QED BY <2>1, <2>2, <2>3, <2>4 DEF Init, TypeOK, PendingInv, Serving, Stages
<1>2. TypeOK /\ PendingInv /\ [Next]_vars => (TypeOK /\ PendingInv)'
  <2> SUFFICES ASSUME TypeOK, PendingInv, [Next]_vars
               PROVE  (TypeOK /\ PendingInv)'
      OBVIOUS
  <2> MaxRequested \in Nat
      BY PoolAssumption
  <2> USE DEF TypeOK, PendingInv, Serving, Stages, Goto, Finish, loop, node
  <2>1. ASSUME NEW s \in Subtasks, StartAgent(s)
        PROVE  (TypeOK /\ PendingInv)'
      BY <2>1, NextRoundStage DEF StartAgent
  <2>2. ASSUME NEW s \in Subtasks, AgentStep(s)
        PROVE  (TypeOK /\ PendingInv)'
    <3>1. UNCHANGED <<plan, start, late, finished, edited, returned>>
        BY <2>2, AgentStepFrame
    <3>2. CASE CheckModel(s)
      <4>1. budget' \in Budgets
          BY <3>2, ChargeType DEF CheckModel, RefuseCall, Limits
      <4>2. refused' \in [Subtasks -> BOOLEAN]
          BY <3>2 DEF CheckModel
      <4>3. stage' \in [Subtasks -> Stages] /\ PendingInv'
          BY <3>2 DEF CheckModel
      <4>4. QED BY <3>1, <3>2, <4>1, <4>2, <4>3 DEF CheckModel
    <3>3. CASE Invoke(s) \/ Extract(s)
        BY <3>3 DEF Invoke, Extract, SendRequest
    <3>4. CASE Charge(s)
        BY <3>4, ChargeType DEF Charge
    <3>5. CASE ServeTool(s)
      <4>1. pending' \in [Subtasks -> 0..MaxRequested] /\ stage' \in [Subtasks -> Stages]
          BY <3>5, NextRoundStage DEF ServeTool, AfterTool
      <4>2. budget' \in Budgets
          BY <3>5, ChargeType DEF ServeTool, RefuseCall, Limits
      <4>3. PendingInv'
          BY <3>5, NextRoundStage DEF ServeTool, AfterTool
      <4>4. QED BY <3>5, <4>1, <4>2, <4>3 DEF ServeTool
    <3>6. CASE ChargeTool(s)
        BY <3>6 DEF ChargeTool, Budgets
    <3>7. CASE StoreTool(s)
        BY <3>7, StoreType DEF StoreTool
    <3>8. CASE RunTool(s)
        BY <3>8, NextRoundStage DEF RunTool, AfterTool
    <3>9. CASE FinalCheck(s)
      <4>1. budget' \in Budgets
          BY <3>9, ChargeType DEF FinalCheck, RefuseCall, Limits
      <4>2. refused' \in [Subtasks -> BOOLEAN]
          BY <3>9 DEF FinalCheck
      <4>3. /\ stage' \in [Subtasks -> Stages] /\ PendingInv'
            /\ result' \in [Subtasks -> {"none", "edits", "failed"}]
          BY <3>9 DEF FinalCheck
      <4>4. QED BY <3>1, <3>9, <4>1, <4>2, <4>3 DEF FinalCheck
    <3>10. CASE ChargeFinal(s)
        BY <3>10, ChargeType DEF ChargeFinal
    <3>11. QED BY <2>2, <3>2, <3>3, <3>4, <3>5, <3>6, <3>8, <3>9, <3>10, <3>7 DEF AgentStep
  <2>3. CASE EndLayer
      BY <2>3 DEF EndLayer, Layer
  <2>4. CASE Return
      BY <2>4 DEF Return
  <2>5. CASE ClockRunsOut
      BY <2>5 DEF ClockRunsOut
  <2>6. CASE UNCHANGED vars
      BY <2>6 DEF vars
  <2>7. QED BY <2>1, <2>2, <2>3, <2>4, <2>5, <2>6 DEF Next, Done
<1>3. QED BY <1>1, <1>2, PTL DEF Spec

-----------------------------------------------------------------------------
(* The shared budget.                                                      *)

(* Only as many agents are active as the pool has workers.                 *)
WithinPool == Cardinality(Active) <= Workers

(***************************************************************************)
(* Of two workers, one that has loaded the limit itself is alone between   *)
(* its check and its store, so what it stores is within the ceiling; and a *)
(* worker without another stores over the counter it has loaded.           *)
(***************************************************************************)
LoadsCovered ==
    \A s \in Subtasks : stage[s] = "storeTool" =>
        /\ Workers <= 2 =>
              \/ loaded[s] < MaxToolCalls
              \/ /\ loaded[s] = MaxToolCalls /\ budget.tool = MaxToolCalls
                 /\ ToolInFlight = {s}
        /\ Workers = 1 => loaded[s] = budget.tool

CoverInv == WithinPool /\ CallsCovered /\ ToolCallsCovered /\ LoadsCovered

(* The agents can be counted, and those with a call in flight are active.  *)
Counted ==
    /\ IsFiniteSet(Active) /\ IsFiniteSet(InFlight) /\ IsFiniteSet(ToolInFlight)
    /\ Cardinality(Active) \in Nat /\ Cardinality(InFlight) \in Nat
    /\ Cardinality(ToolInFlight) \in Nat
    /\ Cardinality(InFlight) <= Cardinality(Active)
    /\ Cardinality(ToolInFlight) <= Cardinality(Active)

(***************************************************************************)
(* They can in every state, since a plan has finitely many subtasks.       *)
(***************************************************************************)
LEMMA AgentsFinite == Counted /\ Counted'
<1>1. Counted
  <2>1. IsFiniteSet(Active)
      BY PoolAssumption, FS_Subset DEF Active
  <2>2. InFlight \in SUBSET Active /\ ToolInFlight \in SUBSET Active
      BY DEF InFlight, ToolInFlight, Active
  <2>3. QED BY <2>1, <2>2, FS_Subset, FS_CardinalityType DEF Counted
<1>2. Counted'
  <2>1. IsFiniteSet(Active')
      BY PoolAssumption, FS_Subset DEF Active
  <2>2. InFlight' \in SUBSET Active' /\ ToolInFlight' \in SUBSET Active'
      BY DEF InFlight, ToolInFlight, Active
  <2>3. QED BY <2>1, <2>2, FS_Subset, FS_CardinalityType DEF Counted
<1>3. QED BY <1>1, <1>2

(***************************************************************************)
(* An agent that goes on from one stage to another enters or leaves these  *)
(* sets alone.                                                             *)
(***************************************************************************)
LEMMA MoveAgent ==
    ASSUME TypeOK, NEW s \in Subtasks, NEW to \in Stages, Goto(s, to)
    PROVE  /\ Active' = IF to \in {"waiting", "done"} THEN Active \ {s} ELSE Active \union {s}
           /\ InFlight' = IF to \in {"invoke", "charge", "extract", "chargeFinal"}
                          THEN InFlight \union {s} ELSE InFlight \ {s}
           /\ ToolInFlight' = IF to \in {"chargeTool", "storeTool"} THEN ToolInFlight \union {s}
                              ELSE ToolInFlight \ {s}
BY DEF TypeOK, Goto, Active, InFlight, ToolInFlight

(***************************************************************************)
(* An active agent that goes on never makes the pool larger.               *)
(***************************************************************************)
LEMMA PoolDoesNotGrow ==
    ASSUME TypeOK, WithinPool, NEW s \in Active, NEW to \in Stages, Goto(s, to)
    PROVE  WithinPool'
<1>1. s \in Subtasks
    BY DEF Active
<1>2. Active' \in SUBSET Active
    BY <1>1, MoveAgent
<1>3. Cardinality(Active') <= Cardinality(Active) /\ Cardinality(Active') \in Nat
    BY <1>2, AgentsFinite, FS_Subset, FS_CardinalityType DEF Counted
<1>4. QED BY <1>3, AgentsFinite, BudgetAssumption DEF Counted, WithinPool

(***************************************************************************)
(* A set of at most one element has no other.                              *)
(***************************************************************************)
LEMMA OnlyOne ==
    ASSUME NEW S, IsFiniteSet(S), NEW x \in S, Cardinality(S) <= 1
    PROVE  S = {x}
<1>1. Cardinality(S \ {x}) = Cardinality(S) - 1 /\ Cardinality(S \ {x}) \in Nat
      /\ IsFiniteSet(S \ {x}) /\ Cardinality(S) \in Nat
    BY FS_RemoveElement, FS_CardinalityType
<1>2. Cardinality(S \ {x}) = 0
    BY <1>1
<1>3. S \ {x} = {}
    BY <1>1, <1>2, FS_EmptySet
<1>4. QED BY <1>3

(***************************************************************************)
(* Between a check and its charge stand at most as many calls as there are *)
(* workers, and the check left room for one.                               *)
(***************************************************************************)
LEMMA CoverStep ==
    ASSUME TypeOK, TypeOK', CoverInv, NEW s \in Subtasks, AgentStep(s)
    PROVE  CoverInv'
<1> USE DEF CoverInv
<1> DEFINE n == Cardinality(InFlight)
           m == Cardinality(ToolInFlight)
<1>1. /\ n \in Nat /\ m \in Nat /\ n' \in Nat /\ m' \in Nat
      /\ n' <= Cardinality(Active') /\ m' <= Cardinality(Active')
      /\ Cardinality(Active') \in Nat
    BY AgentsFinite DEF Counted
<1>2. /\ budget.model \in Nat /\ budget'.model \in Nat
      /\ budget.tool \in Nat /\ budget'.tool \in Nat
      /\ MaxModelCalls \in Nat /\ MaxToolCalls \in Nat /\ Workers \in Nat
    BY BudgetAssumption DEF TypeOK, Budgets
<1>3. s \in Active
    BY DEF AgentStep, CheckModel, Invoke, Charge, ServeTool, ChargeTool, StoreTool, RunTool,
       FinalCheck, Extract, ChargeFinal, Active
<1>4. PICK to \in Stages : Goto(s, to)
  <2>1. CASE \/ CheckModel(s) \/ Invoke(s) \/ Charge(s) \/ ServeTool(s)
             \/ ChargeTool(s) \/ StoreTool(s)
      BY <2>1, NextRoundStage DEF CheckModel, Invoke, SendRequest, Charge, ServeTool,
         ChargeTool, StoreTool, AfterTool, Finish, Stages
  <2>2. CASE RunTool(s)
    <3>1. CASE stage' = stage
      <4>1. Goto(s, "runTool")
          BY <2>2, <3>1 DEF RunTool, Goto, TypeOK
      <4>2. QED BY <4>1 DEF Stages
    <3>2. CASE \E k : AfterTool(s, k)
        BY <3>2, NextRoundStage DEF AfterTool, Stages
    <3>3. QED BY <2>2, <3>1, <3>2 DEF RunTool
  <2>3. CASE FinalCheck(s) \/ Extract(s) \/ ChargeFinal(s)
      BY <2>3 DEF FinalCheck, Extract, SendRequest, ChargeFinal, Finish, Stages
  <2>4. QED BY <2>1, <2>2, <2>3 DEF AgentStep
<1>5. Goto(s, to)
    BY <1>4
<1>6. to = stage'[s]
    BY <1>5 DEF Goto, TypeOK
<1>7. WithinPool'
    BY <1>3, <1>5, PoolDoesNotGrow
<1>8. n' = IF to \in {"invoke", "charge", "extract", "chargeFinal"}
           THEN (IF s \in InFlight THEN n ELSE n + 1)
           ELSE (IF s \in InFlight THEN n - 1 ELSE n)
    BY <1>5, MoveAgent, AgentsFinite, FS_AddElement, FS_RemoveElement DEF Counted
<1>9. m' = IF to \in {"chargeTool", "storeTool"} THEN (IF s \in ToolInFlight THEN m ELSE m + 1)
           ELSE (IF s \in ToolInFlight THEN m - 1 ELSE m)
    BY <1>5, MoveAgent, AgentsFinite, FS_AddElement, FS_RemoveElement DEF Counted
<1>10. CallsCovered'
  <2>1. CASE budget'.model = budget.model + 1 /\ s \in InFlight
             /\ to \notin {"invoke", "charge", "extract", "chargeFinal"}
      BY <1>1, <1>2, <1>8, <2>1 DEF CallsCovered, ModelCeiling
  <2>2. CASE budget'.model = budget.model /\ n' <= n
      BY <1>1, <1>2, <2>2 DEF CallsCovered, ModelCeiling
  <2>3. CASE budget'.model = budget.model /\ budget.model < MaxModelCalls
      BY <1>1, <1>2, <1>7, <2>3 DEF CallsCovered, ModelCeiling, WithinPool
  <2>4. CASE Charge(s) \/ ChargeFinal(s)
      BY <2>1, <2>4, ChargeType, <1>6 DEF Charge, ChargeFinal, InFlight, TypeOK, Goto, Finish
  <2>5. CASE CheckModel(s) \/ FinalCheck(s)
    <3>1. budget'.model = budget.model
        BY <2>5, ChargeType DEF CheckModel, FinalCheck, RefuseCall, Limits, TypeOK
    <3>2. s \notin InFlight
        BY <2>5 DEF CheckModel, FinalCheck, InFlight
    <3>3. \/ budget.model < MaxModelCalls
          \/ to \in {"final", "done"}
        BY <2>5, <1>6 DEF CheckModel, FinalCheck, ModelCheckPasses, Goto, Finish, TypeOK
    <3>4. QED BY <3>1, <3>2, <3>3, <2>2, <2>3, <1>8, <1>1
  <2>6. CASE Invoke(s) \/ Extract(s)
    <3>1. budget' = budget /\ s \in InFlight
        BY <2>6 DEF Invoke, Extract, SendRequest, InFlight
    <3>2. QED BY <3>1, <2>2, <1>8, <1>1
  <2>7. CASE ServeTool(s) \/ ChargeTool(s) \/ StoreTool(s) \/ RunTool(s)
    <3>1. budget'.model = budget.model
      <4>1. CASE StoreTool(s)
          BY <4>1, StoreType DEF StoreTool, TypeOK
      <4>2. CASE ServeTool(s) \/ ChargeTool(s) \/ RunTool(s)
          BY <4>2, ChargeType DEF ServeTool, ChargeTool, RunTool, RefuseCall, Limits, TypeOK
      <4>3. QED BY <2>7, <4>1, <4>2
    <3>2. to \in {"serve", "chargeTool", "storeTool", "runTool", "check", "final"}
        BY <2>7, <1>6, NextRoundStage DEF ServeTool, ChargeTool, StoreTool, RunTool,
           AfterTool, Goto, TypeOK
    <3>3. s \notin InFlight
        BY <2>7 DEF ServeTool, ChargeTool, StoreTool, RunTool, InFlight
    <3>4. QED BY <3>1, <3>2, <3>3, <2>2, <1>8, <1>1
  <2>8. QED BY <2>4, <2>5, <2>6, <2>7 DEF AgentStep
<1>11. ToolCallsCovered'
  <2>1. CASE budget'.tool = budget.tool /\ m' <= m
      BY <1>1, <1>2, <2>1 DEF ToolCallsCovered, ToolCeiling
  <2>2. CASE budget'.tool = budget.tool /\ budget.tool < MaxToolCalls
      BY <1>1, <1>2, <1>7, <2>2 DEF ToolCallsCovered, ToolCeiling, WithinPool
  <2>3. CASE ChargeTool(s)
    <3>1. budget' = budget /\ s \in ToolInFlight
        BY <2>3 DEF ChargeTool, ToolInFlight
    <3>2. QED BY <3>1, <2>1, <1>9, <1>1
  <2>4. CASE StoreTool(s)
    <3>1. budget'.tool = loaded[s] + 1 /\ s \in ToolInFlight /\ to = "runTool"
        BY <2>4, <1>6, StoreType DEF StoreTool, ToolInFlight, Goto, TypeOK
    <3>2. m' = m - 1 /\ loaded[s] \in Nat
        BY <3>1, <1>9 DEF TypeOK
    <3>3. CASE loaded[s] < MaxToolCalls
        BY <1>1, <1>2, <1>7, <3>1, <3>2, <3>3, AgentsFinite
           DEF ToolCallsCovered, ToolCeiling, WithinPool, Counted
    <3>4. CASE loaded[s] = budget.tool /\ Workers <= 2
        BY <1>1, <1>2, <3>1, <3>2, <3>4 DEF ToolCallsCovered, ToolCeiling
    <3>5. QED BY <2>4, <3>3, <3>4 DEF LoadsCovered, StoreTool, ToolCallsCovered
  <2>5. CASE ServeTool(s)
    <3>1. budget'.tool = budget.tool /\ s \notin ToolInFlight
        BY <2>5, ChargeType DEF ServeTool, ToolInFlight, RefuseCall, Limits, TypeOK
    <3>2. budget.tool < MaxToolCalls \/ to \in {"serve", "check", "final"}
        BY <2>5, <1>6, NextRoundStage DEF ServeTool, AfterTool, ToolCheckPasses, Goto, TypeOK
    <3>3. QED BY <3>1, <3>2, <2>1, <2>2, <1>9, <1>1
  <2>6. CASE RunTool(s) \/ CheckModel(s) \/ FinalCheck(s) \/ Invoke(s) \/ Extract(s)
             \/ Charge(s) \/ ChargeFinal(s)
    <3>1. budget'.tool = budget.tool
        BY <2>6, ChargeType DEF RunTool, CheckModel, FinalCheck, Invoke, Extract, SendRequest,
           Charge, ChargeFinal, RefuseCall, Limits, TypeOK
    <3>2. to \notin {"chargeTool", "storeTool"}
        BY <2>6, <1>6, NextRoundStage DEF RunTool, AfterTool, CheckModel, FinalCheck, Invoke,
           Extract, SendRequest, Charge, ChargeFinal, Goto, Finish, TypeOK
    <3>3. QED BY <3>1, <3>2, <2>1, <1>9, <1>1
  <2>7. QED BY <2>3, <2>5, <2>6, <2>4 DEF AgentStep
<1>12. LoadsCovered'
  <2> DEFINE Safe(t, l, b, f) ==
                 /\ Workers <= 2 => l < MaxToolCalls \/ (l = MaxToolCalls /\ b = MaxToolCalls
                                                         /\ f = {t})
                 /\ Workers = 1 => l = b
  <2>1. SUFFICES ASSUME NEW t \in Subtasks, stage'[t] = "storeTool"
                 PROVE  Safe(t, loaded'[t], budget'.tool, ToolInFlight')
      BY DEF LoadsCovered
  <2>2. CASE ChargeTool(s) /\ t = s
    <3>1. loaded'[t] = budget.tool /\ budget' = budget /\ s \in ToolInFlight /\ to = "storeTool"
        BY <2>2, <1>6 DEF ChargeTool, ToolInFlight, Goto, TypeOK
    <3>2. ToolInFlight' = ToolInFlight
        BY <3>1, <1>5, MoveAgent
    <3>3. CASE Workers <= 2 /\ budget.tool >= MaxToolCalls
      <4>1. m <= 1 /\ budget.tool = MaxToolCalls
        <5>1. m >= 1
            BY <3>1, AgentsFinite, FS_EmptySet DEF Counted
        <5>2. QED BY <5>1, <3>3, <1>1, <1>2 DEF ToolCallsCovered, ToolCeiling
      <4>2. ToolInFlight = {s}
          BY <4>1, <3>1, OnlyOne, AgentsFinite DEF Counted
      <4>3. QED BY <4>1, <4>2, <3>1, <3>2, <2>2
    <3>4. QED BY <3>1, <3>3, <1>2
  <2>3. CASE t # s
    <3>1. stage[t] = "storeTool" /\ loaded'[t] = loaded[t]
        BY <2>1, <2>3, <1>5 DEF Goto, TypeOK, AgentStep, CheckModel, Invoke, SendRequest,
           Charge, ServeTool, ChargeTool, StoreTool, RunTool, FinalCheck, Extract,
           ChargeFinal, loop
    <3>2. Safe(t, loaded[t], budget.tool, ToolInFlight)
        BY <3>1 DEF LoadsCovered
    <3>3. Workers # 1
      <4>1. t \in Active
          BY <3>1 DEF Active
      <4>2. QED BY <4>1, <1>3, <2>3, OnlyOne, AgentsFinite DEF Counted, WithinPool
    <3>4. CASE loaded[t] < MaxToolCalls
        BY <3>1, <3>3, <3>4
    <3>5. CASE ToolInFlight = {t} /\ loaded[t] = MaxToolCalls /\ budget.tool = MaxToolCalls
      <4>1. s \notin ToolInFlight /\ ~ToolCheckPasses
          BY <3>5, <2>3, <1>2 DEF ToolCheckPasses
      <4>2. to \notin {"chargeTool", "storeTool"} /\ budget'.tool = budget.tool
        <5>1. ~ChargeTool(s) /\ ~StoreTool(s)
            BY <4>1 DEF ChargeTool, StoreTool, ToolInFlight
        <5>2. CASE ServeTool(s)
            BY <5>2, <4>1, <1>6, ChargeType, NextRoundStage
               DEF ServeTool, AfterTool, RefuseCall, Limits, Goto, TypeOK
        <5>3. CASE \/ RunTool(s) \/ CheckModel(s) \/ FinalCheck(s) \/ Invoke(s)
                   \/ Extract(s) \/ Charge(s) \/ ChargeFinal(s)
            BY <5>3, <4>1, <1>6, ChargeType, NextRoundStage
               DEF RunTool, AfterTool, CheckModel, FinalCheck, Invoke, Extract, SendRequest,
                   Charge, ChargeFinal, RefuseCall, Limits, Goto, Finish, TypeOK, ToolInFlight
        <5>4. QED BY <5>1, <5>2, <5>3 DEF AgentStep
      <4>3. ToolInFlight' = ToolInFlight
          BY <4>1, <4>2, <1>5, MoveAgent
      <4>4. QED BY <3>1, <3>3, <3>5, <4>2, <4>3
    <3>6. QED BY <3>2, <3>3, <3>4, <3>5, <3>1
  <2>4. CASE t = s /\ ~ChargeTool(s)
    <3>1. stage'[s] # "storeTool"
        BY <2>4, NextRoundStage DEF AgentStep, CheckModel, Invoke, SendRequest, Charge,
           ServeTool, StoreTool, RunTool, AfterTool, FinalCheck, Extract, ChargeFinal, Goto,
           Finish, TypeOK
    <3>2. QED BY <2>1, <2>4, <3>1
  <2>5. QED BY <2>2, <2>3, <2>4
<1>13. QED BY <1>7, <1>10, <1>11, <1>12

(***************************************************************************)
(* The inductive invariant of the counters, the calls in flight and the    *)
(* values loaded.                                                          *)
(***************************************************************************)
LEMMA CoverHolds == Spec => []CoverInv
<1>1. Init => CoverInv
  <2> SUFFICES ASSUME Init PROVE CoverInv
      OBVIOUS
  <2>1. Active = {} /\ InFlight = {} /\ ToolInFlight = {}
      BY DEF Init, Active, InFlight, ToolInFlight
  <2>2. budget.model = 0 /\ budget.tool <= MaxToolCalls /\ budget.tool \in Nat
      BY ArrivingType DEF Init, Budgets
  <2>3. QED BY <2>1, <2>2, FS_EmptySet, BudgetAssumption
            DEF CoverInv, WithinPool, CallsCovered, ToolCallsCovered, ModelCeiling,
               ToolCeiling,
                LoadsCovered, Init
<1>2. TypeOK /\ TypeOK' /\ CoverInv /\ [Next]_vars => CoverInv'
  <2> SUFFICES ASSUME TypeOK, TypeOK', CoverInv, [Next]_vars PROVE CoverInv'
      OBVIOUS
  <2>1. ASSUME NEW s \in Subtasks, AgentStep(s) PROVE CoverInv'
      BY <2>1, CoverStep
  <2>2. ASSUME NEW s \in Subtasks, StartAgent(s) PROVE CoverInv'
    <3>1. PICK to \in {"check", "final", "done"} : Goto(s, to)
        BY <2>2, NextRoundStage DEF StartAgent, Finish
    <3>2. InFlight' = InFlight /\ ToolInFlight' = ToolInFlight
        BY <2>2, <3>1, MoveAgent DEF StartAgent, InFlight, ToolInFlight, Stages
    <3>3. Active' \in SUBSET (Active \union {s})
        BY <3>1, MoveAgent DEF Stages
    <3>4. Cardinality(Active) < Workers
        BY <2>2, AgentsFinite, BudgetAssumption DEF Counted, StartAgent, Width
    <3>5. /\ Cardinality(Active') <= Cardinality(Active \union {s})
          /\ Cardinality(Active \union {s}) <= Cardinality(Active) + 1
          /\ Cardinality(Active \union {s}) \in Nat
          /\ Cardinality(Active') \in Nat
        BY <3>3, AgentsFinite, FS_AddElement, FS_Subset, FS_CardinalityType DEF Counted
    <3>6. WithinPool'
        BY <3>4, <3>5, AgentsFinite, BudgetAssumption DEF Counted, WithinPool
    <3>7. UNCHANGED <<budget, loaded>> /\ \A t \in Subtasks : stage'[t] = "storeTool" =>
                                                              stage[t] = "storeTool"
        BY <2>2, <3>1 DEF StartAgent, loop, Goto, TypeOK
    <3>8. LoadsCovered'
        BY <3>2, <3>7 DEF CoverInv, LoadsCovered
    <3>9. QED BY <3>2, <3>6, <3>7, <3>8 DEF CoverInv, CallsCovered, ToolCallsCovered
  <2>3. CASE UNCHANGED <<stage, budget, loaded>>
      BY <2>3 DEF CoverInv, WithinPool, CallsCovered, ToolCallsCovered, LoadsCovered, Active,
         InFlight, ToolInFlight
  <2>4. EndLayer \/ Return \/ ClockRunsOut \/ UNCHANGED vars =>
            UNCHANGED <<stage, budget, loaded>>
      BY DEF EndLayer, Return, ClockRunsOut, vars, loop
  <2>5. QED BY <2>1, <2>2, <2>3, <2>4 DEF Next, Done
<1>3. QED BY <1>1, <1>2, PoolTypes, PTL DEF Spec

(***************************************************************************)
(* However the agents of a layer interleave, the calls charged and those   *)
(* under way stay within the limit and one call per further worker: model  *)
(* calls for any number of workers, tool calls for one or two.             *)
(***************************************************************************)
THEOREM CallsAreCovered == Spec => []ChargesCovered
<1>1. CoverInv => ChargesCovered
    BY DEF CoverInv, ChargesCovered
<1>2. QED BY <1>1, CoverHolds, PTL

-----------------------------------------------------------------------------
(* The layers of the plan.                                                 *)

(***************************************************************************)
(* The agents of a dispatched layer have returned, and the node returns    *)
(* only when every layer has been dispatched.                              *)
(***************************************************************************)
LayersInv ==
    /\ \A s \in finished : stage[s] = "done"
    /\ returned => finished = Subtasks

(***************************************************************************)
(* A plan without a cycle always has a next layer until all of it has been *)
(* dispatched.                                                             *)
(***************************************************************************)
LEMMA NextLayerExists ==
    ASSUME TypeOK, Layer = {}
    PROVE  finished = Subtasks
<1> DEFINE left == Subtasks \ finished
<1>1. SUFFICES ASSUME left # {} PROVE FALSE
    BY DEF TypeOK
<1>2. ValidDag(plan)
    BY PoolAssumption DEF TypeOK
<1>3. PICK s \in left : plan[s] \intersect left = {}
    BY <1>1, <1>2 DEF ValidDag
<1>4. plan[s] \subseteq Subtasks
    BY <1>2 DEF ValidDag
<1>5. s \in Layer
    BY <1>3, <1>4 DEF Layer
<1>6. QED BY <1>5

(***************************************************************************)
(* The layers are dispatched one by one, and then the node returns.        *)
(***************************************************************************)
THEOREM LayersAreDispatched == Spec => []LayersInv
<1>1. Init => LayersInv
    BY DEF Init, LayersInv
<1>2. TypeOK /\ LayersInv /\ [Next]_vars => LayersInv'
  <2> SUFFICES ASSUME TypeOK, LayersInv, [Next]_vars PROVE LayersInv'
      OBVIOUS
  <2> USE DEF LayersInv
  <2>1. ASSUME NEW s \in Subtasks, StartAgent(s) \/ AgentStep(s)
        PROVE  LayersInv'
    <3>1. UNCHANGED <<finished, returned>>
        BY <2>1, AgentStepFrame
    <3>2. s \notin finished
        BY <2>1 DEF StartAgent, AgentStep, Layer, CheckModel, Invoke, Charge, ServeTool,
           ChargeTool, StoreTool, RunTool, FinalCheck, Extract, ChargeFinal
    <3>3. \A t \in Subtasks \ {s} : stage'[t] = stage[t]
        BY <2>1 DEF StartAgent, AgentStep, CheckModel, Invoke, SendRequest, Charge, ServeTool,
           ChargeTool, StoreTool, RunTool, AfterTool, FinalCheck, Extract, ChargeFinal, Goto,
           Finish,
           TypeOK
    <3>4. QED BY <3>1, <3>2, <3>3 DEF TypeOK
  <2>2. CASE EndLayer
      BY <2>2 DEF EndLayer, Layer, TypeOK
  <2>3. CASE Return
      BY <2>3, NextLayerExists DEF Return
  <2>4. CASE UNCHANGED <<stage, finished, returned>>
      BY <2>4
  <2>5. ClockRunsOut \/ UNCHANGED vars => UNCHANGED <<stage, finished, returned>>
      BY DEF ClockRunsOut, vars, node
  <2>6. QED BY <2>1, <2>2, <2>3, <2>4, <2>5 DEF Next, Done
<1>3. QED BY <1>1, <1>2, PoolTypes, PTL DEF Spec

(***************************************************************************)
(* No agent starts before those it depends on have returned.               *)
(***************************************************************************)
THEOREM DependenciesComeFirst == Spec => DependenciesFirst
<1> DEFINE First == \A s \in Subtasks :
                       stage[s] = "waiting" /\ stage'[s] # "waiting" =>
                           \A d \in plan[s] : stage[d] = "done"
<1>1. TypeOK /\ LayersInv /\ [Next]_vars => First
  <2> SUFFICES ASSUME TypeOK, LayersInv, [Next]_vars,
                      NEW s \in Subtasks, stage[s] = "waiting", stage'[s] # "waiting"
               PROVE  \A d \in plan[s] : stage[d] = "done"
      OBVIOUS
  <2>1. CASE StartAgent(s)
      BY <2>1 DEF StartAgent, Layer, LayersInv
  <2>2. ASSUME NEW t \in Subtasks, AgentStep(t) \/ (StartAgent(t) /\ t # s)
        PROVE  FALSE
      BY <2>2 DEF StartAgent, AgentStep, CheckModel, Invoke, SendRequest, Charge, ServeTool,
         ChargeTool, StoreTool, RunTool, AfterTool, FinalCheck, Extract, ChargeFinal, Goto,
         Finish,
         TypeOK
  <2>3. ~(EndLayer \/ Return \/ ClockRunsOut \/ UNCHANGED vars)
      BY DEF EndLayer, Return, ClockRunsOut, vars
  <2>4. QED BY <2>1, <2>2, <2>3 DEF Next, Done
<1>2. QED BY <1>1, PoolTypes, LayersAreDispatched, PTL DEF Spec, DependenciesFirst

-----------------------------------------------------------------------------
(* The node as one step.                                                   *)

(***************************************************************************)
(* What the agents have made of the budget so far is what one dispatch may *)
(* make of it, and every call on its way was allowed for at the start.     *)
(***************************************************************************)
ReasonIsGiven ==
    /\ start \in Node!Arriving
    /\ OutOfTime(start) => late /\ OutOfTime(budget)
    /\ budget.reason = "none" => start.reason = "none"
    /\ budget.reason # start.reason /\ budget.reason = "model" => budget.model >= MaxModelCalls
    /\ budget.reason # start.reason /\ budget.reason = "tool" =>
           budget.tool >= MaxToolCalls \/ (Workers > 1 /\ budget.tool # start.tool)

CallsAreAllowed ==
    /\ budget.model # 0 => ModelCallFits(start)
    /\ budget.tool # start.tool => ToolCallFits(start) /\ budget.model # 0
    /\ budget.tool >= start.tool
    /\ \A s \in Subtasks :
          /\ s \in InFlight => ModelCallFits(start)
          /\ stage[s] \in Serving => budget.model # 0
          /\ s \in ToolInFlight => ToolCallFits(start)
          /\ stage[s] = "storeTool" => loaded[s] >= start.tool
          /\ result[s] = "edits" => budget.model # 0

(***************************************************************************)
(* A refused check names the clock or a counter that is at its limit, and  *)
(* only another worker's store takes the tool counter below it again.      *)
(***************************************************************************)
LEMMA ReasonStep ==
    ASSUME TypeOK, TypeOK', ReasonIsGiven, CallsAreAllowed, LoadsCovered,
           NEW s \in Subtasks, AgentStep(s)
    PROVE  ReasonIsGiven'
<1> USE DEF ReasonIsGiven
<1>1. UNCHANGED <<start, late>>
    BY AgentStepFrame
<1>2. /\ budget.model \in Nat /\ budget.tool \in Nat /\ budget \in Budgets
      /\ MaxModelCalls \in Nat /\ MaxToolCalls \in Nat
    BY BudgetAssumption DEF TypeOK, Budgets
<1>3. CASE budget' = budget
    BY <1>1, <1>3
<1>4. CASE \/ RefuseCall("model") /\ ~ModelCheckPasses
           \/ RefuseCall("tool") /\ ~ToolCheckPasses
  <2>1. CASE RefuseCall("model") /\ ~ModelCheckPasses
    <3>1. /\ budget'.model = budget.model /\ budget'.tool = budget.tool
          /\ budget'.reason = IF late THEN "time" ELSE "model"
        BY <1>2, <2>1, ChargeType DEF RefuseCall, Limits
    <3>2. QED BY <1>1, <1>2, <2>1, <3>1 DEF ModelCheckPasses, OutOfTime
  <2>2. CASE RefuseCall("tool") /\ ~ToolCheckPasses
    <3>1. /\ budget'.model = budget.model /\ budget'.tool = budget.tool
          /\ budget'.reason = IF late THEN "time" ELSE "tool"
        BY <1>2, <2>2, ChargeType DEF RefuseCall, Limits
    <3>2. QED BY <1>1, <1>2, <2>2, <3>1 DEF ToolCheckPasses, OutOfTime
  <2>3. QED BY <1>4, <2>1, <2>2
<1>5. CASE budget' = ConsumeModelCall(budget)
  <2>1. /\ budget'.model >= budget.model /\ budget'.tool = budget.tool
        /\ budget'.reason = budget.reason
        /\ budget'.model \in Nat /\ budget'.tool \in Nat
      BY <1>2, <1>5, ChargeType
  <2>2. QED BY <1>1, <1>2, <2>1 DEF OutOfTime
<1>6. CASE StoreTool(s)
  <2>1. /\ budget'.model = budget.model /\ budget'.tool = loaded[s] + 1
        /\ budget'.reason = budget.reason /\ loaded[s] \in Nat
      BY <1>2, <1>6, StoreType DEF StoreTool, TypeOK
  <2>2. loaded[s] >= start.tool /\ start.tool \in Nat
      BY <1>6, ArrivingType DEF CallsAreAllowed, StoreTool, Budgets
  <2>3. Workers = 1 => loaded[s] = budget.tool
      BY <1>6 DEF LoadsCovered, StoreTool
  <2>4. Workers \in Nat \ {0}
      BY BudgetAssumption
  <2>5. QED BY <1>1, <1>2, <2>1, <2>2, <2>3, <2>4 DEF OutOfTime
<1>7. QED BY <1>3, <1>4, <1>5, <1>6 DEF AgentStep, CheckModel, Invoke, SendRequest, Charge,
             ServeTool,
          ChargeTool, StoreTool, RunTool, FinalCheck, Extract, ChargeFinal

(***************************************************************************)
(* A check that passes now would have passed when the node was entered,    *)
(* and a tool is served only to an agent that has been charged a call.     *)
(***************************************************************************)
LEMMA AllowedStep ==
    ASSUME TypeOK, TypeOK', ReasonIsGiven, CallsAreAllowed, NEW s \in Subtasks, AgentStep(s)
    PROVE  CallsAreAllowed'
<1>1. UNCHANGED <<start, late>>
    BY AgentStepFrame
<1>2. /\ budget.model \in Nat /\ budget.tool \in Nat /\ budget \in Budgets
      /\ start.model = 0 /\ start.tool \in Nat
      /\ MaxModelCalls \in Nat /\ MaxToolCalls \in Nat
    BY BudgetAssumption, ArrivingType DEF TypeOK, Budgets, ReasonIsGiven
<1>3. ModelCheckPasses => ModelCallFits(start)
    BY <1>2 DEF ModelCheckPasses, ModelCallFits, ReasonIsGiven
<1>4. ToolCheckPasses => ToolCallFits(start)
    BY <1>2 DEF ToolCheckPasses, ToolCallFits, ReasonIsGiven, CallsAreAllowed
<1>5. /\ budget'.model \in {budget.model, budget.model + 1}
      /\ \/ budget'.tool = budget.tool
         \/ stage[s] = "storeTool" /\ budget'.tool = loaded[s] + 1
      /\ budget'.model # budget.model => stage[s] \in {"charge", "chargeFinal"}
  <2>1. CASE StoreTool(s)
      BY <2>1, <1>2, StoreType DEF StoreTool, TypeOK
  <2>2. QED BY <2>1, <1>2, ChargeType DEF AgentStep, CheckModel, Invoke, SendRequest, Charge,
               ServeTool,
       ChargeTool, RunTool, FinalCheck, Extract, ChargeFinal, RefuseCall, Limits
<1>6. \A t \in Subtasks \ {s} : /\ stage'[t] = stage[t] /\ result'[t] = result[t]
                                /\ loaded'[t] = loaded[t]
    BY DEF AgentStep, CheckModel, Invoke, SendRequest, Charge, ServeTool, ChargeTool,
       StoreTool,
       RunTool, AfterTool, FinalCheck, Extract, ChargeFinal, Goto, Finish, TypeOK, loop
<1>7. /\ stage'[s] \in {"invoke", "extract"} => ModelCheckPasses
      /\ stage'[s] \in {"charge", "chargeFinal"} => stage[s] \in {"invoke", "extract"}
      /\ stage'[s] \in Serving => stage[s] \in Serving \/ budget'.model = budget.model + 1
      /\ stage'[s] = "chargeTool" => ToolCheckPasses
      /\ stage'[s] = "storeTool" => stage[s] = "chargeTool" /\ loaded'[s] = budget.tool
      /\ result'[s] = "edits" => result[s] = "edits" \/ budget'.model = budget.model + 1
  <2>1. CASE CheckModel(s) \/ Invoke(s) \/ FinalCheck(s) \/ Extract(s)
      BY <2>1 DEF CheckModel, Invoke, SendRequest, FinalCheck, Extract, Goto, Finish,
         Serving, TypeOK
  <2>2. CASE Charge(s) \/ ChargeFinal(s)
      BY <2>2, <1>2, ChargeType DEF Charge, ChargeFinal, Goto, Finish, Serving, TypeOK
  <2>3. CASE ServeTool(s) \/ ChargeTool(s) \/ StoreTool(s) \/ RunTool(s)
      BY <2>3, NextRoundStage DEF ServeTool, ChargeTool, StoreTool, RunTool, AfterTool, Goto,
         Serving,
         TypeOK
  <2>4. QED BY <2>1, <2>2, <2>3 DEF AgentStep
<1>8. ModelCallFits(start)' = ModelCallFits(start) /\ ToolCallFits(start)' = ToolCallFits(start)
    BY <1>1 DEF ModelCallFits, ToolCallFits
<1>9. /\ budget'.model # 0 => ModelCallFits(start)'
      /\ budget'.tool # start'.tool => ToolCallFits(start)' /\ budget'.model # 0
      /\ budget'.tool >= start'.tool
  <2>1. loaded[s] \in Nat
      BY DEF TypeOK
  <2>2. QED BY <1>1, <1>2, <1>5, <1>8, <2>1
            DEF CallsAreAllowed, InFlight, ToolInFlight, Serving
<1>10. \A t \in Subtasks :
          /\ t \in InFlight' => ModelCallFits(start)'
          /\ stage'[t] \in Serving => budget'.model # 0
          /\ t \in ToolInFlight' => ToolCallFits(start)'
          /\ stage'[t] = "storeTool" => loaded'[t] >= start'.tool
          /\ result'[t] = "edits" => budget'.model # 0
  <2>1. budget.model # 0 => budget'.model # 0
      BY <1>2, <1>5
  <2>2. SUFFICES ASSUME NEW t \in Subtasks
                 PROVE  /\ t \in InFlight' => ModelCallFits(start)'
                        /\ stage'[t] \in Serving => budget'.model # 0
                        /\ t \in ToolInFlight' => ToolCallFits(start)'
                        /\ stage'[t] = "storeTool" => loaded'[t] >= start'.tool
                        /\ result'[t] = "edits" => budget'.model # 0
      OBVIOUS
  <2>3. CASE t # s
      BY <1>1, <1>6, <1>8, <2>1, <2>3 DEF CallsAreAllowed, InFlight, ToolInFlight
  <2>4. CASE t = s
      BY <1>1, <1>2, <1>3, <1>4, <1>7, <1>8, <2>1, <2>4
         DEF CallsAreAllowed, InFlight, ToolInFlight
  <2>5. QED BY <2>3, <2>4
<1>11. QED BY <1>9, <1>10 DEF CallsAreAllowed

(***************************************************************************)
(* Starting an agent, ending a layer and the clock spend nothing.          *)
(***************************************************************************)
LEMMA DispatchInvariant == Spec => [](ReasonIsGiven /\ CallsAreAllowed)
<1>1. Init => ReasonIsGiven /\ CallsAreAllowed
  <2> SUFFICES ASSUME Init PROVE ReasonIsGiven /\ CallsAreAllowed
      OBVIOUS
  <2>1. /\ start \in Node!Arriving /\ budget = start /\ late \in {OutOfTime(start), TRUE}
        /\ start.model = 0 /\ start.tool \in Nat
      BY ArrivingType DEF Init, Budgets
  <2>2. ReasonIsGiven
      BY <2>1 DEF ReasonIsGiven
  <2>3. CallsAreAllowed
      BY <2>1 DEF Init, CallsAreAllowed, InFlight, ToolInFlight, Serving
  <2>4. QED BY <2>2, <2>3
<1>2. TypeOK /\ TypeOK' /\ CoverInv /\ ReasonIsGiven /\ CallsAreAllowed /\ [Next]_vars =>
          (ReasonIsGiven /\ CallsAreAllowed)'
  <2> SUFFICES ASSUME TypeOK, TypeOK', CoverInv, ReasonIsGiven, CallsAreAllowed, [Next]_vars
               PROVE  (ReasonIsGiven /\ CallsAreAllowed)'
      OBVIOUS
  <2>1. ASSUME NEW s \in Subtasks, AgentStep(s)
        PROVE  (ReasonIsGiven /\ CallsAreAllowed)'
      BY <2>1, ReasonStep, AllowedStep DEF CoverInv
  <2>2. ASSUME NEW s \in Subtasks, StartAgent(s)
        PROVE  (ReasonIsGiven /\ CallsAreAllowed)'
    <3>1. UNCHANGED <<start, late, budget, loaded>>
        BY <2>2 DEF StartAgent, loop
    <3>2. \A t \in Subtasks : /\ stage'[t] \in {stage[t], "check", "final", "done"}
                              /\ result'[t] \in {result[t], "failed"}
        BY <2>2, NextRoundStage DEF StartAgent, Goto, Finish, TypeOK
    <3>3. QED BY <3>1, <3>2 DEF ReasonIsGiven, CallsAreAllowed, InFlight, ToolInFlight,
                 Serving,
              ModelCallFits, ToolCallFits, OutOfTime
  <2>3. CASE UNCHANGED <<start, budget, stage, loaded, result>> /\ late' \in {late, TRUE}
      BY <2>3 DEF ReasonIsGiven, CallsAreAllowed, InFlight, ToolInFlight, Serving,
         ModelCallFits,
         ToolCallFits, OutOfTime
  <2>4. EndLayer \/ Return \/ ClockRunsOut \/ UNCHANGED vars =>
            UNCHANGED <<start, budget, stage, loaded, result>> /\ late' \in {late, TRUE}
      BY DEF EndLayer, Return, ClockRunsOut, vars, loop
  <2>5. QED BY <2>1, <2>2, <2>3, <2>4 DEF Next, Done
<1>3. QED BY <1>1, <1>2, PoolTypes, CoverHolds, PTL DEF Spec

(***************************************************************************)
(* What the agents leave in the budget is what RunAgents says they may.    *)
(***************************************************************************)
LEMMA DispatchIsServed ==
    ASSUME TypeOK, CallsCovered, ToolCallsCovered, ReasonIsGiven, CallsAreAllowed
    PROVE  budget \in RunAgents(start)
<1>1. Cardinality(InFlight) \in Nat /\ Cardinality(ToolInFlight) \in Nat
    BY AgentsFinite DEF Counted
<1>2. start \in Budgets /\ start.model = 0 /\ start.tool \in Nat
    BY ArrivingType DEF ReasonIsGiven, Budgets
<1>3. budget.model \in Nat /\ budget.tool \in Nat /\ budget.reason \in Limits \union {"none"}
    BY DEF TypeOK, Budgets
<1>4. ModelCeiling \in Int /\ ToolCeiling \in Int /\ Workers \in Nat
    BY BudgetAssumption DEF ModelCeiling, ToolCeiling
<1>5. budget.model \in start.model..ModelCeiling
    BY <1>1, <1>2, <1>3, <1>4 DEF CallsCovered
<1>6. budget.tool \in ToolCounters(start)
  <2>1. budget.tool >= start.tool
      BY DEF CallsAreAllowed
  <2>2. Workers <= 2 => budget.tool <= ToolCeiling
      BY <1>1, <1>3, <1>4 DEF ToolCallsCovered
  <2>3. QED BY <2>1, <2>2, <1>2, <1>3, <1>4 DEF ToolCounters
<1>7. budget.reason \in Limits \union {start.reason}
  <2>1. CASE budget.reason \in Limits
      BY <2>1
  <2>2. CASE budget.reason = "none"
      BY <2>2 DEF ReasonIsGiven
  <2>3. QED BY <1>3, <2>1, <2>2
<1>8. budget \in [model : start.model..ModelCeiling, tool : ToolCounters(start),
                  reason : Limits \union {start.reason}]
    BY <1>5, <1>6, <1>7 DEF TypeOK, Budgets
<1>9. QED BY <1>2, <1>8 DEF RunAgents, ReasonIsGiven, CallsAreAllowed

(***************************************************************************)
(* Nothing happens to the budget or to the tree after the node's return.   *)
(***************************************************************************)
LEMMA NothingAfterReturn ==
    ASSUME TypeOK, LayersInv, returned, [Next]_vars
    PROVE  UNCHANGED <<start, budget, edited, returned>>
<1>1. Layer = {} /\ \A s \in Subtasks : stage[s] = "done"
    BY DEF LayersInv, Layer
<1>2. ASSUME NEW s \in Subtasks, StartAgent(s) \/ AgentStep(s)
      PROVE  FALSE
    BY <1>1, <1>2 DEF StartAgent, AgentStep, CheckModel, Invoke, Charge, ServeTool,
       ChargeTool, StoreTool, RunTool, FinalCheck, Extract, ChargeFinal
<1>3. QED BY <1>1, <1>2 DEF Next, Done, EndLayer, Return, ClockRunsOut, vars, node

(***************************************************************************)
(* Before its return, a step other than Return leaves the abstract node    *)
(* where it is: at the budget it was entered with.                         *)
(***************************************************************************)
LEMMA NothingBeforeReturn ==
    ASSUME ~Return, ~returned, [Next]_vars
    PROVE  UNCHANGED <<start, edited, returned>>
<1>1. ASSUME NEW s \in Subtasks, StartAgent(s) \/ AgentStep(s)
      PROVE  UNCHANGED <<start, edited, returned>>
    BY <1>1, AgentStepFrame
<1>2. QED BY <1>1 DEF Next, Done, EndLayer, ClockRunsOut, vars, node

(***************************************************************************)
(* The abstract node reads the same budget module.                         *)
(***************************************************************************)
LEMMA SameDispatch == \A b : Node!RunAgents(b) = RunAgents(b)
BY DEF Node!RunAgents, RunAgents, Node!ModelCeiling, ModelCeiling, Node!ToolCeiling,
   ToolCeiling,
   Node!ToolCounters, ToolCounters,
   Node!Limits, Limits, Node!ModelCallFits, ModelCallFits, Node!ToolCallFits, ToolCallFits,
   Node!OutOfTime, OutOfTime

(***************************************************************************)
(* The implementation node, with its layers, its threads and their tool    *)
(* loops interleaving on one budget, is one step of the graph that makes   *)
(* of the budget what RunAgents says.                                      *)
(***************************************************************************)
THEOREM PoolImplementsNode == Spec => ImplementsNode
<1> DEFINE seen == IF returned THEN budget ELSE start
           Inv  == /\ TypeOK /\ LayersInv /\ CallsCovered /\ ToolCallsCovered
                   /\ ReasonIsGiven /\ CallsAreAllowed
<1>1. Init => Node!Init
    BY DEF Init, Node!Init
<1>2. Inv /\ [Next]_vars => [Node!Next]_Node!vars
  <2> SUFFICES ASSUME Inv, [Next]_vars
               PROVE  Node!Next \/ UNCHANGED <<seen, edited, returned>>
      BY DEF Node!vars
  <2>1. CASE returned
      BY <2>1, NothingAfterReturn
  <2>2. CASE ~returned /\ ~Return
      BY <2>2, NothingBeforeReturn
  <2>3. CASE Return
    <3>1. seen = start /\ seen' = budget /\ ~returned /\ returned'
        BY <2>3 DEF Return
    <3>2. budget \in Node!RunAgents(start)
        BY DispatchIsServed, SameDispatch
    <3>3. start.model = 0
        BY ArrivingType DEF ReasonIsGiven
    <3>4. edited' \in {FALSE, budget.model # start.model}
      <4>1. CASE \E s \in Subtasks : result[s] = "edits"
        <5>1. budget.model # start.model
            BY <4>1, <3>3 DEF CallsAreAllowed
        <5>2. QED BY <2>3, <4>1, <5>1 DEF Return
      <4>2. CASE ~\E s \in Subtasks : result[s] = "edits"
          BY <2>3, <4>2 DEF Return
      <4>3. QED BY <4>1, <4>2
    <3>5. returned' = TRUE
        BY <2>3 DEF Return
    <3>6. QED BY <3>1, <3>2, <3>4, <3>5 DEF Node!Next, Node!Dispatch
  <2>4. QED BY <2>1, <2>2, <2>3
<1>3. Spec => []Inv
    BY PoolTypes, LayersAreDispatched, CallsAreCovered, DispatchInvariant, PTL
       DEF ChargesCovered
<1>4. QED BY <1>1, <1>2, <1>3, PTL DEF Spec, ImplementsNode, Node!Spec

-----------------------------------------------------------------------------
(* Requests.                                                               *)

(***************************************************************************)
(* A refused agent is on its way out, and the limit that refused it is     *)
(* still in force.                                                         *)
(***************************************************************************)
RefusalInv ==
    \A s \in Subtasks :
        refused[s] => /\ stage[s] \in {"final", "done"}
                      /\ late \/ budget.model >= MaxModelCalls

(***************************************************************************)
(* A counter that only grows never lifts a refusal.                        *)
(***************************************************************************)
LEMMA RefusalStep ==
    ASSUME TypeOK, RefusalInv, NEW s \in Subtasks, AgentStep(s)
    PROVE  RefusalInv'
<1>1. late' = late
    BY AgentStepFrame
<1>2. budget.model \in Nat /\ MaxModelCalls \in Nat /\ budget \in Budgets
    BY BudgetAssumption DEF TypeOK, Budgets
<1>3. budget'.model >= budget.model /\ budget'.model \in Nat
  <2>1. CASE StoreTool(s)
    <3>1. loaded[s] \in Nat /\ budget' = ConsumeToolCall(budget, loaded[s])
        BY <2>1 DEF StoreTool, TypeOK
    <3>2. budget'.model = budget.model
        BY <1>2, <3>1, StoreType
    <3>3. QED BY <1>2, <3>2
  <2>2. QED BY <1>2, <2>1, ChargeType
       DEF AgentStep, CheckModel, Invoke, SendRequest, Charge, ServeTool, ChargeTool, RunTool,
           FinalCheck, Extract, ChargeFinal, RefuseCall, Limits
<1>4. \A t \in Subtasks : t # s => stage'[t] = stage[t] /\ refused'[t] = refused[t]
    BY DEF AgentStep, CheckModel, Invoke, SendRequest, Charge, ServeTool, ChargeTool,
       StoreTool, RunTool,
       AfterTool, FinalCheck, Extract, ChargeFinal, Goto, Finish, TypeOK
<1>5. CASE refused'[s] /\ refused[s]
    <2>1. stage[s] = "final" /\ FinalCheck(s)
        BY <1>5 DEF RefusalInv, AgentStep, CheckModel, Invoke, Charge, ServeTool, ChargeTool,
           StoreTool,
           RunTool, FinalCheck, Extract, ChargeFinal
    <2>2. ~ModelCheckPasses
        BY <1>2, <1>5 DEF RefusalInv, ModelCheckPasses
    <2>3. stage'[s] = "done"
        BY <2>1, <2>2 DEF FinalCheck, Finish, Goto, TypeOK
    <2>4. \A t \in Subtasks : refused[t] => late' \/ budget'.model >= MaxModelCalls
        BY <1>1, <1>2, <1>3 DEF RefusalInv
    <2>5. \A t \in Subtasks : refused'[t] => refused[t] /\ stage'[t] \in {"final", "done"}
        BY <1>4, <1>5, <2>3 DEF RefusalInv
    <2>6. QED BY <2>4, <2>5 DEF RefusalInv
<1>6. CASE refused'[s] /\ ~refused[s]
    <2>1. (CheckModel(s) \/ FinalCheck(s)) /\ ~ModelCheckPasses
        BY <1>6 DEF AgentStep, CheckModel, Invoke, SendRequest, Charge, ServeTool, ChargeTool,
           StoreTool,
           RunTool, FinalCheck, Extract, ChargeFinal
    <2>2. stage'[s] \in {"final", "done"}
        BY <2>1 DEF CheckModel, FinalCheck, Finish, Goto, TypeOK
    <2>3. late \/ budget.model >= MaxModelCalls
        BY <1>2, <2>1 DEF ModelCheckPasses
    <2>4. QED BY <1>1, <1>2, <1>3, <1>4, <2>2, <2>3 DEF RefusalInv
<1>7. CASE ~refused'[s]
    BY <1>1, <1>2, <1>3, <1>4, <1>7 DEF RefusalInv
<1>8. QED BY <1>5, <1>6, <1>7

(***************************************************************************)
(* No agent that was refused a model call sends another request, although  *)
(* the loop takes it to its final check.                                   *)
(***************************************************************************)
THEOREM RefusedAgentsStop == Spec => RefusedAgentSendsNothing
<1> DEFINE Silent == \A s \in Subtasks : refused[s] => requests'[s] = requests[s]
<1>1. Init => RefusalInv
    BY DEF Init, RefusalInv
<1>2. TypeOK /\ RefusalInv /\ [Next]_vars => RefusalInv'
  <2> SUFFICES ASSUME TypeOK, RefusalInv, [Next]_vars PROVE RefusalInv'
      OBVIOUS
  <2>1. ASSUME NEW s \in Subtasks, AgentStep(s) PROVE RefusalInv'
      BY <2>1, RefusalStep
  <2>2. ASSUME NEW s \in Subtasks, StartAgent(s) PROVE RefusalInv'
    <3>1. UNCHANGED <<late, budget, refused>> /\ ~refused[s]
        BY <2>2 DEF StartAgent, RefusalInv
    <3>2. \A t \in Subtasks : t # s => stage'[t] = stage[t]
        BY <2>2 DEF StartAgent, Goto, Finish, TypeOK
    <3>3. QED BY <3>1, <3>2 DEF RefusalInv
  <2>3. EndLayer \/ Return \/ ClockRunsOut \/ UNCHANGED vars =>
            UNCHANGED <<stage, budget, refused>> /\ late' \in {late, TRUE}
      BY DEF EndLayer, Return, ClockRunsOut, vars
  <2>4. CASE UNCHANGED <<stage, budget, refused>> /\ late' \in {late, TRUE}
    <3>1. late => late'
      <4>1. CASE late' = late
          BY <4>1
      <4>2. CASE late' = TRUE
          BY <4>2
      <4>3. QED BY <2>4, <4>1, <4>2
    <3>2. \A t \in Subtasks : refused[t] => late' \/ budget'.model >= MaxModelCalls
        BY <2>4, <3>1 DEF RefusalInv
    <3>3. QED BY <2>4, <3>2 DEF RefusalInv
  <2>5. QED BY <2>1, <2>2, <2>3, <2>4 DEF Next, Done
<1>3. TypeOK /\ RefusalInv /\ [Next]_vars => Silent
  <2> SUFFICES ASSUME TypeOK, RefusalInv, [Next]_vars, NEW s \in Subtasks, refused[s]
               PROVE  requests'[s] = requests[s]
      OBVIOUS
  <2>1. ~Invoke(s) /\ ~Extract(s)
      BY DEF RefusalInv, Invoke, Extract
  <2>2. QED BY <2>1 DEF Next, Done, AgentStep, StartAgent, CheckModel, Invoke, SendRequest,
               Charge, ServeTool, ChargeTool, StoreTool, RunTool, FinalCheck, Extract,
               ChargeFinal,
               EndLayer, Return, ClockRunsOut, vars, TypeOK
<1>4. QED BY <1>1, <1>2, <1>3, PoolTypes, PTL DEF Spec, RefusedAgentSendsNothing

(***************************************************************************)
(* Every request of an agent belongs to a round of its tool phase or is    *)
(* the one for its output.                                                 *)
(***************************************************************************)
RequestInv ==
    \A s \in Subtasks :
        /\ round[s] <= MaxIterations
        /\ stage[s] = "waiting" => round[s] = 0
        /\ stage[s] \in {"check", "invoke", "charge"} => round[s] < MaxIterations
        /\ requests[s] <= IF stage[s] \in {"charge", "chargeFinal", "done"}
                          THEN round[s] + 1 ELSE round[s]

(***************************************************************************)
(* However often the tools fail or ask again, an agent sends at most one   *)
(* request per iteration and one for its output.                           *)
(***************************************************************************)
THEOREM RequestsAreBounded == Spec => []RequestsBounded
<1> USE PoolAssumption
<1>1. Init => RequestInv
    BY DEF Init, RequestInv
<1>2. TypeOK /\ RequestInv /\ [Next]_vars => RequestInv'
  <2> SUFFICES ASSUME TypeOK, RequestInv, [Next]_vars PROVE RequestInv'
      OBVIOUS
  <2> USE DEF RequestInv, TypeOK, Stages, NextRound, Goto, Finish
  <2>1. ASSUME NEW s \in Subtasks, AgentStep(s) PROVE RequestInv'
    <3>1. CASE CheckModel(s)
        BY <3>1 DEF CheckModel, loop
    <3>2. CASE Invoke(s) \/ Extract(s)
        BY <3>2 DEF Invoke, Extract, SendRequest, loop
    <3>3. CASE Charge(s)
        BY <3>3 DEF Charge
    <3>4. CASE ServeTool(s)
        BY <3>4 DEF ServeTool, AfterTool
    <3>5. CASE ChargeTool(s) \/ StoreTool(s) \/ RunTool(s)
        BY <3>5 DEF ChargeTool, StoreTool, RunTool, AfterTool
    <3>6. CASE FinalCheck(s) \/ ChargeFinal(s)
        BY <3>6 DEF FinalCheck, ChargeFinal, loop
    <3>7. QED BY <2>1, <3>1, <3>2, <3>3, <3>4, <3>5, <3>6 DEF AgentStep
  <2>2. ASSUME NEW s \in Subtasks, StartAgent(s) PROVE RequestInv'
      BY <2>2 DEF StartAgent, loop
  <2>3. EndLayer \/ Return \/ ClockRunsOut \/ UNCHANGED vars =>
            UNCHANGED <<stage, round, requests>>
      BY DEF EndLayer, Return, ClockRunsOut, vars, loop
  <2>4. QED BY <2>1, <2>2, <2>3 DEF Next, Done
<1>3. TypeOK /\ RequestInv => RequestsBounded
    BY DEF RequestInv, RequestsBounded, TypeOK
<1>4. QED BY <1>1, <1>2, <1>3, PoolTypes, PTL DEF Spec
=============================================================================
