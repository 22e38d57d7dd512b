--------------------------- MODULE WorkflowProofs ---------------------------
(***************************************************************************)
(* Proofs about Workflow, for every recovery bound, review bound, budget,  *)
(* number of workers and weight of a change.                               *)
(***************************************************************************)
EXTENDS Workflow, TLAPS

-----------------------------------------------------------------------------
(* The inductive invariant: what is known of a run at each of its nodes.   *)

Early == {"task_intake", "repository_analysis", "external_context",
          "task_complexity_analysis", "planning", "dynamic_agent_selection",
          "implementation"}

Looping == {"verification", "failure_analysis", "recovery", "independent_review"}

Gates == {"independent_review", "security_analysis", "risk_gate", "human_approval"}

(* Nothing has been changed, checked or repaired before implementation.    *)
Untouched ==
    node \in Early =>
        /\ written = 0 /\ attempts = 0
        /\ test = NoTest /\ review = NoReview

(* Only a repair makes a green result stale, and verification comes next.  *)
TestIsFresh ==
    /\ node \notin {"verification", "RECURSION_ERROR"} /\ Passed(test) => test.of = written
    /\ node \in Gates => Passed(test)
    /\ node \in {"failure_analysis", "budget_exhausted"} => ~Passed(test)
    /\ config.verifier /\ test.result = "none" =>
          node \in Early \union {"verification", "RECURSION_ERROR"} \/ ~config.task

(* The gate's results exist only past the gate, and are of this version.   *)
GateIsFresh ==
    /\ node \in Early \union Looping \union {"security_analysis", "escalation", "budget_exhausted"} =>
          scan = NoScan /\ risk = NoRisk
    /\ node = "risk_gate" => scan.of = written /\ risk = NoRisk
    /\ node = "human_approval" => risk.level = "HIGH"
    /\ node = "finalization" /\ config.gate /\ Passed(test) =>
          /\ scan.of = written /\ ~scan.blocker
          /\ risk.of = written /\ risk.level # "HIGH"

(* Each of the loop's nodes is entered within the bound on repairs.        *)
WithinRecoveryBound ==
    /\ attempts <= MaxRecovery
    /\ node = "recovery" => attempts < MaxRecovery
    /\ node = "failure_analysis" => config.recovery
    /\ node = "escalation" =>
          /\ ~config.recovery \/ attempts = MaxRecovery
          /\ ~Passed(test) \/ Rejected(review)

(* What the run has concluded, and when.                                   *)
OutcomeIsEarned ==
    /\ node \in Nodes => status = "pending" \/ (status = "failed" /\ node = "finalization")
    /\ node = "RECURSION_ERROR" => status \in {"pending", "failed"}
    /\ status = "failed" /\ node # "END" => ~config.task
    /\ ~config.task => node \in {"task_intake", "finalization", "END", "RECURSION_ERROR"}
    /\ ~config.task => /\ test = NoTest /\ written = 0 /\ review = NoReview
                        /\ attempts = 0 /\ ~Exhausted(budget)
    /\ node = "finalization" /\ ~Passed(test) => ~config.recovery \/ ~config.task
    /\ node = "budget_exhausted" => Exhausted(budget)
    /\ node \in {"finalization", "escalation"} /\ ~Passed(test) => ~Exhausted(budget)
    /\ status = "failed" => ~Passed(test)

GraphInv ==
    /\ Untouched
    /\ TestIsFresh
    /\ GateIsFresh
    /\ WithinRecoveryBound
    /\ OutcomeIsEarned

(* What the runs check of a run that has ended.                            *)
EndInv ==
    /\ ShippedIsVerified
    /\ ShippedIsGated
    /\ RedRunIsDiagnosed
    /\ BudgetEndIsExact
    /\ EscalationIsLastResort
    /\ PullRequestNeedsCompletion

-----------------------------------------------------------------------------
(* What the budget operators return.                                       *)

(***************************************************************************)
(* call_tool turns a budget into a budget, consumes no model call, stays   *)
(* within the tool limit, and never clears exhausted_reason.               *)
(***************************************************************************)
LEMMA CallToolsType ==
    ASSUME NEW b \in Budgets, NEW n \in Nat, NEW c \in CallTools(b, n)
    PROVE  /\ c \in Budgets
           /\ Exhausted(b) => Exhausted(c)
           /\ c.model = b.model
           /\ ToolWithinCeiling(b) => ToolWithinCeiling(c)
<1>1. PICK k \in Served(b, n) : \/ c = [b EXCEPT !.tool = @ + k]
                                \/ c \in RefusedAfter(b, k)
    BY DEF CallTools
<1>2. k \in Nat /\ b.tool \in Nat /\ (b.tool <= ToolCeiling => b.tool + k <= ToolCeiling)
    BY BudgetAssumption DEF Served, ToolCeiling, Budgets
<1>3. CASE c = [b EXCEPT !.tool = @ + k]
    BY <1>2, <1>3 DEF Budgets, Exhausted, ToolWithinCeiling
<1>4. CASE c \in RefusedAfter(b, k)
  <2> DEFINE d == [b EXCEPT !.tool = @ + k]
  <2>1. PICK r \in ToolRefusals(d) : c = [d EXCEPT !.reason = r]
      BY <1>4 DEF RefusedAfter, Refuse
  <2>2. r \in Limits
      BY DEF ToolRefusals, Limits
  <2>3. d \in Budgets /\ d.model = b.model /\ d.tool = b.tool + k
      BY <1>2 DEF Budgets
  <2> HIDE DEF d
  <2>4. c = [model |-> d.model, tool |-> d.tool, reason |-> r]
      BY <2>1, <2>3 DEF Budgets
  <2>5. QED BY <1>2, <2>2, <2>3, <2>4 DEF Budgets, Exhausted, Limits, ToolWithinCeiling
<1>5. QED BY <1>1, <1>3, <1>4

(***************************************************************************)
(* The agents' calls turn a budget into a budget, stay within the          *)
(* ceilings, and never clear exhausted_reason.                             *)
(***************************************************************************)
LEMMA RunAgentsType ==
    ASSUME NEW b \in Budgets, NEW c \in RunAgents(b)
    PROVE  /\ c \in Budgets
           /\ Exhausted(b) => Exhausted(c)
           /\ c.model <= ModelCeiling /\ ToolWithinCeiling(c)
<1>1. ModelCeiling \in Int /\ ToolCeiling \in Int
    BY BudgetAssumption DEF ModelCeiling, ToolCeiling
<1>2. QED BY <1>1 DEF RunAgents, Budgets, Exhausted, Limits, ToolCounters, ToolWithinCeiling

(***************************************************************************)
(* A refusal met by a routing function leaves an exhausted budget.         *)
(***************************************************************************)
LEMMA RefusalType ==
    ASSUME NEW b \in Budgets, NEW limit \in ModelRefusals(b)
    PROVE  /\ Refuse(b, limit) \in Budgets
           /\ Exhausted(Refuse(b, limit))
           /\ Refuse(b, limit).model = b.model /\ Refuse(b, limit).tool = b.tool
<1>1. limit \in Limits
    BY DEF ModelRefusals, Limits
<1>2. QED BY <1>1 DEF Refuse, Budgets, Exhausted, Limits

(***************************************************************************)
(* The risk engine's score is a number, and its level LOW, MEDIUM or HIGH; *)
(* a blocker finding alone makes it HIGH.                                  *)
(***************************************************************************)
LEMMA RiskLevelType ==
    ASSUME TypeOK, NEW w \in ChangeWeights
    PROVE  /\ RiskLevel(RiskScore(w)) \in {"LOW", "MEDIUM", "HIGH"}
           /\ scan.blocker => RiskLevel(RiskScore(w)) = "HIGH"
<1> DEFINE blockers == IF scan.blocker THEN 60 ELSE 0
           majors   == AtMost(12 * scan.majors, 30)
           checks   == CASE test.result = "failed" -> 40
                         [] test.result = "none"   -> 25
                         [] test.result = "passed" -> 0
           reviewed == IF Rejected(review) THEN 30 ELSE 0
           repairs  == IF attempts >= 2 THEN 10 + 5 * (attempts - 2) ELSE 0
<1>1. majors \in Nat
    BY WorkflowAssumption DEF TypeOK, Scans, AtMost
<1>2. checks \in Nat
    BY DEF TypeOK, Tests
<1>3. blockers \in Nat /\ reviewed \in Nat /\ (scan.blocker => blockers = 60)
    OBVIOUS
<1>4. repairs \in Nat
    BY DEF TypeOK
<1>5. w \in Nat
    BY WorkflowAssumption
<1>6. RiskScore(w) = AtMost(blockers + majors + w + checks + reviewed + repairs, 100)
    BY DEF RiskScore
<1> HIDE DEF blockers, majors, checks, reviewed, repairs
<1>7. RiskScore(w) \in Nat /\ (scan.blocker => RiskScore(w) >= 55)
    BY <1>1, <1>2, <1>3, <1>4, <1>5, <1>6 DEF AtMost
<1> HIDE DEF RiskScore
<1>8. QED BY <1>7 DEF RiskLevel

-----------------------------------------------------------------------------

(***************************************************************************)
(* A run's state always has the types of SWEForgeState.                    *)
(***************************************************************************)
THEOREM TypeCorrect == Spec => []TypeOK
<1>1. Init => TypeOK
  <2> SUFFICES ASSUME Init PROVE TypeOK
      OBVIOUS
  <2>1. test \in Tests /\ review \in Reviews /\ risk \in Risks
      BY DEF Init, NoTest, NoReview, NoRisk, Tests, Reviews, Risks
  <2>2. scan \in Scans
      BY WorkflowAssumption DEF Init, NoScan, Scans
  <2>3. budget \in Budgets
      BY DEF Init, FreshBudget, Budgets
  <2>4. node \in Nodes /\ status \in Statuses /\ experience \in Seq(Statuses)
      BY DEF Init, Nodes, Statuses
  <2>5. QED BY <2>1, <2>2, <2>3, <2>4 DEF Init, TypeOK
<1>2. TypeOK /\ [Next]_vars => TypeOK'
  <2> SUFFICES ASSUME TypeOK, [Next]_vars PROVE TypeOK'
      OBVIOUS
  <2> USE DEF TypeOK, Runs, Goto, assurance, reviews
  <2>1. CASE TaskIntake
      BY <2>1 DEF TaskIntake, RouteAfterIntake, Nodes, Statuses
  <2>2. CASE RepositoryAnalysis
    <3>1. PICK n \in IF config.intelligence THEN RepoProbes ELSE {0} : budget' \in CallTools(budget, n)
        BY <2>2 DEF RepositoryAnalysis
    <3>2. n \in Nat
        BY WorkflowAssumption
    <3>3. QED BY <2>2, <3>1, <3>2, CallToolsType DEF RepositoryAnalysis, Nodes
  <2>3. CASE ExternalContext
      BY <2>3, CallToolsType DEF ExternalContext, Nodes
  <2>4. CASE TaskComplexityAnalysis
      BY <2>4, CallToolsType DEF TaskComplexityAnalysis, Nodes
  <2>5. CASE Planning
      BY <2>5 DEF Planning, Nodes
  <2>6. CASE DynamicAgentSelection
      BY <2>6 DEF DynamicAgentSelection, Nodes
  <2>7. CASE Implementation
      BY <2>7, RunAgentsType DEF Implementation, Nodes
  <2>8. CASE Verification
    <3>1. budget' \in Budgets /\ test' \in Tests
        BY <2>8, CallToolsType DEF Verification, Tests, NoTest
    <3>2. node' \in Nodes
        BY <2>8 DEF Verification, RouteAfterVerification, AfterApproval, Nodes
    <3>3. QED BY <2>8, <3>1, <3>2 DEF Verification
  <2>9. CASE FailureAnalysis
    <3>1. PICK b \in CallTools(budget, IF test.result = "none" THEN 0 ELSE 1) :
             /\ budget' = b \/ \E limit \in ModelRefusals(b) : budget' = Refuse(b, limit)
             /\ node' \in Nodes
        BY <2>9 DEF FailureAnalysis, Nodes
    <3>2. b \in Budgets
        BY CallToolsType
    <3>3. budget' \in Budgets
        BY <3>1, <3>2, RefusalType
    <3>4. QED BY <2>9, <3>1, <3>3 DEF FailureAnalysis
  <2>10. CASE Recovery
      BY <2>10 DEF Recovery, Nodes
  <2>11. CASE IndependentReview
    <3>1. budget' \in Budgets /\ review' \in Reviews
        BY <2>11, CallToolsType DEF IndependentReview, Reviews
    <3>2. node' \in Nodes
        BY <2>11 DEF IndependentReview, RouteAfterReview, AfterApproval, Nodes
    <3>3. rejections' \in Nat /\ rejected' \in Nat
        BY <2>11 DEF IndependentReview, MergeRejections
    <3>4. QED BY <2>11, <3>1, <3>2, <3>3 DEF IndependentReview
  <2>12. CASE SecurityAnalysis
    <3>1. budget' \in Budgets /\ scan' \in Scans
        BY <2>12, CallToolsType DEF SecurityAnalysis, Scans
    <3>2. QED BY <2>12, <3>1 DEF SecurityAnalysis, Nodes
  <2>13. CASE RiskGate
    <3>1. budget' \in Budgets
        BY <2>13, CallToolsType DEF RiskGate
    <3>2. risk' \in Risks
        BY <2>13, RiskLevelType DEF RiskGate, Risks
    <3>3. QED BY <2>13, <3>1, <3>2 DEF RiskGate, RouteAfterRiskGate, Nodes
  <2>14. CASE Finalization
      BY <2>14 DEF Finalization, End, FinalStatus, Statuses
  <2>15. CASE HumanApproval
      BY <2>15 DEF HumanApproval, End, Statuses
  <2>16. CASE BudgetExhausted
      BY <2>16 DEF BudgetExhausted, End, Statuses
  <2>17. CASE Escalation
      BY <2>17 DEF Escalation, End, Statuses
  <2>18. CASE GraphRecursionError
      BY <2>18 DEF GraphRecursionError
  <2>19. CASE UNCHANGED vars
      BY <2>19 DEF vars
  <2>20. QED BY <2>1, <2>2, <2>3, <2>4, <2>5, <2>6, <2>7, <2>8, <2>9, <2>10, <2>11,
                <2>12, <2>13, <2>14, <2>15, <2>16, <2>17, <2>18, <2>19
             DEF Next, Step, Done
<1>3. QED BY <1>1, <1>2, PTL DEF Spec

-----------------------------------------------------------------------------
(* Preservation of the inductive invariant.                                *)

(***************************************************************************)
(* A run starts at task_intake with nothing done and nothing concluded.    *)
(***************************************************************************)
LEMMA InitGraphInv == Init => GraphInv /\ EndInv
BY WorkflowAssumption DEF Init, GraphInv, Untouched, TestIsFresh, GateIsFresh,
   WithinRecoveryBound, OutcomeIsEarned, EndInv, ShippedIsVerified, ShippedIsGated,
   RedRunIsDiagnosed, BudgetEndIsExact, EscalationIsLastResort,
   PullRequestNeedsCompletion, Exhausted, FreshBudget, Completed, Escalated, Early, Looping, Gates,
   Passed, Rejected, NoTest, NoReview, Nodes

(***************************************************************************)
(* Every node and edge of the graph keeps what is known at its nodes.      *)
(***************************************************************************)
LEMMA GraphInvStep ==
    ASSUME TypeOK, TypeOK', GraphInv, [Next]_vars
    PROVE  GraphInv'
<1> USE DEF GraphInv, Runs, Goto, assurance, reviews, Early, Looping, Gates,
            Passed, Rejected
<1> attempts \in Nat /\ MaxRecovery \in Nat
    BY WorkflowAssumption DEF TypeOK
<1> DEFINE Before == TaskIntake \/ RepositoryAnalysis \/ ExternalContext
                     \/ TaskComplexityAnalysis \/ Planning \/ DynamicAgentSelection
           Terminal == Finalization \/ HumanApproval \/ BudgetExhausted \/ Escalation
<1>1. CASE Before
    BY <1>1 DEF TaskIntake, RepositoryAnalysis, ExternalContext,
       TaskComplexityAnalysis, Planning, DynamicAgentSelection, RouteAfterIntake,
       Untouched, TestIsFresh, GateIsFresh, WithinRecoveryBound, OutcomeIsEarned,
       Nodes, NoTest, NoReview
<1>2. CASE Implementation
    BY <1>2 DEF Implementation, Untouched, TestIsFresh, GateIsFresh,
       WithinRecoveryBound, OutcomeIsEarned, Nodes, NoTest, NoReview
<1>3. CASE Verification
  <2> USE <1>3 DEF Verification, RouteAfterVerification, AfterApproval
  <2>1. Untouched' /\ WithinRecoveryBound'
      BY DEF Untouched, TestIsFresh, WithinRecoveryBound, OutcomeIsEarned, Nodes
  <2>2. TestIsFresh'
      BY DEF Untouched, TestIsFresh, OutcomeIsEarned, NoTest, Nodes
  <2>3. GateIsFresh'
      BY DEF GateIsFresh, TestIsFresh, Nodes
  <2>4. OutcomeIsEarned'
      BY DEF Untouched, TestIsFresh, WithinRecoveryBound, OutcomeIsEarned, NoTest, Nodes
  <2>5. QED BY <2>1, <2>2, <2>3, <2>4
<1>4. CASE FailureAnalysis
  <2>1. PICK b \in CallTools(budget, IF test.result = "none" THEN 0 ELSE 1) :
           \/ Exhausted(b) /\ budget' = b /\ node' = "budget_exhausted"
           \/ /\ \E limit \in ModelRefusals(b) : budget' = Refuse(b, limit)
              /\ node' = "budget_exhausted"
           \/ /\ ~Exhausted(b) /\ budget' = b
              /\ node' = IF MayRecover THEN "recovery" ELSE "escalation"
      BY <1>4 DEF FailureAnalysis
  <2>2. b \in Budgets
      BY CallToolsType DEF TypeOK
  <2>3. node' = "budget_exhausted" => Exhausted(budget')
      BY <2>1, <2>2, RefusalType
  <2>4. /\ node' \in {"budget_exhausted", "recovery", "escalation"}
        /\ node' = "recovery" => attempts < MaxRecovery
        /\ node' = "escalation" => ~(attempts < MaxRecovery) /\ ~Exhausted(budget')
      BY <2>1 DEF MayRecover
  <2>5. /\ node = "failure_analysis"
        /\ UNCHANGED <<config, written, test, review, scan, risk, attempts, status>>
      BY <1>4 DEF FailureAnalysis
  <2> USE <2>3, <2>4, <2>5
  <2>6. Untouched' /\ WithinRecoveryBound'
      BY DEF Untouched, TestIsFresh, WithinRecoveryBound
  <2>7. TestIsFresh' /\ GateIsFresh'
      BY DEF TestIsFresh, GateIsFresh
  <2>8. OutcomeIsEarned'
      BY DEF OutcomeIsEarned, TestIsFresh, Nodes
  <2>9. QED BY <2>6, <2>7, <2>8
<1>5. CASE Recovery
    BY <1>5 DEF Recovery, Untouched,
       TestIsFresh, GateIsFresh, WithinRecoveryBound, OutcomeIsEarned, Nodes, NoTest
<1>6. CASE IndependentReview
    BY <1>6 DEF IndependentReview, RouteAfterReview, AfterApproval, MayRecover, Untouched,
       TestIsFresh, GateIsFresh, WithinRecoveryBound, OutcomeIsEarned, Nodes, NoTest
<1>7. CASE SecurityAnalysis
    BY <1>7 DEF SecurityAnalysis, Untouched,
       TestIsFresh, GateIsFresh, WithinRecoveryBound, OutcomeIsEarned, Nodes, NoTest
<1>8. CASE RiskGate
    BY <1>8, RiskLevelType DEF RiskGate, RouteAfterRiskGate, Untouched,
       TestIsFresh, GateIsFresh, WithinRecoveryBound, OutcomeIsEarned, Nodes, NoTest
<1>9. CASE Terminal
    BY <1>9 DEF Finalization, HumanApproval, BudgetExhausted, Escalation, End,
       FinalStatus, Untouched, TestIsFresh, GateIsFresh, WithinRecoveryBound,
       OutcomeIsEarned, Nodes
<1>10. CASE GraphRecursionError
    BY <1>10 DEF GraphRecursionError, Untouched, TestIsFresh, GateIsFresh,
       WithinRecoveryBound, OutcomeIsEarned, Nodes
<1>11. CASE UNCHANGED vars
    BY <1>11 DEF vars, Untouched, TestIsFresh, GateIsFresh, WithinRecoveryBound,
       OutcomeIsEarned
<1>12. QED BY <1>1, <1>2, <1>3, <1>4, <1>5, <1>6, <1>7, <1>8, <1>9, <1>10, <1>11
           DEF Next, Step, Done

(***************************************************************************)
(* The four terminal nodes, and only they, draw the conclusions that the   *)
(* invariant allows.                                                       *)
(***************************************************************************)
LEMMA EndInvStep ==
    ASSUME TypeOK, TypeOK', GraphInv, GraphInv', EndInv, [Next]_vars
    PROVE  EndInv'
<1> USE DEF Runs, Goto, assurance, reviews, Completed, Escalated
<1> DEFINE Terminal == Finalization \/ HumanApproval \/ BudgetExhausted \/ Escalation
<1>1. CASE Finalization
    BY <1>1 DEF Finalization, End, FinalStatus, GraphInv, TestIsFresh, GateIsFresh,
       WithinRecoveryBound, OutcomeIsEarned, EndInv, ShippedIsVerified, ShippedIsGated,
       RedRunIsDiagnosed, BudgetEndIsExact, EscalationIsLastResort,
       PullRequestNeedsCompletion, PullRequestDecision, TypeOK, Tests, Passed, Early
<1>2. CASE HumanApproval
    BY <1>2 DEF HumanApproval, End, GraphInv, GateIsFresh, TestIsFresh, Gates, Passed,
       EndInv, ShippedIsVerified, ShippedIsGated,
       RedRunIsDiagnosed, BudgetEndIsExact, EscalationIsLastResort,
       PullRequestNeedsCompletion, PullRequestDecision
<1>3. CASE BudgetExhausted
    BY <1>3 DEF BudgetExhausted, End, GraphInv, TestIsFresh, OutcomeIsEarned,
       EndInv, ShippedIsVerified, ShippedIsGated,
       RedRunIsDiagnosed, BudgetEndIsExact, EscalationIsLastResort,
       PullRequestNeedsCompletion, PullRequestDecision, TypeOK, Tests, Passed, Early
<1>4. CASE Escalation
    BY <1>4 DEF Escalation, End, GraphInv, TestIsFresh, WithinRecoveryBound,
       OutcomeIsEarned, EndInv, ShippedIsVerified, ShippedIsGated,
       RedRunIsDiagnosed, BudgetEndIsExact, EscalationIsLastResort,
       PullRequestNeedsCompletion, PullRequestDecision, TypeOK, Tests, Passed, Early
<1>5. CASE node' # "END" /\ Step
  <2>1. status' \in {"pending", "failed"} /\ (status' = "failed" => ~config'.task)
      BY <1>5 DEF GraphInv, OutcomeIsEarned, TypeOK, Nodes
  <2>2. QED BY <1>5, <2>1 DEF EndInv, ShippedIsVerified, ShippedIsGated,
       RedRunIsDiagnosed, BudgetEndIsExact, EscalationIsLastResort,
       PullRequestNeedsCompletion
<1>6. CASE UNCHANGED vars
    BY <1>6 DEF vars, EndInv, ShippedIsVerified, ShippedIsGated, RedRunIsDiagnosed,
       BudgetEndIsExact, EscalationIsLastResort, PullRequestNeedsCompletion,
       PullRequestDecision
<1>7. Step /\ node' = "END" => Terminal
    BY DEF Step, TaskIntake, RepositoryAnalysis, ExternalContext,
       TaskComplexityAnalysis, Planning, DynamicAgentSelection, RouteAfterIntake,
       Implementation, Verification, RouteAfterVerification, AfterApproval,
       FailureAnalysis, Recovery, IndependentReview, RouteAfterReview,
       SecurityAnalysis, RiskGate, RouteAfterRiskGate, GraphRecursionError
<1>8. QED BY <1>1, <1>2, <1>3, <1>4, <1>5, <1>6, <1>7 DEF Next, Done

(***************************************************************************)
(* Whatever the bounds and the models' answers, a run that ends delivers   *)
(* only a verified and gated version, calls a human in only as a last      *)
(* resort, reports an exhausted budget only when red, and agrees with the  *)
(* pull-request policy.                                                    *)
(***************************************************************************)
THEOREM EndsAsPromised == Spec => [](GraphInv /\ EndInv)
<1>1. Init => GraphInv /\ EndInv
    BY InitGraphInv
<1>2. TypeOK /\ TypeOK' /\ GraphInv /\ EndInv /\ [Next]_vars => (GraphInv /\ EndInv)'
    BY GraphInvStep, EndInvStep
<1>3. QED BY <1>1, <1>2, TypeCorrect, PTL DEF Spec

(***************************************************************************)
(* A completed run delivers exactly the version that was last verified,    *)
(* and found green.                                                        *)
(***************************************************************************)
THEOREM DeliveryIsSound == Spec => []ShippedIsVerified
BY EndsAsPromised, PTL DEF EndInv

(***************************************************************************)
(* With the gate on, it also is the version that was scanned and scored,   *)
(* with no blocker finding and no HIGH score.                              *)
(***************************************************************************)
THEOREM DeliveryIsGated == Spec => []ShippedIsGated
BY EndsAsPromised, PTL DEF EndInv

(***************************************************************************)
(* Every ending short of completion is justified by what happened, and the *)
(* pull-request policy never disagrees with it.                            *)
(***************************************************************************)
THEOREM EndingsAreJustified == Spec => []EndsForCause
<1>1. EndInv => EndsForCause
    BY DEF EndInv, EndsForCause
<1>2. QED BY <1>1, EndsAsPromised, PTL

(***************************************************************************)
(* No run repairs more than max_recovery_attempts times.                   *)
(***************************************************************************)
THEOREM RecoveryIsBounded == Spec => []RecoveryBounded
<1>1. GraphInv => RecoveryBounded
    BY DEF GraphInv, WithinRecoveryBound, RecoveryBounded
<1>2. QED BY <1>1, EndsAsPromised, PTL

(***************************************************************************)
(* The check that call_tool and the agents make before each call bounds    *)
(* what the nodes consume: model calls whatever the number of workers,     *)
(* tool calls with one or two.                                             *)
(***************************************************************************)
THEOREM BudgetIsRespected == Spec => []BudgetRespected
<1>1. Init => BudgetRespected
    BY BudgetAssumption DEF Init, BudgetRespected, FreshBudget, ModelCeiling, ToolCeiling,
       ToolWithinCeiling
<1>2. TypeOK /\ BudgetRespected /\ [Next]_vars => BudgetRespected'
  <2> SUFFICES ASSUME TypeOK, BudgetRespected, [Next]_vars PROVE BudgetRespected'
      OBVIOUS
  <2> USE DEF BudgetRespected
  <2> budget \in Budgets
      BY DEF TypeOK
  <2> DEFINE Called(n) == budget' \in CallTools(budget, n)
             Calling == \/ IndependentReview \/ SecurityAnalysis \/ RiskGate
                        \/ TaskComplexityAnalysis \/ RepositoryAnalysis \/ ExternalContext
                        \/ Verification
  <2>1. ASSUME NEW n \in Nat, Called(n) PROVE BudgetRespected'
      BY <2>1, CallToolsType DEF Budgets
  <2>2. CASE Calling
    <3>1. budget' = budget \/ \E n \in Nat : Called(n)
        BY <2>2, WorkflowAssumption DEF IndependentReview, SecurityAnalysis, RiskGate,
           TaskComplexityAnalysis, RepositoryAnalysis, ExternalContext, Verification
    <3>2. QED BY <3>1, <2>1
  <2>3. CASE Implementation
      BY <2>3, RunAgentsType DEF Implementation
  <2>4. CASE FailureAnalysis
    <3>1. PICK b \in CallTools(budget, IF test.result = "none" THEN 0 ELSE 1) :
             budget' = b \/ \E limit \in ModelRefusals(b) : budget' = Refuse(b, limit)
        BY <2>4 DEF FailureAnalysis
    <3>2. b \in Budgets /\ b.model <= ModelCeiling /\ ToolWithinCeiling(b)
        BY CallToolsType
    <3>3. QED BY <3>1, <3>2, RefusalType DEF ToolWithinCeiling
  <2>5. CASE budget' = budget
      BY <2>5
  <2>6. Step => Calling \/ Implementation \/ FailureAnalysis \/ budget' = budget
      BY DEF Step, TaskIntake, Planning, DynamicAgentSelection, Recovery, Finalization,
         HumanApproval, BudgetExhausted, Escalation, End, GraphRecursionError
  <2>7. QED BY <2>2, <2>3, <2>4, <2>5, <2>6 DEF Next, Done, vars
<1>3. QED BY <1>1, <1>2, TypeCorrect, PTL DEF Spec

-----------------------------------------------------------------------------
(* Termination: the length of a run.                                       *)

(***************************************************************************)
(* The pace of a run: how many nodes have run at most when one is reached. *)
(* A turn of the repair loop is verification, then failure_analysis or     *)
(* independent_review, then recovery: three nodes for one attempt.         *)
(***************************************************************************)
InPace ==
    /\ node = "task_intake" => steps <= 0
    /\ node = "repository_analysis" => steps <= 1
    /\ node = "external_context" => steps <= 2
    /\ node = "task_complexity_analysis" => steps <= 3
    /\ node = "planning" => steps <= 4
    /\ node = "dynamic_agent_selection" => steps <= 5
    /\ node = "implementation" => steps <= 6
    /\ node = "verification" => steps <= 7 + 3 * attempts
    /\ node \in {"failure_analysis", "independent_review"} => steps <= 8 + 3 * attempts
    /\ node \in {"recovery", "security_analysis"} => steps <= 9 + 3 * attempts
    /\ node = "risk_gate" => steps <= 10 + 3 * attempts
    /\ node \in {"finalization", "human_approval", "escalation", "budget_exhausted"} =>
          steps <= 11 + 3 * attempts

(***************************************************************************)
(* Every node and edge keeps the pace, and only a run whose pace has       *)
(* reached the recursion limit is cut off.                                 *)
(***************************************************************************)
LEMMA InPaceStep ==
    ASSUME TypeOK, InPace, CutOffNeedsRepairs, [Next]_vars
    PROVE  (InPace /\ CutOffNeedsRepairs)'
<1> USE DEF InPace, CutOffNeedsRepairs, Runs, Goto
<1> steps \in Nat /\ attempts \in Nat /\ config.limit \in Nat
    BY WorkflowAssumption DEF TypeOK, Configs
<1> DEFINE Before == TaskIntake \/ RepositoryAnalysis \/ ExternalContext
                     \/ TaskComplexityAnalysis \/ Planning \/ DynamicAgentSelection
           Terminal == Finalization \/ HumanApproval \/ BudgetExhausted \/ Escalation
<1>1. CASE Before
    BY <1>1 DEF TaskIntake, RepositoryAnalysis, ExternalContext, RouteAfterIntake,
       TaskComplexityAnalysis, Planning, DynamicAgentSelection
<1>2. CASE Implementation
    BY <1>2 DEF Implementation
<1>3. CASE Verification
    BY <1>3 DEF Verification, RouteAfterVerification, AfterApproval
<1>4. CASE FailureAnalysis
    BY <1>4 DEF FailureAnalysis
<1>5. CASE Recovery
    BY <1>5 DEF Recovery
<1>6. CASE IndependentReview
    BY <1>6 DEF IndependentReview, RouteAfterReview, AfterApproval
<1>7. CASE SecurityAnalysis
    BY <1>7 DEF SecurityAnalysis
<1>8. CASE RiskGate
    BY <1>8 DEF RiskGate, RouteAfterRiskGate
<1>9. CASE Terminal
    BY <1>9 DEF Finalization, HumanApproval, BudgetExhausted, Escalation, End
<1>10. CASE GraphRecursionError
  <2>1. steps <= 11 + 3 * attempts
      BY <1>10 DEF GraphRecursionError, Nodes
  <2>2. QED BY <1>10, <2>1 DEF GraphRecursionError
<1>11. CASE UNCHANGED vars
    BY <1>11 DEF vars
<1>12. QED BY <1>1, <1>2, <1>3, <1>4, <1>5, <1>6, <1>7, <1>8, <1>9, <1>10, <1>11
           DEF Next, Step, Done

(***************************************************************************)
(* A turn of the repair loop costs three nodes and one attempt, so a run   *)
(* that reaches the recursion limit has made the attempts for it.          *)
(***************************************************************************)
THEOREM CutOffsComeFromRepairs == Spec => []CutOffNeedsRepairs
<1>1. Init => InPace /\ CutOffNeedsRepairs
    BY DEF Init, InPace, CutOffNeedsRepairs
<1>2. QED BY <1>1, InPaceStep, TypeCorrect, PTL DEF Spec

(***************************************************************************)
(* The attempts are bounded, so no run reaches a recursion limit of        *)
(* 12 + 3 * max_recovery_attempts without an outcome.                      *)
(***************************************************************************)
THEOREM NoRunIsCutOff == Spec => []NeverCutOff
<1>1. TypeOK /\ RecoveryBounded /\ CutOffNeedsRepairs => NeverCutOff
  <2>1. SUFFICES ASSUME TypeOK, RecoveryBounded, CutOffNeedsRepairs, Generous,
                        node = "RECURSION_ERROR"
                 PROVE  FALSE
      BY DEF NeverCutOff
  <2>2. attempts \in Nat /\ config.limit \in Nat /\ MaxRecovery \in Nat
      BY <2>1, WorkflowAssumption DEF TypeOK, Configs
  <2>3. QED BY <2>1, <2>2 DEF RecoveryBounded, CutOffNeedsRepairs, Generous
<1>2. QED BY <1>1, TypeCorrect, RecoveryIsBounded, CutOffsComeFromRepairs, PTL

(***************************************************************************)
(* Each of the four terminal nodes records the outcome it gives, and no    *)
(* other node records anything.                                            *)
(***************************************************************************)
THEOREM ExperienceIsRecordedOnce == Spec => []ExperienceIsOutcome
<1>1. Init => ExperienceIsOutcome
    BY DEF Init, ExperienceIsOutcome
<1>2. TypeOK /\ ExperienceIsOutcome /\ [Next]_vars => ExperienceIsOutcome'
  <2> SUFFICES ASSUME TypeOK, ExperienceIsOutcome, [Next]_vars PROVE ExperienceIsOutcome'
      OBVIOUS
  <2> USE DEF ExperienceIsOutcome, Runs, Goto
  <2>1. CASE Finalization \/ HumanApproval \/ BudgetExhausted \/ Escalation
    <3>1. /\ node # "END" /\ node' = "END" /\ config' = config
          /\ experience' = IF config.memory THEN Append(experience, status') ELSE experience
        BY <2>1 DEF Finalization, HumanApproval, BudgetExhausted, Escalation, End
    <3>2. experience = <<>>
        BY <3>1
    <3>3. Append(<<>>, status') = <<status'>>
        OBVIOUS
    <3>4. QED BY <3>1, <3>2, <3>3
  <2>2. CASE UNCHANGED vars
      BY <2>2 DEF vars
  <2>3. Step => \/ Finalization \/ HumanApproval \/ BudgetExhausted \/ Escalation
                \/ node # "END" /\ node' # "END" /\ experience' = experience
      BY DEF Step, TaskIntake, RepositoryAnalysis, ExternalContext, RouteAfterIntake,
         TaskComplexityAnalysis, Planning, DynamicAgentSelection, Implementation,
         Verification, RouteAfterVerification, AfterApproval, FailureAnalysis, Recovery,
         IndependentReview, RouteAfterReview, SecurityAnalysis, RiskGate,
         RouteAfterRiskGate, GraphRecursionError, Nodes
  <2>4. QED BY <2>1, <2>2, <2>3 DEF Next, Done
<1>3. QED BY <1>1, <1>2, TypeCorrect, PTL DEF Spec

-----------------------------------------------------------------------------
(* Approval.                                                               *)

(***************************************************************************)
(* review_rejections never leaves {0, 1}, so with at least two cycles the  *)
(* review is never skipped, and every gate behind it sees an approval.     *)
(***************************************************************************)
ReviewInv ==
    /\ rejections \in {0, 1}
    /\ node \in Early \union Looping \union {"escalation", "budget_exhausted"} =>
          review.verdict # "approved"
    /\ MaxReviewCycles >= 2 /\ config.review =>
          /\ node \in {"security_analysis", "risk_gate", "human_approval"} => Approved
          /\ node = "finalization" /\ Passed(test) => Approved
          /\ Completed => Approved

(***************************************************************************)
(* A run starts without a review.                                          *)
(***************************************************************************)
LEMMA InitReviewInv == Init => ReviewInv
BY DEF Init, ReviewInv, NoReview, NoTest, Passed, Completed

(***************************************************************************)
(* Only IndependentReview writes the review, an approval leads straight to *)
(* the gates, and with two cycles allowed the single rejection that the    *)
(* merged counter can hold never closes the way back to the reviewer.      *)
(***************************************************************************)
LEMMA ReviewInvStep ==
    ASSUME TypeOK, TypeOK', GraphInv, ReviewInv, [Next]_vars
    PROVE  ReviewInv'
<1> USE DEF ReviewInv, Runs, Goto, assurance, reviews, Early, Looping, Approved,
            Passed, Rejected, Completed
<1> MaxReviewCycles \in Nat
    BY WorkflowAssumption
<1> DEFINE Before == TaskIntake \/ RepositoryAnalysis \/ ExternalContext
                     \/ TaskComplexityAnalysis \/ Planning \/ DynamicAgentSelection
                     \/ Implementation \/ FailureAnalysis \/ Recovery
           Gate == SecurityAnalysis \/ RiskGate
           Terminal == Finalization \/ HumanApproval \/ BudgetExhausted \/ Escalation
<1>1. CASE Before
    BY <1>1 DEF TaskIntake, RepositoryAnalysis, ExternalContext, RouteAfterIntake,
       TaskComplexityAnalysis, Planning, DynamicAgentSelection, Implementation,
       FailureAnalysis, Recovery, GraphInv, TestIsFresh, OutcomeIsEarned, Nodes,
       Untouched, NoTest
<1>2. CASE Verification
    BY <1>2 DEF Verification, RouteAfterVerification, ReviewBudgetLeft,
       AfterApproval, GraphInv, OutcomeIsEarned, Nodes
<1>3. CASE IndependentReview
  <2>1. rejections' \in {0, 1}
      BY <1>3 DEF IndependentReview, MergeRejections
  <2>2. review'.verdict \in {"approved", "rejected"} /\ review'.of = written'
      BY <1>3 DEF IndependentReview
  <2>3. QED BY <1>3, <2>1, <2>2 DEF IndependentReview, RouteAfterReview,
            AfterApproval, GraphInv, OutcomeIsEarned, Nodes
<1>4. CASE Gate
    BY <1>4 DEF SecurityAnalysis, RiskGate, RouteAfterRiskGate, GraphInv,
       OutcomeIsEarned, Nodes
<1>5. CASE Terminal
    BY <1>5 DEF Finalization, HumanApproval, BudgetExhausted, Escalation, End,
       FinalStatus
<1>6. CASE GraphRecursionError
    BY <1>6 DEF GraphRecursionError
<1>7. CASE UNCHANGED vars
    BY <1>7 DEF vars
<1>8. QED BY <1>1, <1>2, <1>3, <1>4, <1>5, <1>6, <1>7 DEF Next, Step, Done

(***************************************************************************)
(* An approval in force is one of the gates' stages, in every state.       *)
(***************************************************************************)
LEMMA ReviewInvariant == Spec => []ReviewInv
<1>1. TypeOK /\ TypeOK' /\ GraphInv /\ ReviewInv /\ [Next]_vars => ReviewInv'
    BY ReviewInvStep
<1>2. QED BY <1>1, InitReviewInv, TypeCorrect, EndsAsPromised, PTL DEF Spec

(***************************************************************************)
(* With the default max_review_cycles, what is delivered was approved.     *)
(***************************************************************************)
THEOREM DeliveryIsApproved ==
    ASSUME MaxReviewCycles >= 2
    PROVE  Spec => []ShippedIsApproved
<1>1. ReviewInv => ShippedIsApproved
    BY DEF ReviewInv, ShippedIsApproved, Approved
<1>2. QED BY <1>1, ReviewInvariant, PTL

(***************************************************************************)
(* Approval ends the loop: no node that runs after it edits the change or  *)
(* reviews it again.                                                       *)
(***************************************************************************)
THEOREM ApprovalEndsTheLoop == Spec => ApprovalIsFinal
<1>1. ReviewInv /\ Approved /\ [Next]_vars => Approved' /\ written' = written
  <2> SUFFICES ASSUME ReviewInv, Approved, [Next]_vars
               PROVE  Approved' /\ written' = written
      OBVIOUS
  <2>1. node \notin Early \union Looping
      BY DEF ReviewInv, Approved
  <2>2. CASE Step
      BY <2>1, <2>2 DEF Step, Approved, Early, Looping, Runs, assurance, TaskIntake,
         RepositoryAnalysis, ExternalContext, TaskComplexityAnalysis, Planning,
         DynamicAgentSelection, Implementation, Verification, FailureAnalysis, Recovery,
         IndependentReview, SecurityAnalysis, RiskGate, Finalization, HumanApproval,
         BudgetExhausted, Escalation, End, GraphRecursionError
  <2>3. QED BY <2>2 DEF Next, Done, vars, Approved
<1>2. QED BY <1>1, ReviewInvariant, PTL DEF Spec, ApprovalIsFinal
=============================================================================
