------------------------------ MODULE Workflow ------------------------------
(***************************************************************************)
(* The SWE-Forge StateGraph (agent/sweforge/graph/workflow.py): one run of *)
(* one task, from task_intake to a terminal node.  LangGraph executes one  *)
(* node per superstep and then its routing function, so an action here is  *)
(* a node, its budget traffic and the edge taken out of it.                *)
(*                                                                         *)
(* What the models and the repository answer is a nondeterministic choice. *)
(* File contents are abstracted to `written', the number of times the      *)
(* run's change has been altered, and every assurance result carries the   *)
(* version it was computed from, so that the properties can tell a fresh   *)
(* result from a stale one.                                                *)
(***************************************************************************)
EXTENDS Budget, Sequences

CONSTANTS
    MaxRecovery,      \* WorkflowConfig.max_recovery_attempts
    MaxReviewCycles,  \* WorkflowConfig.max_review_cycles
    RecursionLimits,  \* the values of run_task's recursion_limit: nodes that may run
    RepoProbes,       \* how many tool calls repository_analysis may make
    MaxMajors,        \* bound on the major findings of a scan (3 saturate the score)
    ChangeWeights     \* risk of the paths and the size of a change

ASSUME WorkflowAssumption ==
    /\ MaxRecovery \in Nat
    /\ MaxReviewCycles \in Nat
    /\ RecursionLimits \subseteq Nat
    /\ RepoProbes \subseteq Nat
    /\ MaxMajors \in Nat
    /\ ChangeWeights \subseteq Nat

VARIABLES
    config,      \* the run's WorkflowConfig, task, verifier and limit; never changes
    node,        \* the node about to run, "END", or "RECURSION_ERROR"
    steps,       \* nodes executed: len(node_trace)
    written,     \* version of runtime.written_files and of the working tree
    test,        \* test_results
    review,      \* review_results
    scan,        \* security_findings
    risk,        \* risk_score
    attempts,    \* len(recovery_attempts)
    rejections,  \* execution_metrics.review_rejections
    rejected,    \* "independent_review(REJECTED)" entries of node_trace
    budget,      \* runtime.budget
    status,      \* final_status
    experience   \* the final_status of every record given to the ExperienceStore

vars == <<config, node, steps, written, test, review, scan, risk, attempts,
          rejections, rejected, budget, status, experience>>

assurance == <<test, review, scan, risk>>
reviews   == <<rejections, rejected>>

-----------------------------------------------------------------------------

Configs == [task : BOOLEAN, intelligence : BOOLEAN, recovery : BOOLEAN,
            review : BOOLEAN, gate : BOOLEAN, memory : BOOLEAN,
            verifier : BOOLEAN, limit : RecursionLimits]

Nodes == {"task_intake", "repository_analysis", "external_context",
          "task_complexity_analysis", "planning", "dynamic_agent_selection",
          "implementation", "verification", "failure_analysis", "recovery",
          "independent_review", "security_analysis", "risk_gate",
          "finalization", "human_approval", "escalation", "budget_exhausted"}

Statuses == {"pending", "budget_exhausted", "completed",
             "completed_with_findings", "awaiting_human_approval",
             "escalated_recovery_exhausted", "escalated_review_rejected",
             "failed"}

NoTest   == [result |-> "none", of |-> 0]
NoReview == [verdict |-> "none", findings |-> FALSE, of |-> 0]
NoScan   == [blocker |-> FALSE, majors |-> 0, minor |-> FALSE, of |-> 0]
NoRisk   == [level |-> "none", of |-> 0]

Passed(t)   == t.result = "passed"
Rejected(r) == r.verdict = "rejected"

HasFindings(s) == s.blocker \/ s.majors > 0 \/ s.minor

Init ==
    /\ config \in Configs
    /\ node = "task_intake"
    /\ steps = 0
    /\ written = 0
    /\ test = NoTest
    /\ review = NoReview
    /\ scan = NoScan
    /\ risk = NoRisk
    /\ attempts = 0
    /\ rejections = 0
    /\ rejected = 0
    /\ budget = FreshBudget
    /\ status = "pending"
    /\ experience = <<>>

(***************************************************************************)
(* LangGraph runs the pending node unless the run has used up its          *)
(* recursion limit, in which case graph.invoke raises GraphRecursionError. *)
(***************************************************************************)
Runs(n) == node = n /\ steps < config.limit
Goto(n) == node' = n /\ steps' = steps + 1

GraphRecursionError ==
    /\ node \in Nodes
    /\ steps >= config.limit
    /\ node' = "RECURSION_ERROR"
    /\ UNCHANGED <<config, steps, written, assurance, attempts, reviews,
                   budget, status, experience>>

-----------------------------------------------------------------------------
(* Routing functions.                                                      *)

(***************************************************************************)
(* Slips, here and below: what a plausible mistake in the definition that  *)
(* comes next would make of it.  No specification uses them; a mutation of *)
(* the model puts one in the place of the definition.                      *)
(***************************************************************************)
RouteHaltsGreenRun(t, b) ==
    IF Exhausted(b) THEN "budget_exhausted"
    ELSE IF Passed(t) THEN "independent_review" ELSE "failure_analysis"

RecoverForever == TRUE


RouteAfterIntake == IF status' = "failed" THEN "finalization" ELSE "repository_analysis"

ReviewBudgetLeft == rejections < MaxReviewCycles

AfterApproval == IF config.gate THEN "security_analysis" ELSE "finalization"

RouteAfterVerification(t, b) ==
    CASE Exhausted(b) /\ ~Passed(t)                           -> "budget_exhausted"
      [] Passed(t) /\ config.review /\ ReviewBudgetLeft       -> "independent_review"
      [] Passed(t) /\ ~(config.review /\ ReviewBudgetLeft)    -> AfterApproval
      [] ~Exhausted(b) /\ ~Passed(t) /\ config.recovery       -> "failure_analysis"
      [] ~Exhausted(b) /\ ~Passed(t) /\ ~config.recovery      -> "finalization"

MayRecover == attempts < MaxRecovery

RouteAfterReview(r) ==
    IF ~Rejected(r) THEN AfterApproval
    ELSE IF config.recovery /\ MayRecover THEN "recovery" ELSE "escalation"

RouteAfterRiskGate(k) == IF k.level = "HIGH" THEN "human_approval" ELSE "finalization"

-----------------------------------------------------------------------------
(* From the task to the first change.                                      *)

TaskIntake ==
    /\ Runs("task_intake")
    /\ status' = IF config.task THEN status ELSE "failed"
    /\ Goto(RouteAfterIntake)
    /\ UNCHANGED <<config, written, assurance, attempts, reviews, budget, experience>>

(***************************************************************************)
(* Three tool calls, up to seven more for the evidence of the best ranked  *)
(* files; none when repository intelligence is ablated.                    *)
(***************************************************************************)
RepositoryAnalysis ==
    /\ Runs("repository_analysis")
    /\ \E n \in IF config.intelligence THEN RepoProbes ELSE {0} :
          budget' \in CallTools(budget, n)
    /\ Goto("external_context")
    /\ UNCHANGED <<config, written, assurance, attempts, reviews, status, experience>>

(***************************************************************************)
(* The MCP policy shares the budget: a refused or failing call consumes    *)
(* nothing, and only the budget's own refusal is recorded in it.           *)
(***************************************************************************)
ExternalContext ==
    /\ Runs("external_context")
    /\ budget' \in {budget} \union CallTools(budget, 1)
    /\ Goto("task_complexity_analysis")
    /\ UNCHANGED <<config, written, assurance, attempts, reviews, status, experience>>

TaskComplexityAnalysis ==
    /\ Runs("task_complexity_analysis")
    /\ budget' \in CallTools(budget, IF config.memory THEN 1 ELSE 0)
    /\ Goto("planning")
    /\ UNCHANGED <<config, written, assurance, attempts, reviews, status, experience>>

(***************************************************************************)
(* The planner always returns a plan (its own, or the fallback one), so    *)
(* the "no plan" branches of the later nodes are not reachable.  Its model *)
(* call neither checks nor consumes the budget.                            *)
(***************************************************************************)
Planning ==
    /\ Runs("planning")
    /\ Goto("dynamic_agent_selection")
    /\ UNCHANGED <<config, written, assurance, attempts, reviews, budget, status, experience>>

DynamicAgentSelection ==
    /\ Runs("dynamic_agent_selection")
    /\ Goto("implementation")
    /\ UNCHANGED <<config, written, assurance, attempts, reviews, budget, status, experience>>

(***************************************************************************)
(* Every agent of the plan runs and the edits of those that succeeded are  *)
(* applied.  An agent swallows its own failure, BudgetExceeded included,   *)
(* so the node always reaches verification, with or without an edit.       *)
(***************************************************************************)
Implementation ==
    /\ Runs("implementation")
    /\ budget' \in RunAgents(budget)
    /\ \/ written' = written
       \/ budget'.model # budget.model /\ written' = written + 1
    /\ Goto("verification")
    /\ UNCHANGED <<config, assurance, attempts, reviews, status, experience>>

-----------------------------------------------------------------------------
(* Verification and the repair loop.                                       *)

(***************************************************************************)
(* With its tool refused by the budget the node runs the Verifier itself,  *)
(* so a result is produced either way; without a Verifier there is none.   *)
(***************************************************************************)
Verification ==
    /\ Runs("verification")
    /\ IF config.verifier
       THEN /\ budget' \in CallTools(budget, 1)
            /\ test' \in [result : {"passed", "failed"}, of : {written}]
       ELSE budget' = budget /\ test' = NoTest
    /\ Goto(RouteAfterVerification(test', budget'))
    /\ UNCHANGED <<config, written, review, scan, risk, attempts, reviews,
                   status, experience>>

FailureAnalysis ==
    /\ Runs("failure_analysis")
    /\ \E b \in CallTools(budget, IF test.result = "none" THEN 0 ELSE 1) :
          \/ /\ Exhausted(b)
             /\ budget' = b
             /\ Goto("budget_exhausted")
          \/ /\ ~Exhausted(b)
             /\ \E limit \in ModelRefusals(b) : budget' = Refuse(b, limit)
             /\ Goto("budget_exhausted")
          \/ /\ ~Exhausted(b) /\ ModelCallFits(b)
             /\ budget' = b
             /\ Goto(IF MayRecover THEN "recovery" ELSE "escalation")
    /\ UNCHANGED <<config, written, assurance, attempts, reviews, status, experience>>

RecoveryCountsRedRunsOnly ==
    /\ Runs("recovery")
    /\ attempts' = IF Passed(test) THEN attempts ELSE attempts + 1
    /\ written' = written + 1
    /\ Goto("verification")
    /\ UNCHANGED <<config, assurance, reviews, budget, status, experience>>

(***************************************************************************)
(* One repair attempt, counted even when there is nothing to diagnose or   *)
(* the Diagnostician fails and proposes no edit.                           *)
(***************************************************************************)
Recovery ==
    /\ Runs("recovery")
    /\ attempts' = attempts + 1
    /\ \/ written' = written
       \/ test.result # "none" /\ written' = written + 1
    /\ Goto("verification")
    /\ UNCHANGED <<config, assurance, reviews, budget, status, experience>>

-----------------------------------------------------------------------------
(* The gates.                                                              *)

AddRejections(new) == rejections + new

(***************************************************************************)
(* A reviewer that raises is a rejection without findings.  _merge_metrics *)
(* keeps the larger of the old and the new review_rejections, and a node   *)
(* contributes 0 or 1.                                                     *)
(***************************************************************************)
MergeRejections(new) == IF new > rejections THEN new ELSE rejections

IndependentReview ==
    /\ Runs("independent_review")
    /\ budget' \in CallTools(budget, 1)
    /\ review' \in [verdict : {"approved", "rejected"}, findings : BOOLEAN, of : {written}]
    /\ LET new == IF Rejected(review') THEN 1 ELSE 0
       IN  rejections' = MergeRejections(new) /\ rejected' = rejected + new
    /\ Goto(RouteAfterReview(review'))
    /\ UNCHANGED <<config, written, test, scan, risk, attempts, status, experience>>

(***************************************************************************)
(* A refused scan tool falls back to the scanner itself.                   *)
(***************************************************************************)
SecurityAnalysis ==
    /\ Runs("security_analysis")
    /\ budget' \in CallTools(budget, 1)
    /\ scan' \in [blocker : BOOLEAN, majors : 0..MaxMajors, minor : BOOLEAN, of : {written}]
    /\ Goto("risk_gate")
    /\ UNCHANGED <<config, written, test, review, risk, attempts, reviews,
                   status, experience>>

AtMost(n, cap) == IF n > cap THEN cap ELSE n

(***************************************************************************)
(* RiskEngine.assess: additive, capped at 100.                             *)
(***************************************************************************)
RiskScore(w) ==
    AtMost((IF scan.blocker THEN 60 ELSE 0)
            + AtMost(12 * scan.majors, 30)
            + w
            + (CASE test.result = "failed" -> 40
                 [] test.result = "none"   -> 25
                 [] test.result = "passed" -> 0)
            + (IF Rejected(review) THEN 30 ELSE 0)
            + (IF attempts >= 2 THEN 10 + 5 * (attempts - 2) ELSE 0), 100)

RiskLevelPastBlocker(score) ==
    IF score > 60 THEN "HIGH" ELSE IF score >= 25 THEN "MEDIUM" ELSE "LOW"

RiskLevel(score) ==
    CASE score >= 55                 -> "HIGH"
      [] score >= 25 /\ score < 55   -> "MEDIUM"
      [] score < 25                  -> "LOW"

RiskGate ==
    /\ Runs("risk_gate")
    /\ budget' \in CallTools(budget, 1)
    /\ \E w \in ChangeWeights : risk' = [level |-> RiskLevel(RiskScore(w)), of |-> written]
    /\ Goto(RouteAfterRiskGate(risk'))
    /\ UNCHANGED <<config, written, test, review, scan, attempts, reviews,
                   status, experience>>

-----------------------------------------------------------------------------
(* Terminal nodes.                                                         *)

RecordStatusBeforeEnd(n, s) ==
    /\ Runs(n)
    /\ status' = s
    /\ experience' = IF config.memory THEN Append(experience, status) ELSE experience
    /\ Goto("END")
    /\ UNCHANGED <<config, written, assurance, attempts, reviews, budget>>

End(n, s) ==
    /\ Runs(n)
    /\ status' = s
    /\ experience' = IF config.memory THEN Append(experience, s) ELSE experience
    /\ Goto("END")
    /\ UNCHANGED <<config, written, assurance, attempts, reviews, budget>>

StatusOutsideSchema ==
    IF ~Passed(test) THEN "verification_failed"
    ELSE IF HasFindings(scan) \/ review.findings THEN "completed_with_findings"
    ELSE "completed"

StatusByFindingsOnly ==
    IF HasFindings(scan) \/ review.findings THEN "completed_with_findings" ELSE "completed"

FinalStatus ==
    IF ~Passed(test) THEN "failed"
    ELSE IF HasFindings(scan) \/ review.findings THEN "completed_with_findings"
    ELSE "completed"

Finalization    == End("finalization", FinalStatus)
HumanApproval   == End("human_approval", "awaiting_human_approval")
BudgetExhausted == End("budget_exhausted", "budget_exhausted")
Escalation      == End("escalation", IF Rejected(review) THEN "escalated_review_rejected"
                                     ELSE "escalated_recovery_exhausted")

-----------------------------------------------------------------------------

Step ==
    \/ TaskIntake \/ RepositoryAnalysis \/ ExternalContext
    \/ TaskComplexityAnalysis \/ Planning \/ DynamicAgentSelection
    \/ Implementation \/ Verification \/ FailureAnalysis \/ Recovery
    \/ IndependentReview \/ SecurityAnalysis \/ RiskGate
    \/ Finalization \/ HumanApproval \/ BudgetExhausted \/ Escalation
    \/ GraphRecursionError

Stopped == node \in {"END", "RECURSION_ERROR"}

Done == Stopped /\ UNCHANGED vars

Next == Step \/ Done

Spec == Init /\ [][Next]_vars

(***************************************************************************)
(* A node returns (its model and tool calls have timeouts, and its loops   *)
(* are bounded), and LangGraph then runs the next one.                     *)
(***************************************************************************)
FairSpec == Spec /\ WF_vars(Step)

-----------------------------------------------------------------------------
(* Pull requests: what prepare_pull_request (agent/sweforge/github/        *)
(* finalization.py) decides about the final state of a run.                *)

PullRequestDecision ==
    CASE risk.level = "HIGH" \/ test.result = "failed" \/ Rejected(review)    -> "blocked"
      [] risk.level = "MEDIUM" /\ test.result # "failed" /\ ~Rejected(review) -> "draft"
      [] OTHER                                                                -> "open"

-----------------------------------------------------------------------------
(* Properties.                                                             *)

Tests == [result : {"none", "passed", "failed"}, of : Nat]
Reviews == [verdict : {"none", "approved", "rejected"}, findings : BOOLEAN, of : Nat]
Scans == [blocker : BOOLEAN, majors : 0..MaxMajors, minor : BOOLEAN, of : Nat]
Risks == [level : {"none", "LOW", "MEDIUM", "HIGH"}, of : Nat]

(* Every variable holds a value of the state schema's type.                *)
TypeOK ==
    /\ config \in Configs
    /\ node \in Nodes \union {"END", "RECURSION_ERROR"}
    /\ steps \in Nat
    /\ written \in Nat
    /\ test \in Tests
    /\ review \in Reviews
    /\ scan \in Scans
    /\ risk \in Risks
    /\ attempts \in Nat
    /\ rejections \in Nat
    /\ rejected \in Nat
    /\ budget \in Budgets
    /\ status \in Statuses
    /\ experience \in Seq(Statuses)

Completed == status \in {"completed", "completed_with_findings"}

Escalated == status \in {"escalated_recovery_exhausted", "escalated_review_rejected"}

(***************************************************************************)
(* A completed run delivers exactly the version its last verification      *)
(* found green: no repair slips in between the last verification and       *)
(* finalization (recovery -> verification is the only edge).               *)
(***************************************************************************)
ShippedIsVerified == Completed => Passed(test) /\ test.of = written

(***************************************************************************)
(* With the security gate on, the version delivered is the one that was    *)
(* scanned and scored, and neither a blocker finding nor a HIGH score gets *)
(* past the gate, whatever the reviewer thought of the change.             *)
(***************************************************************************)
ShippedIsGated ==
    Completed /\ config.gate =>
        /\ scan.of = written /\ ~scan.blocker
        /\ risk.of = written /\ risk.level # "HIGH"

(***************************************************************************)
(* With review on and at least two review cycles allowed (the default),    *)
(* the version delivered is one the reviewer approved, although review     *)
(* happens before repairs that may change the code again.                  *)
(***************************************************************************)
ShippedIsApproved ==
    Completed /\ config.review => review.verdict = "approved" /\ review.of = written

(***************************************************************************)
(* "A red run must go through diagnosis, not quietly finish": with recovery*)
(* enabled a run ends "failed" only because its task was empty.            *)
(***************************************************************************)
RedRunIsDiagnosed == status = "failed" => ~config.recovery \/ ~config.task

(***************************************************************************)
(* budget_exhausted ends exactly the runs that hit a limit and are not     *)
(* green: a finished change is never discarded for lack of budget, and a   *)
(* red run out of budget is never reported as anything else.               *)
(***************************************************************************)
BudgetEndIsExact ==
    node = "END" => (status = "budget_exhausted" <=> Exhausted(budget) /\ ~Passed(test))

(***************************************************************************)
(* A human is called in only once every repair attempt has been used, or   *)
(* when the variant has no repair loop.                                    *)
(***************************************************************************)
EscalationIsLastResort == Escalated => ~config.recovery \/ attempts = MaxRecovery

(***************************************************************************)
(* The two edges into recovery share one bound: a run never repairs more   *)
(* than max_recovery_attempts times, however failed verifications and      *)
(* rejected reviews alternate.                                             *)
(***************************************************************************)
RecoveryBounded == attempts <= MaxRecovery

(***************************************************************************)
(* Twelve nodes and three more per repair bound the length of a run, so a  *)
(* recursion limit of that size never cuts one off without an outcome.     *)
(***************************************************************************)
Generous == config.limit >= 12 + 3 * MaxRecovery
NeverCutOff == Generous => node # "RECURSION_ERROR"

(***************************************************************************)
(* Whatever the recursion limit, it is only the turns of the repair loop   *)
(* that can use it up: a run that is cut off has made enough attempts.     *)
(***************************************************************************)
CutOffNeedsRepairs == node = "RECURSION_ERROR" => 12 + 3 * attempts > config.limit

(***************************************************************************)
(* The experience store learns the outcome of each run that ended, once,   *)
(* and nothing of a run that was cut off or is still going.                *)
(***************************************************************************)
ExperienceIsOutcome ==
    experience = IF node = "END" /\ config.memory THEN <<status>> ELSE <<>>

(***************************************************************************)
(* The counters of consumed calls never pass the hard limits by more than  *)
(* the workers that may stand between a check and its consumption: that of *)
(* model calls for any number of workers, that of tool calls for up to two.*)
(***************************************************************************)
BudgetRespected == budget.model <= ModelCeiling /\ ToolWithinCeiling(budget)

(***************************************************************************)
(* Of the runs that had a task and a Verifier, only a completed one is     *)
(* eligible for a pull request: the PR policy, which looks at three fields *)
(* of the final state and not at final_status, agrees with the graph.      *)
(***************************************************************************)
PullRequestNeedsCompletion ==
    node = "END" /\ config.task /\ config.verifier
        /\ PullRequestDecision # "blocked" => Completed

(***************************************************************************)
(* Every ending occurs only, and the exhausted one exactly, when it should *)
(* (the routes after verification and review, escalation, finalization,    *)
(* and the pull-request policy on what they leave behind).                 *)
(***************************************************************************)
EndsForCause ==
    /\ RedRunIsDiagnosed
    /\ BudgetEndIsExact
    /\ EscalationIsLastResort
    /\ PullRequestNeedsCompletion

(***************************************************************************)
(* Once the reviewer has approved the change as it stands, nothing edits   *)
(* it any more and the approval is not taken back.                         *)
(***************************************************************************)
Approved == review.verdict = "approved" /\ review.of = written
ApprovalIsFinal == [][Approved => Approved' /\ written' = written]_vars

(***************************************************************************)
(* Every run whose recursion limit is large enough reaches an explicit     *)
(* terminal outcome.                                                       *)
(***************************************************************************)
Terminates == Generous ~> node = "END" /\ status # "pending"

(***************************************************************************)
(* A claim of the documentation that the code does not keep:               *)
(* max_review_cycles bounds the rejected reviews of a run ("Prevent an     *)
(* endless implement/review ping-pong").                                   *)
(***************************************************************************)
ReviewCyclesBounded == rejected <= MaxReviewCycles

(***************************************************************************)
(* The graph implements the promise of ChangeControl.                      *)
(***************************************************************************)
Control == INSTANCE ChangeControl WITH
    MaxRepairs <- MaxRecovery,
    change     <- written,
    repairs    <- attempts,
    verified   <- Passed(test) /\ test.of = written,
    outcome    <- IF status = "pending" THEN "open"
                  ELSE IF Completed THEN "delivered" ELSE "held"

ImplementsChangeControl == Control!Spec
=============================================================================
