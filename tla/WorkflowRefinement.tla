------------------------- MODULE WorkflowRefinement -------------------------
(***************************************************************************)
(* The workflow graph implements ChangeControl: the proof that every node  *)
(* of the graph is a step of the abstract specification or a stutter.      *)
(***************************************************************************)
EXTENDS WorkflowProofs

(***************************************************************************)
(* What the refinement mapping sees of a state; a node that leaves all of  *)
(* it alone is a stutter of the abstract specification.                    *)
(***************************************************************************)
Seen == <<written, attempts, test, status>>

(***************************************************************************)
(* A node that leaves the change, its verification, the attempts and the   *)
(* outcome alone is not a step of ChangeControl.                           *)
(***************************************************************************)
LEMMA UnseenIsStutter ==
    ASSUME UNCHANGED Seen
    PROVE  UNCHANGED Control!vars
BY DEF Seen, Control!vars, Passed, Completed

(***************************************************************************)
(* task_intake hands an empty task over at once.                           *)
(***************************************************************************)
LEMMA IntakeRefines ==
    ASSUME TypeOK, GraphInv, TaskIntake
    PROVE  [Control!Next]_(Control!vars)
<1>1. status = "pending"
    BY DEF TaskIntake, Runs, GraphInv, OutcomeIsEarned, Nodes
<1>2. CASE status' = status
    BY <1>2, UnseenIsStutter DEF TaskIntake, assurance, Seen
<1>3. CASE status' = "failed"
    BY <1>1, <1>3 DEF TaskIntake, assurance, Control!Next, Control!HandOver,
       Completed, Passed
<1>4. QED BY <1>2, <1>3 DEF TaskIntake

(***************************************************************************)
(* implementation drafts the change, or leaves the repository untouched.   *)
(***************************************************************************)
LEMMA ImplementationRefines ==
    ASSUME TypeOK, GraphInv, Implementation
    PROVE  [Control!Next]_(Control!vars)
<1>1. /\ written = 0 /\ attempts = 0 /\ test = NoTest /\ status = "pending"
      /\ UNCHANGED <<attempts, test, status>>
    BY DEF Implementation, Runs, assurance, GraphInv, Untouched, OutcomeIsEarned,
       Early, Nodes
<1>2. CASE written' = written
    BY <1>1, <1>2, UnseenIsStutter DEF Seen
<1>3. CASE written' = written + 1
    BY <1>1, <1>3 DEF Control!Next, Control!Draft, Completed, Passed, NoTest
<1>4. QED BY <1>2, <1>3 DEF Implementation

(***************************************************************************)
(* verification checks the change as it stands.                            *)
(***************************************************************************)
LEMMA VerificationRefines ==
    ASSUME TypeOK, GraphInv, Verification
    PROVE  [Control!Next]_(Control!vars)
<1>1. status = "pending" /\ UNCHANGED <<written, attempts, status>>
    BY DEF Verification, Runs, GraphInv, OutcomeIsEarned, Nodes
<1>2. (Passed(test) /\ test.of = written)' \in BOOLEAN
    OBVIOUS
<1>3. QED BY <1>1, <1>2 DEF Control!Next, Control!Check, Completed

(***************************************************************************)
(* recovery spends an attempt; an edit makes the last green result stale.  *)
(***************************************************************************)
LEMMA RecoveryRefines ==
    ASSUME TypeOK, GraphInv, Recovery
    PROVE  [Control!Next]_(Control!vars)
<1>1. /\ status = "pending" /\ attempts < MaxRecovery
      /\ attempts' = attempts + 1
      /\ UNCHANGED <<test, status>>
    BY DEF Recovery, Runs, assurance, GraphInv, OutcomeIsEarned, WithinRecoveryBound, Nodes
<1>2. Passed(test) => test.of = written
    BY DEF Recovery, Runs, GraphInv, TestIsFresh
<1>3. CASE written' = written
    BY <1>1, <1>3 DEF Control!Next, Control!Repair, Completed, Passed
<1>4. CASE written' = written + 1
  <2>1. ~(Passed(test) /\ test.of = written)'
      BY <1>1, <1>2, <1>4 DEF Passed, TypeOK
  <2>2. QED BY <1>1, <1>4, <2>1 DEF Control!Next, Control!Repair, Completed
<1>5. QED BY <1>3, <1>4 DEF Recovery

(***************************************************************************)
(* The terminal nodes deliver a verified change or hand it over; an empty  *)
(* task, handed over by task_intake, stays so.                             *)
(***************************************************************************)
LEMMA TerminalRefines ==
    ASSUME TypeOK, GraphInv,
           Finalization \/ HumanApproval \/ BudgetExhausted \/ Escalation
    PROVE  [Control!Next]_(Control!vars)
<1>1. UNCHANGED <<written, attempts, test>>
    BY DEF Finalization, HumanApproval, BudgetExhausted, Escalation, End, assurance
<1>2. CASE status = "failed"
  <2>1. node = "finalization" /\ ~Passed(test)
      BY <1>2 DEF Finalization, HumanApproval, BudgetExhausted, Escalation, End, Runs,
         GraphInv, OutcomeIsEarned, Nodes
  <2>2. status' = status
      BY <1>2, <2>1 DEF Finalization, HumanApproval, BudgetExhausted, Escalation, End,
         Runs, FinalStatus
  <2>3. QED BY <1>1, <2>2, UnseenIsStutter DEF Seen
<1>3. CASE status = "pending"
  <2>1. status' # "pending"
      BY DEF Finalization, HumanApproval, BudgetExhausted, Escalation, End, FinalStatus
  <2>2. CASE Completed'
    <3>1. Passed(test) /\ test.of = written
        BY <2>2 DEF Finalization, HumanApproval, BudgetExhausted, Escalation, End, Runs,
           FinalStatus, Completed, GraphInv, TestIsFresh
    <3>2. QED BY <1>1, <1>3, <2>1, <2>2, <3>1 DEF Control!Next, Control!Deliver,
              Completed, Passed
  <2>3. CASE ~Completed'
      BY <1>1, <1>3, <2>1, <2>3 DEF Control!Next, Control!HandOver, Completed, Passed
  <2>4. QED BY <2>2, <2>3
<1>4. QED BY <1>2, <1>3 DEF Finalization, HumanApproval, BudgetExhausted, Escalation,
          End, Runs, GraphInv, OutcomeIsEarned, Nodes

(***************************************************************************)
(* The graph implements the promise made about a change: drafted once,     *)
(* altered only by a bounded number of repairs, delivered only as checked  *)
(* and found green, and otherwise handed to a human.                       *)
(***************************************************************************)
THEOREM WorkflowImplementsChangeControl == Spec => ImplementsChangeControl
<1>1. Init => Control!Init
    BY DEF Init, Control!Init, NoTest, Passed, Completed
<1>2. TypeOK /\ GraphInv /\ [Next]_vars => [Control!Next]_(Control!vars)
  <2> SUFFICES ASSUME TypeOK, GraphInv, [Next]_vars
               PROVE  [Control!Next]_(Control!vars)
      OBVIOUS
  <2>1. CASE TaskIntake
      BY <2>1, IntakeRefines
  <2>2. CASE Implementation
      BY <2>2, ImplementationRefines
  <2>3. CASE Verification
      BY <2>3, VerificationRefines
  <2>4. CASE Recovery
      BY <2>4, RecoveryRefines
  <2>5. CASE Finalization \/ HumanApproval \/ BudgetExhausted \/ Escalation
      BY <2>5, TerminalRefines
  <2>6. CASE UNCHANGED Seen
      BY <2>6, UnseenIsStutter
  <2>7. RepositoryAnalysis \/ ExternalContext \/ TaskComplexityAnalysis \/ Planning
        \/ DynamicAgentSelection \/ FailureAnalysis \/ IndependentReview
        \/ SecurityAnalysis \/ RiskGate \/ GraphRecursionError \/ Done \/ UNCHANGED vars
        => UNCHANGED Seen
      BY DEF RepositoryAnalysis, ExternalContext, TaskComplexityAnalysis, Planning,
         DynamicAgentSelection, FailureAnalysis, IndependentReview, SecurityAnalysis,
         RiskGate, GraphRecursionError, Done, vars, assurance, Seen
  <2>8. QED BY <2>1, <2>2, <2>3, <2>4, <2>5, <2>6, <2>7 DEF Next, Step
<1>3. QED BY <1>1, <1>2, TypeCorrect, EndsAsPromised, PTL
          DEF Spec, ImplementsChangeControl, Control!Spec
=============================================================================
