-------------------------- MODULE InvestigationProofs --------------------------
(***************************************************************************)
(* Proofs about Investigation for every set of documents, findings and     *)
(* budgets: type correctness, the inductive invariant InvestigationInv,    *)
(* and what follows from it about a run's recommendation, its tool budget  *)
(* and its audit trail.                                                    *)
(***************************************************************************)
EXTENDS Investigation, SequenceTheorems, TLAPS

USE DEF READY_ACTION, HOLD_ACTION

-------------------------------------------------------------------------------
(* Types of the helpers *)

\* The findings a run may hold, part by part: what a node writes into f.
LEMMA FindingUpdates ==
  ASSUME NEW g \in FindingSets
  PROVE  /\ \A x \in CompletenessStatus : [g EXCEPT !.completeness = x] \in FindingSets
         /\ \A x \in [verdict : ComplianceVerdicts, material : Nat, waivable : Nat,
                      other : Nat] :
              [g EXCEPT !.compliance = x] \in FindingSets
         /\ \A x \in {"NOT_RUN", "CLEAN", "ATTENTION"} : [g EXCEPT !.dna = x] \in FindingSets
         /\ \A x \in MatchLevels : [g EXCEPT !.match = x] \in FindingSets
         /\ \A x \in PriceSignals : [g EXCEPT !.price = x] \in FindingSets
         /\ \A x \in VesselSignals : [g EXCEPT !.vessel = x] \in FindingSets
         /\ \A x \in [Parties -> EntitySignals] : [g EXCEPT !.entities = x] \in FindingSets
         /\ \A x \in [Parties -> SanctionsSignals] : [g EXCEPT !.sanctions = x] \in FindingSets
  BY DEF FindingSets

LEMMA NoFindingsType == NoFindings \in FindingSets
  BY DEF NoFindings, FindingSets, CompletenessStatus, ComplianceVerdicts, MatchLevels,
         PriceSignals, VesselSignals, EntitySignals, SanctionsSignals

LEMMA EngineResultType ==
  ASSUME NEW v \in Verdicts
  PROVE  EngineResult(v) \in [verdict : ComplianceVerdicts, material : Nat, waivable : Nat,
                              other : Nat]
  BY InvestigationAssumption DEF EngineResult, ComplianceVerdicts

LEMMA CompletenessType ==
  ASSUME NEW docs PROVE CompletenessOf(docs) \in CompletenessStatus
  BY DEF CompletenessOf, CompletenessStatus

\* A selection is called as a sequence of tools.
LEMMA OrderedType ==
  ASSUME NEW selection PROVE Ordered(selection) \in Seq(Tools)
  <1>1. \A t \in Tools : Chosen(t, selection) \in Seq(Tools)
    BY DEF Chosen
  <1>2. {"price_benchmark", "vessel_verification", "entity_verification",
         "sanctions_screening"} \subseteq Tools
    BY DEF Tools
  <1> QED
    BY <1>1, <1>2 DEF Ordered

LEMMA EvidenceType == Evidence(f, planned) \subseteq Sources
  BY DEF Evidence

LEMMA BandType == Band(Score(f)) \in Bands
  BY DEF Band, Bands

-------------------------------------------------------------------------------
(* Type correctness *)

\* The next values of the variables a call changes, and of those a failure
\* changes, are well typed.
CallTyped == calls' \in Seq(Calls) /\ audit' \in Seq(Events) /\ remaining' \in Nat

ReviewTyped ==
  /\ review' \in BOOLEAN /\ action' \in {"none", READY_ACTION, HOLD_ACTION}
  /\ stop' \in StopReasons

StoredTyped == stored' \in [compliance : ComplianceVerdicts, dna : DnaResults \union {NoDna}]

LEMMA RecordType ==
  ASSUME TypeOK, NEW tool \in Tools \union Mandatory, NEW status \in CallStatuses,
         Record(tool, status)
  PROVE  CallTyped
  <1>1. [tool |-> tool, status |-> status] \in Calls
    BY DEF Calls
  <1>2. Event("TOOL_CALLED", [tool |-> tool, status |-> status]) \in Events
    BY <1>1 DEF Event, Events
  <1>3. calls \in Seq(Calls) /\ audit \in Seq(Events) /\ remaining \in Nat
    BY DEF TypeOK
  <1>4. calls' \in Seq(Calls)
    BY <1>1, <1>3 DEF Record
  <1>5. audit' \in Seq(Events)
    BY <1>2, <1>3 DEF Record
  <1>6. remaining' \in Nat
    BY <1>3 DEF Record
  <1> QED
    BY <1>4, <1>5, <1>6 DEF CallTyped

LEMMA UnavailableType ==
  ASSUME TypeOK, NEW tool \in Tools \union Mandatory, NEW reason \in Failures,
         Unavailable(tool, reason)
  PROVE  CallTyped /\ ReviewTyped
  BY RecordType DEF Unavailable, HoldFor, CallStatuses, StopReasons, ReviewTyped

LEMMA LateWriteType ==
  ASSUME TypeOK
  PROVE  /\ LateWrite("compliance", EngineWrites) => StoredTyped
         /\ LateWrite("dna", DnaResults) => StoredTyped
  <1>1. EngineWrites \subseteq ComplianceVerdicts
    BY EngineResultType DEF EngineWrites
  <1>2. stored \in [compliance : ComplianceVerdicts, dna : DnaResults \union {NoDna}]
    BY DEF TypeOK
  <1> QED
    BY <1>1, <1>2 DEF LateWrite, StoredTyped

LEMMA ReportType ==
  ASSUME f \in FindingSets, NEW tool, Report(tool)
  PROVE  f' \in FindingSets
  <1>1. ASSUME NEW x \in [dna.named -> EntityResults]
        PROVE  [p \in Parties |-> IF p \in dna.named THEN x[p] ELSE "NOT_RUN"]
                 \in [Parties -> EntitySignals]
    BY <1>1, InvestigationAssumption DEF EntitySignals
  <1>2. ASSUME NEW x \in [dna.named -> SanctionsResults]
        PROVE  [p \in Parties |-> IF p \in dna.named THEN x[p] ELSE "UNNAMED"]
                 \in [Parties -> SanctionsSignals]
    BY <1>2, InvestigationAssumption DEF SanctionsSignals
  <1>3. CASE tool = "price_benchmark"
    <2>1. \A x \in Prices : x \in PriceSignals
      BY InvestigationAssumption
    <2> QED
      BY <1>3, <2>1, FindingUpdates DEF Report
  <1>4. CASE tool = "vessel_verification"
    <2>1. \A x \in Vessels : x \in VesselSignals
      BY InvestigationAssumption
    <2> QED
      BY <1>4, <2>1, FindingUpdates DEF Report
  <1>5. CASE tool = "entity_verification"
    BY <1>1, <1>5, FindingUpdates DEF Report
  <1>6. CASE tool = "sanctions_screening"
    BY <1>2, <1>6, FindingUpdates DEF Report
  <1> QED
    BY <1>3, <1>4, <1>5, <1>6 DEF Report

LEMMA AuditRunType ==
  ASSUME TypeOK, NEW here, NEW event \in Events, NEW next \in Nodes,
         AuditRun(here, event, next)
  PROVE  TypeOK'
  <1>1. audit' \in Seq(Events)
    <2>1. audit \in Seq(Events)
      BY DEF TypeOK
    <2> QED
      BY <2>1 DEF AuditRun
  <1>2. node' \in Nodes
    BY DEF AuditRun, Goto
  <1>3. UNCHANGED <<docVars, stateVars, storeVars>>
    BY DEF AuditRun
  <1> QED
    BY <1>1, <1>2, <1>3 DEF TypeOK, docVars, stateVars, storeVars

\* Every step keeps the types.
LEMMA TypeStep == InvestigationInv /\ [Next]_vars => TypeOK'
  <1> SUFFICES ASSUME InvestigationInv, [Next]_vars PROVE TypeOK'
    OBVIOUS
  <1> TypeOK
    BY DEF InvestigationInv
  <1> USE DEF Goto, docVars, stateVars, storeVars
  <1>1. CASE LoadCase
    <2>1. loaded' \in [Types -> AllDocStates]
      BY <1>1 DEF LoadCase, TypeOK
    <2>2. node' \in Nodes /\ stop' \in StopReasons
      BY <1>1 DEF LoadCase, TypeOK, Nodes, StopReasons
    <2>3. UNCHANGED <<docVars, dna, f, queue, planned, remaining, calls, cited, band,
                      review, action, storeVars, audit>>
      BY <1>1 DEF LoadCase
    <2> QED
      BY <2>1, <2>2, <2>3 DEF TypeOK
  <1>2. CASE CheckCompleteness
    <2>1. f' \in FindingSets
      BY <1>2, CompletenessType, FindingUpdates DEF CheckCompleteness, TypeOK
    <2>2. node' \in Nodes
      BY <1>2 DEF CheckCompleteness, Nodes
    <2>3. /\ review' \in BOOLEAN /\ action' \in {"none", READY_ACTION, HOLD_ACTION}
          /\ stop' \in StopReasons
      BY <1>2 DEF CheckCompleteness, HoldFor, TypeOK, StopReasons, Failures
    <2>4. UNCHANGED <<docVars, loaded, dna, queue, planned, remaining, calls, cited, band,
                      storeVars, audit>>
      BY <1>2 DEF CheckCompleteness
    <2> QED
      BY <2>1, <2>2, <2>3, <2>4 DEF TypeOK
  <1>3. CASE RunUcpRules
    <2>1. f' \in FindingSets
      <3>1. f \in FindingSets
        BY DEF TypeOK
      <3>2. ASSUME NEW v \in Verdicts, f' = [f EXCEPT !.compliance = EngineResult(v)]
            PROVE  f' \in FindingSets
        BY <3>1, <3>2, EngineResultType, FindingUpdates
      <3> QED
        BY <1>3, <3>1, <3>2 DEF RunUcpRules
    <2>2. StoredTyped
      <3>1. ASSUME NEW v \in Verdicts, stored' = [stored EXCEPT !.compliance = EngineResult(v).verdict]
            PROVE  StoredTyped
        BY <3>1, EngineResultType DEF TypeOK, StoredTyped
      <3> QED
        BY <1>3, <3>1, LateWriteType DEF RunUcpRules
    <2>3. CallTyped /\ ReviewTyped
      <3>1. ASSUME Record("ucp_rules", "COMPLETED"), UNCHANGED <<review, action, stop>>
            PROVE  CallTyped /\ ReviewTyped
        BY <3>1, RecordType DEF Mandatory, CallStatuses, TypeOK, ReviewTyped
      <3>2. ASSUME Unavailable("ucp_rules", "RUN_UCP_RULES_UNAVAILABLE")
            PROVE  CallTyped /\ ReviewTyped
        BY <3>2, UnavailableType DEF Mandatory, Failures
      <3> QED
        BY <1>3, <3>1, <3>2 DEF RunUcpRules
    <2>4. node' \in Nodes
      BY <1>3 DEF RunUcpRules, Nodes
    <2>5. UNCHANGED <<docVars, loaded, dna, queue, planned, cited, band, saved, caseStatus>>
      BY <1>3 DEF RunUcpRules
    <2> QED
      BY <2>1, <2>2, <2>3, <2>4, <2>5 DEF TypeOK, StoredTyped, CallTyped, ReviewTyped
  <1>4. CASE BuildTransactionDna
    <2>1. f' \in FindingSets /\ dna' \in DnaResults \union {NoDna}
      BY <1>4, FindingUpdates DEF BuildTransactionDna, TypeOK
    <2>2. StoredTyped
      <3>1. ASSUME NEW d \in DnaResults, stored' = [stored EXCEPT !.dna = d]
            PROVE  StoredTyped
        BY <3>1 DEF TypeOK, StoredTyped
      <3> QED
        BY <1>4, <3>1, LateWriteType DEF BuildTransactionDna
    <2>3. CallTyped /\ ReviewTyped
      <3>1. ASSUME Record("transaction_dna", "COMPLETED"), UNCHANGED <<review, action, stop>>
            PROVE  CallTyped /\ ReviewTyped
        BY <3>1, RecordType DEF Mandatory, CallStatuses, TypeOK, ReviewTyped
      <3>2. ASSUME Unavailable("transaction_dna", "BUILD_TRANSACTION_DNA_UNAVAILABLE")
            PROVE  CallTyped /\ ReviewTyped
        BY <3>2, UnavailableType DEF Mandatory, Failures
      <3> QED
        BY <1>4, <3>1, <3>2 DEF BuildTransactionDna
    <2>4. node' \in Nodes
      BY <1>4 DEF BuildTransactionDna, Nodes
    <2>5. UNCHANGED <<docVars, loaded, queue, planned, cited, band, saved, caseStatus>>
      BY <1>4 DEF BuildTransactionDna
    <2> QED
      BY <2>1, <2>2, <2>3, <2>4, <2>5 DEF TypeOK, StoredTyped, CallTyped, ReviewTyped
  <1>5. CASE CrossIbuCheck
    <2>1. f' \in FindingSets
      <3>1. f \in FindingSets
        BY DEF TypeOK
      <3>2. \A m \in Matches : m \in MatchLevels
        BY InvestigationAssumption
      <3> QED
        BY <1>5, <3>1, <3>2, FindingUpdates DEF CrossIbuCheck
    <2>2. CallTyped /\ ReviewTyped
      <3>1. ASSUME Record("cross_ibu_check", "COMPLETED"), UNCHANGED <<review, action, stop>>
            PROVE  CallTyped /\ ReviewTyped
        BY <3>1, RecordType DEF Mandatory, CallStatuses, TypeOK, ReviewTyped
      <3>2. ASSUME Unavailable("cross_ibu_check", "CROSS_IBU_CHECK_UNAVAILABLE")
            PROVE  CallTyped /\ ReviewTyped
        BY <3>2, UnavailableType DEF Mandatory, Failures
      <3>3. ASSUME UNCHANGED <<calls, audit, remaining, review, action, stop>>
            PROVE  CallTyped /\ ReviewTyped
        BY <3>3 DEF TypeOK, CallTyped, ReviewTyped
      <3> QED
        BY <1>5, <3>1, <3>2, <3>3 DEF CrossIbuCheck
    <2>3. node' \in Nodes
      BY <1>5 DEF CrossIbuCheck, Nodes
    <2>4. UNCHANGED <<docVars, loaded, dna, queue, planned, cited, band, storeVars>>
      BY <1>5 DEF CrossIbuCheck
    <2> QED
      BY <2>1, <2>2, <2>3, <2>4 DEF TypeOK, CallTyped, ReviewTyped
  <1>6. CASE FraudTriage
    BY <1>6, OrderedType DEF FraudTriage, TypeOK, Nodes
  <1>7. CASE CallTool
    <2>1. Head(queue) \in Tools /\ queue' \in Seq(Tools)
      <3>1. queue \in Seq(Tools)
        BY DEF TypeOK
      <3> QED
        BY <1>7, <3>1 DEF CallTool
    <2>2. f' \in FindingSets
      BY <1>7, ReportType DEF CallTool, TypeOK
    <2>3. CallTyped
      BY <1>7, <2>1, RecordType DEF CallTool, CallStatuses
    <2>4. UNCHANGED <<docVars, node, loaded, dna, planned, cited, band, review, action,
                      stop, storeVars>>
      BY <1>7 DEF CallTool
    <2> QED
      BY <2>1, <2>2, <2>3, <2>4 DEF TypeOK, CallTyped
  <1>8. CASE EndToolCalls
    <2>1. node' \in Nodes
      BY <1>8 DEF EndToolCalls, Nodes
    <2>2. /\ review' \in BOOLEAN /\ action' \in {"none", READY_ACTION, HOLD_ACTION}
          /\ stop' \in StopReasons
      BY <1>8 DEF EndToolCalls, HoldFor, TypeOK, StopReasons, Failures
    <2>3. UNCHANGED <<docVars, loaded, dna, f, queue, planned, remaining, calls, cited,
                      band, storeVars, audit>>
      BY <1>8 DEF EndToolCalls
    <2> QED
      BY <2>1, <2>2, <2>3 DEF TypeOK
  <1>9. CASE AggregateEvidence
    BY <1>9, EvidenceType DEF AggregateEvidence, TypeOK, Nodes
  <1>10. CASE RiskAssessment
    BY <1>10, BandType DEF RiskAssessment, HoldFor, TypeOK, Nodes, StopReasons
  <1>11. CASE HumanReviewGate
    BY <1>11 DEF HumanReviewGate, TypeOK, Nodes
  <1>12. CASE SettlementReadiness
    BY <1>12 DEF SettlementReadiness, TypeOK, Nodes, StopReasons
  <1>13. CASE Save
    BY <1>13 DEF Save, TypeOK, Nodes
  <1>14. CASE AuditDecision
    <2>1. Event("AGENT_DECISION", stop) \in Events
      BY DEF TypeOK, Event, Events
    <2>2. (IF band # "NONE" THEN "audit_risk" ELSE AfterRisk) \in Nodes
      BY DEF AfterRisk, Nodes
    <2> QED
      BY <1>14, <2>1, <2>2, AuditRunType DEF AuditDecision
  <1>15. CASE AuditRisk
    <2>1. Event("RISK_SCORED", band) \in Events
      BY <1>15 DEF AuditRisk, AuditRun, InvestigationInv, OutcomeInv, TypeOK, Event, Events
    <2>2. AfterRisk \in Nodes
      BY DEF AfterRisk, Nodes
    <2> QED
      BY <1>15, <2>1, <2>2, AuditRunType DEF AuditRisk
  <1>16. CASE AuditReview
    <2>1. Event("HUMAN_REVIEW_REQUIRED", stop) \in Events
      BY DEF TypeOK, Event, Events
    <2> QED
      BY <1>16, <2>1, AuditRunType DEF AuditReview, Nodes
  <1>17. CASE Abort
    <2>1. StoredTyped
      BY <1>17, LateWriteType DEF Abort, TypeOK, StoredTyped
    <2>2. node' \in Nodes
      BY <1>17 DEF Abort, Nodes
    <2>3. UNCHANGED <<docVars, stateVars, saved, caseStatus, audit>>
      BY <1>17 DEF Abort
    <2> QED
      BY <2>1, <2>2, <2>3 DEF TypeOK, StoredTyped
  <1>18. ASSUME NEW t \in Types, ChangeDocument(t) PROVE TypeOK'
    <2>1. repo' \in [Types -> AllDocStates]
      BY <1>18, InvestigationAssumption DEF ChangeDocument, TypeOK
    <2>2. docChanges' \in 0..MaxDocChanges
      <3>1. docChanges \in 0..MaxDocChanges /\ MaxDocChanges \in Nat
        BY InvestigationAssumption DEF TypeOK
      <3> QED
        BY <1>18, <3>1 DEF ChangeDocument
    <2>3. UNCHANGED <<lc, budget, node, stateVars, storeVars, audit>>
      BY <1>18 DEF ChangeDocument
    <2> QED
      BY <2>1, <2>2, <2>3 DEF TypeOK
  <1>19. CASE UNCHANGED vars
    BY <1>19 DEF vars, TypeOK
  <1> QED
    BY <1>1, <1>2, <1>3, <1>4, <1>5, <1>6, <1>7, <1>8, <1>9, <1>10, <1>11, <1>12, <1>13,
       <1>14, <1>15, <1>16, <1>17, <1>18, <1>19 DEF Next, Step

-------------------------------------------------------------------------------
(* The tool budget and the audit of the calls *)

CallNodes == {"run_ucp_rules", "build_transaction_dna", "cross_ibu_check",
              "conditional_tool_calls"}

\* A step of the run records one call, refused exactly when the budget is used
\* up, or leaves the calls and the budget alone and writes at most an event
\* about the run.
LEMMA CallOrNot ==
  ASSUME TypeOK, [Next]_vars
  PROVE  \/ /\ \E tool \in Tools \union Mandatory, status \in CallStatuses :
                 Record(tool, status) /\ (status = "BUDGET_EXHAUSTED" <=> Exhausted)
            /\ node \in CallNodes
            /\ UNCHANGED <<budget, saved>>
         \/ /\ UNCHANGED <<calls, remaining, budget>>
            /\ \/ UNCHANGED audit /\ (saved => saved')
               \/ /\ node \in {"audit_decision", "audit_risk", "audit_review"}
                  /\ \E e : audit' = Append(audit, e)
                  /\ UNCHANGED saved
  <1> DEFINE Call(tool, status) ==
               Record(tool, status) /\ (status = "BUDGET_EXHAUSTED" <=> Exhausted)
             Logged == /\ \E tool \in Tools \union Mandatory, status \in CallStatuses :
                             Call(tool, status)
                       /\ node \in CallNodes
                       /\ UNCHANGED <<budget, saved>>
             NotCalled == /\ UNCHANGED <<calls, remaining, budget>>
                          /\ \/ UNCHANGED audit /\ (saved => saved')
                             \/ /\ node \in {"audit_decision", "audit_risk", "audit_review"}
                                /\ \E e : audit' = Append(audit, e)
                                /\ UNCHANGED saved
  <1> SUFFICES Logged \/ NotCalled
    OBVIOUS
  <1> USE DEF docVars, stateVars, storeVars
  <1>a. ASSUME NEW tool \in Mandatory, NEW reason, Unavailable(tool, reason)
        PROVE  \E status \in CallStatuses : Call(tool, status)
    BY <1>a DEF Unavailable, CallStatuses
  <1>b. ASSUME NEW tool \in Tools \union Mandatory, ~Exhausted,
               NEW status \in {"COMPLETED", "DATA_UNAVAILABLE"}, Record(tool, status)
        PROVE  Call(tool, status)
    BY <1>b
  <1>1. CASE RunUcpRules
    BY <1>1, <1>a, <1>b DEF RunUcpRules, Mandatory, CallNodes, CallStatuses
  <1>2. CASE BuildTransactionDna
    BY <1>2, <1>a, <1>b DEF BuildTransactionDna, Mandatory, CallNodes, CallStatuses
  <1>3. CASE CrossIbuCheck
    BY <1>3, <1>a, <1>b DEF CrossIbuCheck, Mandatory, CallNodes, CallStatuses
  <1>4. CASE CallTool
    <2>1. Head(queue) \in Tools
      <3>1. queue \in Seq(Tools)
        BY DEF TypeOK
      <3> QED
        BY <1>4, <3>1 DEF CallTool
    <2> QED
      BY <1>4, <2>1, <1>b DEF CallTool, CallNodes, CallStatuses
  <1>5. CASE AuditDecision \/ AuditRisk \/ AuditReview
    BY <1>5 DEF AuditDecision, AuditRisk, AuditReview, AuditRun
  <1>6. CASE LoadCase \/ CheckCompleteness \/ FraudTriage \/ EndToolCalls
    BY <1>6 DEF LoadCase, CheckCompleteness, FraudTriage, EndToolCalls
  <1>7. CASE AggregateEvidence \/ RiskAssessment \/ HumanReviewGate \/ SettlementReadiness
    BY <1>7 DEF AggregateEvidence, RiskAssessment, HumanReviewGate, SettlementReadiness
  <1>8. CASE Save \/ Abort
    BY <1>8 DEF Save, Abort
  <1>9. ASSUME NEW t \in Types, ChangeDocument(t) PROVE NotCalled
    BY <1>9 DEF ChangeDocument
  <1>10. CASE UNCHANGED vars
    BY <1>10 DEF vars
  <1> QED
    BY <1>1, <1>2, <1>3, <1>4, <1>5, <1>6, <1>7, <1>8, <1>9, <1>10 DEF Next, Step

LEMMA BudgetStep == InvestigationInv /\ [Next]_vars => BudgetAccounted'
  <1> SUFFICES ASSUME InvestigationInv, [Next]_vars PROVE BudgetAccounted'
    OBVIOUS
  <1>1. TypeOK /\ BudgetAccounted
    BY DEF InvestigationInv
  <1>2. budget \in Nat /\ calls \in Seq(Calls) /\ remaining \in Nat
    <2>1. budget \in Budgets /\ calls \in Seq(Calls) /\ remaining \in Nat
      BY <1>1 DEF TypeOK
    <2>2. Budgets \subseteq Nat
      BY InvestigationAssumption
    <2> QED
      BY <2>1, <2>2
  <1>3. CASE UNCHANGED <<calls, remaining, budget>>
    BY <1>1, <1>3 DEF BudgetAccounted
  <1>4. ASSUME NEW tool \in Tools \union Mandatory, NEW status \in CallStatuses,
               Record(tool, status), status = "BUDGET_EXHAUSTED" <=> Exhausted,
               UNCHANGED budget
        PROVE  BudgetAccounted'
    <2>1. [tool |-> tool, status |-> status] \in Calls
      BY DEF Calls
    <2>2. /\ Len(calls') = Len(calls) + 1
          /\ \A i \in 1..Len(calls) : calls'[i] = calls[i]
          /\ calls'[Len(calls) + 1].status = status
          /\ DOMAIN calls' = 1..(Len(calls) + 1) /\ DOMAIN calls = 1..Len(calls)
      BY <1>2, <1>4, <2>1 DEF Record
    <2>3. remaining' = IF Len(calls') < budget' THEN budget' - Len(calls') ELSE 0
      BY <1>1, <1>2, <1>4, <2>2 DEF Record, BudgetAccounted
    <2>4. Exhausted <=> Len(calls) + 1 > budget
      BY <1>1, <1>2 DEF Exhausted, BudgetAccounted
    <2>5. \A i \in DOMAIN calls' : calls'[i].status = "BUDGET_EXHAUSTED" <=> i > budget'
      BY <1>1, <1>2, <1>4, <2>2, <2>4 DEF BudgetAccounted
    <2> QED
      BY <2>3, <2>5 DEF BudgetAccounted
  <1> QED
    BY <1>1, <1>3, <1>4, CallOrNot

LEMMA CallsAuditedStep == InvestigationInv /\ [Next]_vars => CallsAudited'
  <1> SUFFICES ASSUME InvestigationInv, [Next]_vars PROVE CallsAudited'
    OBVIOUS
  <1>1. TypeOK /\ CallsAudited /\ OutcomeInv
    BY DEF InvestigationInv
  <1>2. calls \in Seq(Calls) /\ audit \in Seq(Events)
    BY <1>1 DEF TypeOK
  <1>3. ASSUME NEW tool \in Tools \union Mandatory, NEW status \in CallStatuses,
               Record(tool, status), node \in CallNodes, UNCHANGED saved
        PROVE  CallsAudited'
    <2>1. ~saved
      BY <1>1, <1>3 DEF OutcomeInv, CallNodes, AfterReview
    <2>2. Len(audit) = Len(calls)
      BY <1>1, <2>1 DEF CallsAudited
    <2> DEFINE call == [tool |-> tool, status |-> status]
    <2>3. call \in Calls
      BY DEF Calls
    <2>4. Event("TOOL_CALLED", call) \in Events
      BY <2>3 DEF Event, Events
    <2>5. calls' = Append(calls, call) /\ audit' = Append(audit, Event("TOOL_CALLED", call))
      BY <1>3 DEF Record
    <2> HIDE DEF call
    <2>6. /\ Len(calls') = Len(calls) + 1 /\ DOMAIN calls' = 1..(Len(calls) + 1)
          /\ \A i \in 1..Len(calls) : calls'[i] = calls[i]
          /\ calls'[Len(calls) + 1] = call
      BY <1>2, <2>3, <2>5
    <2>7. /\ Len(audit') = Len(audit) + 1
          /\ \A i \in 1..Len(audit) : audit'[i] = audit[i]
          /\ audit'[Len(audit) + 1] = Event("TOOL_CALLED", call)
      BY <1>2, <2>4, <2>5
    <2>8. \A i \in 1..Len(calls) : audit[i] = Event("TOOL_CALLED", calls[i])
      BY <1>1, <1>2 DEF CallsAudited
    <2>9. ASSUME NEW i \in DOMAIN calls' PROVE audit'[i] = Event("TOOL_CALLED", calls'[i])
      <3>1. CASE i = Len(calls) + 1
        BY <3>1, <2>2, <2>6, <2>7
      <3>2. CASE i \in 1..Len(calls)
        BY <3>2, <2>2, <2>6, <2>7, <2>8
      <3> QED
        BY <1>2, <2>6, <3>1, <3>2
    <2> QED
      BY <1>2, <2>2, <2>6, <2>7, <2>9 DEF CallsAudited
  <1>4. ASSUME UNCHANGED <<calls, audit>>, saved => saved'
        PROVE  CallsAudited'
    BY <1>1, <1>4 DEF CallsAudited
  <1>5. ASSUME UNCHANGED <<calls, saved>>, NEW e, audit' = Append(audit, e),
               node \in {"audit_decision", "audit_risk", "audit_review"}
        PROVE  CallsAudited'
    <2>1. saved
      BY <1>1, <1>5 DEF OutcomeInv, AfterReview
    <2>2. audit \in Seq(Events \union {e})
      BY <1>2
    <2>3. Len(audit') = Len(audit) + 1 /\ \A i \in 1..Len(audit) : audit'[i] = audit[i]
      BY <1>2, <1>5, <2>2
    <2> QED
      BY <1>1, <1>2, <1>5, <2>1, <2>3 DEF CallsAudited
  <1> QED
    BY <1>1, <1>3, <1>4, <1>5, CallOrNot

-------------------------------------------------------------------------------
(* The checks a run has passed *)

\* No check takes points off.
LEMMA PointsType ==
  /\ \A m : MatchPoints(m) \in Nat
  /\ \A n \in Nat : MaterialPoints(n) \in Nat
  /\ \A x : PricePoints(x) \in Nat
  /\ \A x : PartyPoints(x) \in Nat
  BY DEF MatchPoints, MaterialPoints, PricePoints, PartyPoints

\* The worse of two reports weighs at least as much and triggers if the other does.
LEMMA RanksWeigh ==
  /\ \A m, n \in MatchLevels : MatchRank(m) <= MatchRank(n) =>
       /\ MatchPoints(m) <= MatchPoints(n)
       /\ m \in {"EXACT", "NEAR_LIKELY", "NEAR_POSSIBLE"} =>
            n \in {"EXACT", "NEAR_LIKELY", "NEAR_POSSIBLE"}
  /\ \A p, q \in PriceSignals : PriceRank(p) <= PriceRank(q) =>
       /\ PricePoints(p) <= PricePoints(q)
       /\ p \notin {"NOT_RUN", "NORMAL"} => q \notin {"NOT_RUN", "NORMAL"}
  /\ \A s, t \in SanctionsSignals : SanctionsRank(s) <= SanctionsRank(t) =>
       /\ PartyPoints(s) <= PartyPoints(t)
       /\ s \notin {"NOT_RUN", "UNNAMED", "NO_MATCH"} => t \notin {"NOT_RUN", "UNNAMED", "NO_MATCH"}
  /\ \A k, l \in Nat : k <= l => MaterialPoints(k) <= MaterialPoints(l)
  <1> USE DEF Rank
  <1>1. \A m, n \in MatchLevels : MatchRank(m) <= MatchRank(n) =>
          /\ MatchPoints(m) <= MatchPoints(n)
          /\ m \in {"EXACT", "NEAR_LIKELY", "NEAR_POSSIBLE"} =>
               n \in {"EXACT", "NEAR_LIKELY", "NEAR_POSSIBLE"}
    BY DEF MatchLevels, MatchRank, MatchPoints
  <1>2. \A p, q \in PriceSignals : PriceRank(p) <= PriceRank(q) =>
          /\ PricePoints(p) <= PricePoints(q)
          /\ p \notin {"NOT_RUN", "NORMAL"} => q \notin {"NOT_RUN", "NORMAL"}
    BY DEF PriceSignals, PriceRank, PricePoints
  <1>3. \A s, t \in SanctionsSignals : SanctionsRank(s) <= SanctionsRank(t) =>
          /\ PartyPoints(s) <= PartyPoints(t)
          /\ s \notin {"NOT_RUN", "UNNAMED", "NO_MATCH"} =>
               t \notin {"NOT_RUN", "UNNAMED", "NO_MATCH"}
    BY DEF SanctionsSignals, SanctionsRank, PartyPoints
  <1>4. \A k, l \in Nat : k <= l => MaterialPoints(k) <= MaterialPoints(l)
    BY DEF MaterialPoints
  <1> QED
    BY <1>1, <1>2, <1>3, <1>4

\* A finding set without a trigger, after a complete run, is unsuspicious: the
\* points of what raises none of the triggers stay below the HIGH band.
LEMMA NoTriggerIsUnsuspicious ==
  ASSUME TypeOK, ~Triggered(f), f.dna # "NOT_RUN"
  PROVE  Unsuspicious
  <1>1. f \in FindingSets
    BY DEF TypeOK
  <1>2. /\ f.compliance.material \in Nat /\ f.compliance.waivable \in Nat
        /\ f.dna \in {"NOT_RUN", "CLEAN", "ATTENTION"}
        /\ f.match \in MatchLevels
        /\ \A p \in Parties : f.sanctions[p] \in SanctionsSignals
    BY <1>1 DEF FindingSets
  <1>3. Score(f) <= 69
    <2>1. Score(f) \in Int
      BY <1>2, PointsType DEF Score, Parties
    <2> QED
      BY <2>1 DEF Triggered, Band
  <1>4. f.compliance.material = 0
    BY <1>2 DEF Triggered
  <1>5. f.compliance.waivable <= 6
    BY <1>2, <1>3, PointsType DEF Score, Parties
  <1>6. f.dna = "CLEAN" /\ f.match \in {"NOT_RUN", "CONTEXTUAL", "NONE"}
    BY <1>2 DEF Triggered, MatchLevels
  <1>7. /\ f.price \in {"NOT_RUN", "NORMAL"} /\ f.vessel # "ANOMALY"
        /\ \A p \in Parties : f.sanctions[p] \in {"NOT_RUN", "UNNAMED", "NO_MATCH"}
    BY DEF Triggered, ExternalSignal
  <1> QED
    BY <1>4, <1>5, <1>6, <1>7 DEF Unsuspicious

\* The recommendation, the need of a review and the node agree after each step.
LEMMA GateStep == InvestigationInv /\ [Next]_vars => GateInv'
  <1> SUFFICES ASSUME InvestigationInv, [Next]_vars PROVE GateInv'
    OBVIOUS
  <1> TypeOK /\ GateInv /\ PassedInv /\ BandInv
    BY DEF InvestigationInv
  <1> USE DEF HoldFor, Goto, docVars, stateVars, storeVars
  <1>a. ASSUME node' \in Nodes \ {"load_case", "check_completeness", "settlement_readiness"},
               node \notin AfterReview \/ node' \in AfterReview,
               UNCHANGED <<review, action>> \/ (review' = TRUE /\ action' = HOLD_ACTION)
        PROVE  GateInv'
    <2>1. CASE UNCHANGED <<review, action>>
      BY <1>a, <2>1 DEF GateInv, AfterReview
    <2>2. CASE review' = TRUE /\ action' = HOLD_ACTION
      BY <1>a, <2>2 DEF GateInv
    <2> QED
      BY <1>a, <2>1, <2>2
  <1> DEFINE Kept == UNCHANGED <<review, action>> \/ (review' = TRUE /\ action' = HOLD_ACTION)
  <1>1. CASE LoadCase
    BY <1>1 DEF LoadCase, GateInv, AfterReview
  <1>2. CASE CheckCompleteness
    BY <1>2 DEF CheckCompleteness, TypeOK, GateInv, AfterReview
  <1>3. CASE RunUcpRules
    <2>1. Kept
      BY <1>3 DEF RunUcpRules, Unavailable
    <2>2. node = "run_ucp_rules" /\ node' = "build_transaction_dna"
      BY <1>3 DEF RunUcpRules
    <2> QED
      BY <1>a, <2>1, <2>2 DEF Nodes, AfterReview
  <1>4. CASE BuildTransactionDna
    <2>1. Kept
      BY <1>4 DEF BuildTransactionDna, Unavailable
    <2>2. node = "build_transaction_dna" /\ node' = "cross_ibu_check"
      BY <1>4 DEF BuildTransactionDna
    <2> QED
      BY <1>a, <2>1, <2>2 DEF Nodes, AfterReview
  <1>5. CASE CrossIbuCheck
    <2>1. Kept
      BY <1>5 DEF CrossIbuCheck, Unavailable
    <2>2. node = "cross_ibu_check" /\ node' = "fraud_triage"
      BY <1>5 DEF CrossIbuCheck
    <2> QED
      BY <1>a, <2>1, <2>2 DEF Nodes, AfterReview
  <1>6. CASE FraudTriage \/ CallTool \/ EndToolCalls
    <2>1. Kept
      BY <1>6 DEF FraudTriage, CallTool, EndToolCalls
    <2>2. /\ node \in {"fraud_triage", "conditional_tool_calls"}
          /\ node' \in {"conditional_tool_calls", "aggregate_evidence"}
      BY <1>6 DEF FraudTriage, CallTool, EndToolCalls
    <2> QED
      BY <1>a, <2>1, <2>2 DEF Nodes, AfterReview
  <1>7. CASE AggregateEvidence \/ RiskAssessment
    <2>1. Kept
      BY <1>7 DEF AggregateEvidence, RiskAssessment
    <2>2. /\ node \in {"aggregate_evidence", "risk_assessment"}
          /\ node' \in {"risk_assessment", "human_review_gate"}
      BY <1>7 DEF AggregateEvidence, RiskAssessment
    <2> QED
      BY <1>a, <2>1, <2>2 DEF Nodes, AfterReview
  <1>8a. CASE HumanReviewGate
    <2>1. node = "human_review_gate" /\ UNCHANGED <<review, action>>
      BY <1>8a DEF HumanReviewGate
    <2>2. node' = IF review THEN "save" ELSE "settlement_readiness"
      BY <1>8a DEF HumanReviewGate
    <2> QED
      BY <2>1, <2>2 DEF GateInv, AfterReview
  <1>8b. CASE SettlementReadiness
    <2>1. /\ node = "settlement_readiness" /\ node' = "save"
          /\ action' = READY_ACTION /\ UNCHANGED review
      BY <1>8b DEF SettlementReadiness
    <2> QED
      BY <2>1 DEF GateInv, AfterReview
  <1>9. CASE Save \/ Abort
    <2>1. UNCHANGED <<review, action>>
      BY <1>9 DEF Save, Abort
    <2>2. node' \in {"audit_decision", "dead"}
      BY <1>9 DEF Save, Abort
    <2> QED
      BY <1>a, <2>1, <2>2 DEF Nodes, AfterReview
  <1>10. CASE AuditDecision \/ AuditRisk \/ AuditReview
    <2>1. UNCHANGED <<review, action>>
      BY <1>10 DEF AuditDecision, AuditRisk, AuditReview, AuditRun
    <2>2. node' \in {"audit_risk", "audit_review", "done"}
      BY <1>10 DEF AuditDecision, AuditRisk, AuditReview, AuditRun, AfterRisk
    <2> QED
      BY <1>a, <2>1, <2>2 DEF Nodes, AfterReview
  <1>11. ASSUME NEW t \in Types, ChangeDocument(t) PROVE GateInv'
    BY <1>11 DEF ChangeDocument, GateInv
  <1>12. CASE UNCHANGED vars
    BY <1>12 DEF vars, GateInv
  <1> QED
    BY <1>1, <1>2, <1>3, <1>4, <1>5, <1>6, <1>7, <1>8a, <1>8b, <1>9, <1>10, <1>11,
       <1>12
    DEF Next, Step

\* A tool reports on its own subject only.
LEMMA ReportKeeps ==
  ASSUME f \in FindingSets, NEW tool, Report(tool)
  PROVE  UNCHANGED <<f.completeness, f.compliance, f.dna, f.match>>
  BY DEF Report, FindingSets

\* Going on with the same data, or ending the run, keeps what was passed.
LEMMA PassedKept ==
  ASSUME PassedInv, UNCHANGED <<lc, loaded, dna, f, review, queue>>,
         node' = node \/ node' \in AfterReview
  PROVE  PassedInv'
  <1> USE DEF PassedInv, Required, HasBl
  <1>1. CASE node' = node
    BY <1>1 DEF AfterCompleteness, AfterRules, AfterDna, AfterMatch, AfterTools,
                AfterRiskScored
  <1>2. CASE node' \in AfterReview
    BY <1>2 DEF AfterCompleteness, AfterRules, AfterDna, AfterMatch, AfterTools,
                AfterRiskScored, AfterReview
  <1> QED
    BY <1>1, <1>2

\* A run not under review has passed the checks before its next node, too.
LEMMA PassedStep == InvestigationInv /\ [Next]_vars => PassedInv'
  <1> SUFFICES ASSUME InvestigationInv, [Next]_vars, ~review' PROVE PassedInv'
    BY DEF PassedInv
  <1> TypeOK /\ GateInv /\ PassedInv
    BY DEF InvestigationInv
  <1>f. f \in FindingSets
    BY DEF TypeOK
  <1> USE DEF Goto
  <1>1. CASE LoadCase
    <2>1. node' \in {"save", "check_completeness"}
      BY <1>1 DEF LoadCase
    <2> QED
      BY <2>1 DEF PassedInv, AfterCompleteness, AfterRules, AfterDna, AfterMatch,
                  AfterTools, AfterRiskScored
  <1>2. CASE CheckCompleteness
    <2>1. node' = "run_ucp_rules" /\ CompletenessOf(loaded) = "COMPLETE"
          /\ UNCHANGED <<lc, loaded>>
      BY <1>2 DEF CheckCompleteness, HoldFor, docVars
    <2>2. (\A t \in Required : loaded[t] \in {"PARTIAL", "EXTRACTED"})'
      BY <2>1 DEF CompletenessOf, Completed, Required
    <2> QED
      BY <2>1, <2>2 DEF PassedInv, AfterCompleteness, AfterRules, AfterDna, AfterMatch,
                        AfterTools, AfterRiskScored
  <1>3. CASE RunUcpRules
    <2>1. /\ node = "run_ucp_rules" /\ node' = "build_transaction_dna"
          /\ UNCHANGED <<lc, loaded, dna, queue>>
      BY <1>3 DEF RunUcpRules, docVars
    <2>2. PICK v \in Verdicts : f' = [f EXCEPT !.compliance = EngineResult(v)]
                               /\ UNCHANGED review
      BY <1>3 DEF RunUcpRules, Unavailable, HoldFor
    <2>3. EngineResult(v).verdict # "NOT_RUN"
      BY DEF EngineResult
    <2>4. f'.compliance.verdict # "NOT_RUN"
      BY <1>f, <2>2, <2>3 DEF FindingSets
    <2> QED
      BY <2>1, <2>2, <2>4
      DEF PassedInv, Required, AfterCompleteness, AfterRules, AfterDna, AfterMatch,
          AfterTools, AfterRiskScored
  <1>4. CASE BuildTransactionDna
    <2>1. /\ node = "build_transaction_dna" /\ node' = "cross_ibu_check"
          /\ UNCHANGED <<lc, loaded, queue>>
      BY <1>4 DEF BuildTransactionDna, docVars
    <2>2. PICK d \in DnaResults :
            /\ dna' = d
            /\ f' = [f EXCEPT !.dna = IF d.attention THEN "ATTENTION" ELSE "CLEAN"]
            /\ UNCHANGED review
      BY <1>4 DEF BuildTransactionDna, Unavailable, HoldFor
    <2>3. f'.dna # "NOT_RUN" /\ f'.compliance = f.compliance
      BY <1>f, <2>2 DEF FindingSets
    <2>4. dna' # NoDna
      BY <2>2, InvestigationAssumption
    <2> QED
      BY <2>1, <2>2, <2>3, <2>4
      DEF PassedInv, Required, AfterCompleteness, AfterRules, AfterDna, AfterMatch,
          AfterTools, AfterRiskScored
  <1>5. CASE CrossIbuCheck
    <2>1. /\ node = "cross_ibu_check" /\ node' = "fraud_triage"
          /\ UNCHANGED <<lc, loaded, dna, queue>>
      BY <1>5 DEF CrossIbuCheck, docVars
    <2>2. UNCHANGED review /\ f'.compliance = f.compliance /\ f'.dna = f.dna
      BY <1>5, <1>f DEF CrossIbuCheck, Unavailable, HoldFor, FindingSets
    <2>3. HasBl => f'.match # "NOT_RUN"
      <3>1. ASSUME NEW m \in Matches, f' = [f EXCEPT !.match = m] PROVE f'.match # "NOT_RUN"
        BY <1>f, <3>1, InvestigationAssumption DEF FindingSets
      <3> QED
        BY <1>5, <3>1 DEF CrossIbuCheck, Unavailable, HoldFor
    <2> QED
      BY <2>1, <2>2, <2>3
      DEF PassedInv, Required, HasBl, AfterCompleteness, AfterRules, AfterDna, AfterMatch,
          AfterTools, AfterRiskScored
  <1>6. CASE FraudTriage
    <2>1. /\ node = "fraud_triage" /\ node' = "conditional_tool_calls"
          /\ UNCHANGED <<lc, loaded, dna, f, review>>
      BY <1>6 DEF FraudTriage, docVars
    <2> QED
      BY <2>1
      DEF PassedInv, Required, HasBl, AfterCompleteness, AfterRules, AfterDna, AfterMatch,
          AfterTools, AfterRiskScored
  <1>7. CASE CallTool
    <2>1. node = "conditional_tool_calls" /\ UNCHANGED <<node, lc, loaded, dna, review>>
      BY <1>7 DEF CallTool, docVars
    <2>2. UNCHANGED <<f.compliance, f.dna, f.match>>
      BY <1>7, <1>f, ReportKeeps DEF CallTool
    <2> QED
      BY <2>1, <2>2
      DEF PassedInv, Required, HasBl, AfterCompleteness, AfterRules, AfterDna, AfterMatch,
          AfterTools, AfterRiskScored
  <1>8. CASE EndToolCalls
    <2>1. /\ node = "conditional_tool_calls" /\ node' = "aggregate_evidence"
          /\ UNCHANGED <<lc, loaded, dna, f, queue>>
      BY <1>8 DEF EndToolCalls, docVars
    <2>2. UNCHANGED review /\ (dna = NoDna \/ queue = <<>>)
      BY <1>8 DEF EndToolCalls, HoldFor
    <2> QED
      BY <2>1, <2>2
      DEF PassedInv, Required, HasBl, AfterCompleteness, AfterRules, AfterDna, AfterMatch,
          AfterTools, AfterRiskScored
  <1>9. CASE AggregateEvidence
    <2>1. /\ node = "aggregate_evidence" /\ node' = "risk_assessment"
          /\ UNCHANGED <<lc, loaded, dna, f, queue, review>>
      BY <1>9 DEF AggregateEvidence, docVars
    <2> QED
      BY <2>1
      DEF PassedInv, Required, HasBl, AfterCompleteness, AfterRules, AfterDna, AfterMatch,
          AfterTools, AfterRiskScored
  <1>10. CASE RiskAssessment
    <2>1. /\ node = "risk_assessment" /\ node' = "human_review_gate"
          /\ UNCHANGED <<lc, loaded, dna, f, queue>>
      BY <1>10 DEF RiskAssessment, docVars
    <2>2. UNCHANGED review /\ ~Triggered(f)
      BY <1>10 DEF RiskAssessment, HoldFor
    <2> QED
      BY <2>1, <2>2
      DEF PassedInv, Required, HasBl, AfterCompleteness, AfterRules, AfterDna, AfterMatch,
          AfterTools, AfterRiskScored
  <1>11. CASE HumanReviewGate
    <2>1. /\ node = "human_review_gate" /\ node' = "settlement_readiness"
          /\ UNCHANGED <<lc, loaded, dna, f, queue, review>>
      BY <1>11 DEF HumanReviewGate, docVars, stateVars
    <2> QED
      BY <2>1
      DEF PassedInv, Required, HasBl, AfterCompleteness, AfterRules, AfterDna, AfterMatch,
          AfterTools, AfterRiskScored
  <1>12. CASE SettlementReadiness \/ Save \/ Abort
    <2>1. node' \in AfterReview
      BY <1>12 DEF SettlementReadiness, Save, Abort, AfterReview
    <2>2. UNCHANGED <<lc, loaded, dna, f, review, queue>>
      BY <1>12 DEF SettlementReadiness, Save, Abort, docVars, stateVars
    <2> QED
      BY <2>1, <2>2, PassedKept
  <1>13. CASE AuditDecision \/ AuditRisk \/ AuditReview
    <2>1. node' \in AfterReview
      BY <1>13 DEF AuditDecision, AuditRisk, AuditReview, AuditRun, AfterRisk, AfterReview
    <2>2. UNCHANGED <<lc, loaded, dna, f, review, queue>>
      BY <1>13 DEF AuditDecision, AuditRisk, AuditReview, AuditRun, docVars, stateVars
    <2> QED
      BY <2>1, <2>2, PassedKept
  <1>14. ASSUME NEW t \in Types, ChangeDocument(t) PROVE PassedInv'
    <2>1. UNCHANGED <<lc, loaded, dna, f, review, queue, node>>
      BY <1>14 DEF ChangeDocument, stateVars
    <2> QED
      BY <2>1, PassedKept
  <1>15. CASE UNCHANGED vars
    BY <1>15, PassedKept DEF vars
  <1> QED
    BY <1>1, <1>2, <1>3, <1>4, <1>5, <1>6, <1>7, <1>8, <1>9, <1>10, <1>11, <1>12, <1>13,
       <1>14, <1>15 DEF Next, Step

-------------------------------------------------------------------------------
(* The recommendation and its reasons *)

\* Once the gate is passed, no step changes the graph state any more.
LEMMA GraphStateSettled ==
  ASSUME node \in AfterReview, [Next]_vars
  PROVE  UNCHANGED <<lc, stateVars>> /\ node' \in AfterReview
  <1> USE DEF AfterReview
  <1>1. CASE Save \/ Abort
    BY <1>1 DEF Save, Abort, Goto, docVars
  <1>2. CASE AuditDecision \/ AuditRisk \/ AuditReview
    BY <1>2 DEF AuditDecision, AuditRisk, AuditReview, AuditRun, AfterRisk, Goto, docVars
  <1>3. ASSUME NEW t \in Types, ChangeDocument(t)
        PROVE  UNCHANGED <<lc, node, stateVars>>
    BY <1>3 DEF ChangeDocument
  <1>4. CASE UNCHANGED vars
    BY <1>4 DEF vars, stateVars
  <1>5. /\ ~LoadCase /\ ~CheckCompleteness /\ ~RunUcpRules /\ ~BuildTransactionDna
        /\ ~CrossIbuCheck /\ ~FraudTriage /\ ~CallTool /\ ~EndToolCalls
        /\ ~AggregateEvidence /\ ~RiskAssessment /\ ~HumanReviewGate
        /\ ~SettlementReadiness
    BY DEF LoadCase, CheckCompleteness, RunUcpRules, BuildTransactionDna, CrossIbuCheck,
           FraudTriage, CallTool, EndToolCalls, AggregateEvidence, RiskAssessment,
           HumanReviewGate, SettlementReadiness
  <1> QED
    BY <1>1, <1>2, <1>3, <1>4, <1>5 DEF Next, Step

\* Before that, only SettlementReadiness recommends readiness.
LEMMA OnlyReadinessRecommends ==
  ASSUME GateInv, [Next]_vars, action' = READY_ACTION, node \notin AfterReview
  PROVE  SettlementReadiness
  <1>1. action # READY_ACTION
    BY DEF GateInv
  <1> USE DEF docVars, stateVars, storeVars, HoldFor
  <1>2. ~LoadCase /\ ~CheckCompleteness /\ ~RunUcpRules /\ ~BuildTransactionDna
    BY <1>1 DEF LoadCase, CheckCompleteness, RunUcpRules, BuildTransactionDna, Unavailable
  <1>3. ~CrossIbuCheck /\ ~FraudTriage /\ ~CallTool /\ ~EndToolCalls
    BY <1>1 DEF CrossIbuCheck, FraudTriage, CallTool, EndToolCalls, Unavailable
  <1>4. ~AggregateEvidence /\ ~RiskAssessment /\ ~HumanReviewGate /\ ~Save /\ ~Abort
    BY <1>1 DEF AggregateEvidence, RiskAssessment, HumanReviewGate, Save, Abort
  <1>5. ~AuditDecision /\ ~AuditRisk /\ ~AuditReview
    BY <1>1 DEF AuditDecision, AuditRisk, AuditReview, AuditRun
  <1>6. (\A t \in Types : ~ChangeDocument(t)) /\ ~UNCHANGED vars
    BY <1>1 DEF ChangeDocument, vars
  <1> QED
    BY <1>2, <1>3, <1>4, <1>5, <1>6 DEF Next, Step

LEMMA ReadyStep ==
  InvestigationInv /\ [Next]_vars => ReadyIsComplete' /\ ReadyIsUnsuspicious'
  <1> SUFFICES ASSUME InvestigationInv, [Next]_vars, action' = READY_ACTION
               PROVE  ReadyIsComplete' /\ ReadyIsUnsuspicious'
    BY DEF ReadyIsComplete, ReadyIsUnsuspicious
  <1> /\ TypeOK /\ GateInv /\ PassedInv
      /\ ReadyIsComplete /\ ReadyIsUnsuspicious
    BY DEF InvestigationInv
  <1>1. CASE node \in AfterReview
    <2>1. UNCHANGED <<lc, loaded, dna, f, queue, action>>
      BY <1>1, GraphStateSettled DEF stateVars
    <2> QED
      BY <2>1 DEF ReadyIsComplete, ReadyIsUnsuspicious, Unsuspicious, Required, HasBl
  <1>2. CASE SettlementReadiness
    <2>1. UNCHANGED <<lc, loaded, dna, f, queue>> /\ node = "settlement_readiness"
      BY <1>2 DEF SettlementReadiness, docVars
    <2>2. ~review
      BY <2>1 DEF GateInv
    <2>3. /\ \A t \in Required : loaded[t] \in {"PARTIAL", "EXTRACTED"}
          /\ f.compliance.verdict # "NOT_RUN" /\ dna # NoDna /\ f.dna # "NOT_RUN"
          /\ HasBl => f.match # "NOT_RUN"
          /\ queue = <<>>
          /\ ~Triggered(f)
      BY <2>1, <2>2 DEF PassedInv, AfterCompleteness, AfterRules, AfterDna, AfterMatch,
                        AfterTools, AfterRiskScored
    <2>4. Unsuspicious
      BY <2>3, NoTriggerIsUnsuspicious
    <2> QED
      BY <2>1, <2>3, <2>4
      DEF ReadyIsComplete, ReadyIsUnsuspicious, Unsuspicious, Required, HasBl
  <1> QED
    BY <1>1, <1>2, OnlyReadinessRecommends

LEMMA BandStep == InvestigationInv /\ [Next]_vars => BandInv'
  <1> SUFFICES ASSUME InvestigationInv, [Next]_vars PROVE BandInv'
    OBVIOUS
  <1> TypeOK /\ GateInv /\ BandInv
    BY DEF InvestigationInv
  <1> DEFINE Early == node \notin AfterRiskScored \union AfterReview
  <1> USE DEF Goto
  \* Before the band is set a review can only be due to a failure.
  <1>a. ASSUME Early, band' = band, node' # "risk_assessment",
               (review' => review /\ stop' = stop) \/ stop' \in Failures
        PROVE  BandInv'
    BY <1>a DEF BandInv
  <1>1. CASE LoadCase
    <2>1. node = "load_case" /\ node' # "risk_assessment" /\ band' = band
      BY <1>1 DEF LoadCase
    <2>2. ~review' 
      BY <1>1, <2>1 DEF LoadCase, GateInv
    <2> QED
      BY <1>a, <2>1, <2>2 DEF AfterRiskScored, AfterReview
  <1>2. CASE CheckCompleteness
    <2>1. node = "check_completeness" /\ node' # "risk_assessment" /\ band' = band
      BY <1>2 DEF CheckCompleteness
    <2>2. ~review' \/ stop' \in Failures
      BY <1>2 DEF CheckCompleteness, HoldFor, Failures
    <2> QED
      BY <1>a, <2>1, <2>2 DEF AfterRiskScored, AfterReview
  <1>3. CASE RunUcpRules
    <2>1. node = "run_ucp_rules" /\ node' # "risk_assessment" /\ band' = band
      BY <1>3 DEF RunUcpRules
    <2>2. UNCHANGED <<review, stop>> \/ stop' \in Failures
      BY <1>3 DEF RunUcpRules, Unavailable, HoldFor, Failures
    <2> QED
      BY <1>a, <2>1, <2>2 DEF AfterRiskScored, AfterReview
  <1>4. CASE BuildTransactionDna
    <2>1. node = "build_transaction_dna" /\ node' # "risk_assessment" /\ band' = band
      BY <1>4 DEF BuildTransactionDna
    <2>2. UNCHANGED <<review, stop>> \/ stop' \in Failures
      BY <1>4 DEF BuildTransactionDna, Unavailable, HoldFor, Failures
    <2> QED
      BY <1>a, <2>1, <2>2 DEF AfterRiskScored, AfterReview
  <1>5. CASE CrossIbuCheck
    <2>1. node = "cross_ibu_check" /\ node' # "risk_assessment" /\ band' = band
      BY <1>5 DEF CrossIbuCheck
    <2>2. UNCHANGED <<review, stop>> \/ stop' \in Failures
      BY <1>5 DEF CrossIbuCheck, Unavailable, HoldFor, Failures
    <2> QED
      BY <1>a, <2>1, <2>2 DEF AfterRiskScored, AfterReview
  <1>6. CASE FraudTriage \/ CallTool \/ EndToolCalls
    <2>1. /\ node \in {"fraud_triage", "conditional_tool_calls"}
          /\ node' # "risk_assessment" /\ band' = band
      BY <1>6 DEF FraudTriage, CallTool, EndToolCalls
    <2>2. UNCHANGED <<review, stop>> \/ stop' \in Failures
      BY <1>6 DEF FraudTriage, CallTool, EndToolCalls, HoldFor, Failures
    <2> QED
      BY <1>a, <2>1, <2>2 DEF AfterRiskScored, AfterReview
  <1>7. CASE AggregateEvidence
    <2>1. /\ node = "aggregate_evidence" /\ cited' = Evidence(f, planned)
          /\ UNCHANGED <<f, planned, band, review, stop>>
      BY <1>7 DEF AggregateEvidence
    <2>2. band = "NONE"
      BY <2>1 DEF BandInv, AfterRiskScored, AfterReview
    <2> QED
      BY <2>1, <2>2 DEF BandInv
  <1>8. CASE RiskAssessment
    <2>1. /\ node = "risk_assessment" /\ node' = "human_review_gate"
          /\ UNCHANGED <<f, planned, cited>>
      BY <1>8 DEF RiskAssessment
    <2>2. band' # "NONE"
      BY <1>8 DEF RiskAssessment, Band
    <2>3. cited = Evidence(f, planned) /\ (review => stop \in Failures)
      BY <2>1 DEF BandInv, AfterRiskScored, AfterReview
    <2>4. review' => stop' \in Failures \/ Triggered(f)
      BY <1>8, <2>3 DEF RiskAssessment, HoldFor, Failures
    <2> QED
      BY <2>1, <2>2, <2>3, <2>4 DEF BandInv, AfterRiskScored
  <1>9. CASE HumanReviewGate
    <2>1. /\ node' \in {"save", "settlement_readiness"}
          /\ UNCHANGED <<f, planned, cited, band, review, stop>>
      BY <1>9 DEF HumanReviewGate, stateVars
    <2> QED
      BY <2>1 DEF BandInv, AfterRiskScored, AfterReview
  <1>10. CASE SettlementReadiness
    <2>1. /\ node = "settlement_readiness" /\ node' = "save"
          /\ UNCHANGED <<f, planned, cited, band, review>>
      BY <1>10 DEF SettlementReadiness
    <2>2. ~review
      BY <2>1 DEF GateInv
    <2> QED
      BY <2>1, <2>2 DEF BandInv, AfterReview
  <1>11. CASE node \in AfterReview
    <2>1. node' \in AfterReview /\ UNCHANGED <<f, planned, cited, band, review, stop>>
      BY <1>11, GraphStateSettled DEF stateVars
    <2> QED
      BY <2>1 DEF BandInv, AfterReview
  <1>12. CASE Abort
    <2>1. node' = "dead" /\ UNCHANGED <<f, planned, cited, band, review, stop>>
      BY <1>12 DEF Abort, stateVars
    <2> QED
      BY <2>1 DEF BandInv, AfterReview
  <1>13. ASSUME UNCHANGED <<node, f, planned, cited, band, review, stop>> PROVE BandInv'
    BY <1>13 DEF BandInv, AfterRiskScored, AfterReview
  <1>14. ASSUME NEW t \in Types, ChangeDocument(t) PROVE BandInv'
    BY <1>13, <1>14 DEF ChangeDocument, stateVars
  <1>15. CASE UNCHANGED vars
    BY <1>13, <1>15 DEF vars
  <1>16. CASE Save \/ AuditDecision \/ AuditRisk \/ AuditReview
    BY <1>11, <1>16 DEF Save, AuditDecision, AuditRisk, AuditReview, AuditRun, AfterReview
  <1> QED
    BY <1>1, <1>2, <1>3, <1>4, <1>5, <1>6, <1>7, <1>8, <1>9, <1>10, <1>12, <1>14, <1>15,
       <1>16 DEF Next, Step

-------------------------------------------------------------------------------
(* What is saved and audited *)

\* An event appended to the trail is audited from then on, and no other.
LEMMA AuditedAppend ==
  ASSUME audit \in Seq(Events), NEW type, NEW ref, audit' = Append(audit, Event(type, ref))
  PROVE  \A e : Audited(e)' <=> (Audited(e) \/ e = type)
  <1> DEFINE new == Event(type, ref)
  <1>1. new.event = type
    BY DEF Event
  <1>2. audit \in Seq(Events \union {new}) /\ new \in Events \union {new}
        /\ audit' = Append(audit, new)
    OBVIOUS
  <1> HIDE DEF new
  <1>3. /\ DOMAIN audit = 1..Len(audit) /\ DOMAIN audit' = 1..(Len(audit) + 1)
        /\ \A i \in 1..Len(audit) : audit'[i] = audit[i]
        /\ audit'[Len(audit) + 1] = new
        /\ Len(audit) \in Nat
    BY <1>2
  <1>4. ASSUME NEW e PROVE Audited(e)' <=> (Audited(e) \/ e = type)
    BY <1>1, <1>3 DEF Audited
  <1> QED
    BY <1>4

\* Before the outcome is saved, a step writes no event about the run.
LEMMA OutcomeUntouched ==
  ASSUME TypeOK, [Next]_vars, node \notin AfterReview, ~saved
  PROVE  /\ UNCHANGED <<saved, caseStatus>>
         /\ node' \notin AfterReview \ {"save", "dead"}
         /\ \A e \in {"AGENT_DECISION", "RISK_SCORED", "HUMAN_REVIEW_REQUIRED"} :
              Audited(e)' <=> Audited(e)
  <1> USE DEF docVars, stateVars, storeVars, Goto
  <1>1. /\ ~Save /\ ~AuditDecision /\ ~AuditRisk /\ ~AuditReview
    BY DEF Save, AuditDecision, AuditRisk, AuditReview, AuditRun, AfterReview
  <1>2. /\ UNCHANGED <<saved, caseStatus>>
        /\ node' \notin AfterReview \ {"save", "dead"}
    <2> USE DEF AfterReview
    <2>1. CASE LoadCase \/ CheckCompleteness
      BY <2>1 DEF LoadCase, CheckCompleteness
    <2>2. CASE RunUcpRules \/ BuildTransactionDna \/ CrossIbuCheck
      BY <2>2 DEF RunUcpRules, BuildTransactionDna, CrossIbuCheck
    <2>3. CASE FraudTriage \/ CallTool \/ EndToolCalls
      BY <2>3 DEF FraudTriage, CallTool, EndToolCalls
    <2>4. CASE AggregateEvidence \/ RiskAssessment
      BY <2>4 DEF AggregateEvidence, RiskAssessment
    <2>5. CASE HumanReviewGate \/ SettlementReadiness \/ Abort
      BY <2>5 DEF HumanReviewGate, SettlementReadiness, Abort
    <2>6. ASSUME NEW t \in Types, ChangeDocument(t)
          PROVE  UNCHANGED <<node, saved, caseStatus>>
      BY <2>6 DEF ChangeDocument
    <2>7. CASE UNCHANGED vars
      BY <2>7 DEF vars
    <2> QED
      BY <1>1, <2>1, <2>2, <2>3, <2>4, <2>5, <2>6, <2>7 DEF Next, Step
  <1>3. CASE UNCHANGED audit
    BY <1>2, <1>3 DEF Audited
  <1>4. ASSUME NEW tool, NEW status, Record(tool, status)
        PROVE  \A e \in {"AGENT_DECISION", "RISK_SCORED", "HUMAN_REVIEW_REQUIRED"} :
                 Audited(e)' <=> Audited(e)
    <2>1. audit \in Seq(Events)
      BY DEF TypeOK
    <2>2. PICK ref : audit' = Append(audit, Event("TOOL_CALLED", ref))
      BY <1>4 DEF Record
    <2>3. \A e : Audited(e)' <=> (Audited(e) \/ e = "TOOL_CALLED")
      BY <2>1, <2>2, AuditedAppend
    <2> QED
      BY <2>3
  <1>5. UNCHANGED audit \/ \E tool \in Tools \union Mandatory, status \in CallStatuses :
                             Record(tool, status)
    BY CallOrNot DEF AfterReview
  <1> QED
    BY <1>2, <1>3, <1>4, <1>5

LEMMA OutcomeStep == InvestigationInv /\ [Next]_vars => OutcomeInv'
  <1> SUFFICES ASSUME InvestigationInv, [Next]_vars PROVE OutcomeInv'
    OBVIOUS
  <1> TypeOK /\ GateInv /\ BandInv /\ OutcomeInv
    BY DEF InvestigationInv
  <1>t. audit \in Seq(Events)
    BY DEF TypeOK
  <1> DEFINE Outcomes == {"AGENT_DECISION", "RISK_SCORED", "HUMAN_REVIEW_REQUIRED"}
  <1>1. CASE node \notin AfterReview
    <2>1. ~saved /\ (\A e \in Outcomes : ~Audited(e))
      BY <1>1 DEF OutcomeInv, AfterReview
    <2>2. /\ UNCHANGED <<saved, caseStatus>>
          /\ node' \notin AfterReview \ {"save", "dead"}
          /\ \A e \in Outcomes : ~Audited(e)'
      BY <1>1, <2>1, OutcomeUntouched
    <2> QED
      BY <2>1, <2>2 DEF OutcomeInv, AfterReview
  <1>2. CASE Save
    <2>1. /\ node = "save" /\ node' = "audit_decision" /\ saved'
          /\ UNCHANGED <<review, action, audit>>
          /\ caseStatus' = IF action = "none" THEN caseStatus ELSE action
      BY <1>2 DEF Save, Goto, stateVars
    <2>2. caseStatus = "RECEIVED" /\ (\A e \in Outcomes : ~Audited(e))
      BY <2>1 DEF OutcomeInv, AfterReview
    <2>3. caseStatus' = HOLD_ACTION <=> review'
      BY <2>1, <2>2 DEF GateInv, TypeOK
    <2>4. \A e \in Outcomes : ~Audited(e)'
      BY <2>1, <2>2 DEF Audited
    <2> QED
      BY <2>1, <2>3, <2>4 DEF OutcomeInv, AfterReview
  <1>3. CASE AuditDecision
    <2>1. /\ node = "audit_decision"
          /\ node' = IF band # "NONE" THEN "audit_risk"
                     ELSE IF review THEN "audit_review" ELSE "done"
          /\ UNCHANGED <<review, band, saved, caseStatus>>
          /\ audit' = Append(audit, Event("AGENT_DECISION", stop))
      BY <1>3 DEF AuditDecision, AuditRun, AfterRisk, Goto, stateVars, storeVars
    <2>2. /\ saved /\ (caseStatus = HOLD_ACTION <=> review)
          /\ ~Audited("RISK_SCORED") /\ ~Audited("HUMAN_REVIEW_REQUIRED")
      BY <2>1 DEF OutcomeInv, AfterReview
    <2>3. /\ Audited("AGENT_DECISION")'
          /\ ~Audited("RISK_SCORED")' /\ ~Audited("HUMAN_REVIEW_REQUIRED")'
      <3>1. \A e : Audited(e)' <=> (Audited(e) \/ e = "AGENT_DECISION")
        BY <1>t, <2>1, AuditedAppend
      <3> QED
        BY <2>2, <3>1
    <2> QED
      BY <2>1, <2>2, <2>3 DEF OutcomeInv, AfterReview
  <1>4. CASE AuditRisk
    <2>1. /\ node = "audit_risk" /\ node' = IF review THEN "audit_review" ELSE "done"
          /\ UNCHANGED <<review, band, saved, caseStatus>>
          /\ audit' = Append(audit, Event("RISK_SCORED", band))
      BY <1>4 DEF AuditRisk, AuditRun, AfterRisk, Goto, stateVars, storeVars
    <2>2. /\ saved /\ (caseStatus = HOLD_ACTION <=> review)
          /\ Audited("AGENT_DECISION") /\ ~Audited("HUMAN_REVIEW_REQUIRED")
          /\ band # "NONE"
      BY <2>1 DEF OutcomeInv, AfterReview
    <2>3. /\ Audited("AGENT_DECISION")' /\ Audited("RISK_SCORED")'
          /\ ~Audited("HUMAN_REVIEW_REQUIRED")'
      <3>1. \A e : Audited(e)' <=> (Audited(e) \/ e = "RISK_SCORED")
        BY <1>t, <2>1, AuditedAppend
      <3> QED
        BY <2>2, <3>1
    <2> QED
      BY <2>1, <2>2, <2>3 DEF OutcomeInv, AfterReview
  <1>5. CASE AuditReview
    <2>1. /\ node = "audit_review" /\ node' = "done"
          /\ UNCHANGED <<review, band, saved, caseStatus>>
          /\ audit' = Append(audit, Event("HUMAN_REVIEW_REQUIRED", stop))
      BY <1>5 DEF AuditReview, AuditRun, Goto, stateVars, storeVars
    <2>2. /\ saved /\ (caseStatus = HOLD_ACTION <=> review) /\ review
          /\ Audited("AGENT_DECISION") /\ (Audited("RISK_SCORED") <=> band # "NONE")
      BY <2>1 DEF OutcomeInv, AfterReview
    <2>3. /\ Audited("AGENT_DECISION")' /\ (Audited("RISK_SCORED")' <=> band' # "NONE")
          /\ Audited("HUMAN_REVIEW_REQUIRED")'
      <3>1. \A e : Audited(e)' <=> (Audited(e) \/ e = "HUMAN_REVIEW_REQUIRED")
        BY <1>t, <2>1, AuditedAppend
      <3> QED
        BY <2>1, <2>2, <3>1
    <2> QED
      BY <2>1, <2>2, <2>3 DEF OutcomeInv, AfterReview
  <1>6. ASSUME node \in AfterReview, UNCHANGED <<saved, caseStatus>>, node' = "dead"
        PROVE  OutcomeInv'
    BY <1>6 DEF OutcomeInv, AfterReview
  <1>7. CASE Abort
    BY <1>1, <1>6, <1>7 DEF Abort, Goto
  <1>8. ASSUME UNCHANGED <<node, review, band, saved, caseStatus, audit>> PROVE OutcomeInv'
    BY <1>8 DEF OutcomeInv, Audited, AfterReview
  <1>9. ASSUME NEW t \in Types, ChangeDocument(t) PROVE OutcomeInv'
    BY <1>8, <1>9 DEF ChangeDocument, stateVars, storeVars
  <1>10. CASE UNCHANGED vars
    BY <1>8, <1>10 DEF vars
  <1>11. CASE node \in AfterReview
    <2>1. /\ ~LoadCase /\ ~CheckCompleteness /\ ~RunUcpRules /\ ~BuildTransactionDna
          /\ ~CrossIbuCheck /\ ~FraudTriage /\ ~CallTool /\ ~EndToolCalls
          /\ ~AggregateEvidence /\ ~RiskAssessment /\ ~HumanReviewGate
          /\ ~SettlementReadiness
      BY <1>11
      DEF LoadCase, CheckCompleteness, RunUcpRules, BuildTransactionDna, CrossIbuCheck,
          FraudTriage, CallTool, EndToolCalls, AggregateEvidence, RiskAssessment,
          HumanReviewGate, SettlementReadiness, AfterReview
    <2> QED
      BY <1>2, <1>3, <1>4, <1>5, <1>7, <1>9, <1>10, <2>1 DEF Next, Step
  <1> QED
    BY <1>1, <1>11

-------------------------------------------------------------------------------
(* The theorems *)

LEMMA InitInvestigationInv == Init => InvestigationInv
  <1> SUFFICES ASSUME Init PROVE InvestigationInv
    OBVIOUS
  <1> USE DEF Init
  <1>1. TypeOK
    <2>1. repo \in [Types -> AllDocStates] /\ loaded \in [Types -> AllDocStates]
      BY InvestigationAssumption DEF AllDocStates
    <2>2. docChanges \in 0..MaxDocChanges
      BY InvestigationAssumption
    <2>3. budget \in Nat
      BY InvestigationAssumption
    <2>4. lc \in LcTerms /\ budget \in Budgets /\ remaining \in Nat
      BY <2>3
    <2>5. node \in Nodes /\ dna \in DnaResults \union {NoDna} /\ f \in FindingSets
      BY NoFindingsType DEF Nodes
    <2>6. planned \in BOOLEAN /\ cited \subseteq Sources
      OBVIOUS
    <2>e. queue \in Seq(Tools) /\ calls \in Seq(Calls) /\ audit \in Seq(Events)
      <3>1. queue = <<>> /\ calls = <<>> /\ audit = <<>>
        OBVIOUS
      <3> HIDE DEF Init
      <3> QED
        BY <3>1
    <2>7. /\ band \in Bands \union {"NONE"} /\ review \in BOOLEAN
          /\ action \in {"none", READY_ACTION, HOLD_ACTION} /\ stop \in StopReasons
      BY DEF StopReasons
    <2>8. stored \in [compliance : ComplianceVerdicts, dna : DnaResults \union {NoDna}]
      BY DEF ComplianceVerdicts
    <2>9. saved \in BOOLEAN /\ caseStatus \in {"RECEIVED", READY_ACTION, HOLD_ACTION}
      OBVIOUS
    <2> HIDE DEF Init
    <2> QED
      BY <2>1, <2>2, <2>4, <2>5, <2>6, <2>e, <2>7, <2>8, <2>9 DEF TypeOK
  <1>2. BudgetAccounted
    <2>1. budget \in Nat
      BY InvestigationAssumption
    <2> QED
      BY <2>1 DEF BudgetAccounted
  <1>3. CallsAudited
    BY DEF CallsAudited
  <1>4. PassedInv
    BY DEF PassedInv, AfterCompleteness, AfterRules, AfterDna, AfterMatch, AfterTools,
           AfterRiskScored
  <1>5. GateInv /\ BandInv
    BY DEF GateInv, BandInv
  <1>6. OutcomeInv
    BY DEF OutcomeInv, Audited, AfterReview
  <1>7. ReadyIsComplete /\ ReadyIsUnsuspicious
    BY DEF ReadyIsComplete, ReadyIsUnsuspicious
  <1> QED
    BY <1>1, <1>2, <1>3, <1>4, <1>5, <1>6, <1>7 DEF InvestigationInv

\* The inductive invariant of a run: types, budget, audit, what was passed, and
\* what the recommendation rests on.
THEOREM InvestigationInvariance == Spec => []InvestigationInv
  <1>1. InvestigationInv /\ [Next]_vars => InvestigationInv'
    BY TypeStep, BudgetStep, CallsAuditedStep, PassedStep, GateStep, BandStep, OutcomeStep,
       ReadyStep DEF InvestigationInv
  <1> QED
    BY InitInvestigationInv, <1>1, PTL DEF Spec

\* The state of a run keeps its types for every set of findings and documents.
THEOREM RunTypeCorrect == Spec => []TypeOK
  <1>1. InvestigationInv => TypeOK
    BY DEF InvestigationInv
  <1> QED
    BY InvestigationInvariance, <1>1, PTL

\* For every budget the calls and the remaining budget add up, and calls are
\* refused exactly beyond it.
THEOREM BudgetNeverOverdrawn == Spec => []BudgetAccounted
  <1>1. InvestigationInv => BudgetAccounted
    BY DEF InvestigationInv
  <1> QED
    BY InvestigationInvariance, <1>1, PTL

\* Every call of every run is in the audit trail, in order.
THEOREM EveryCallAudited == Spec => []CallsAudited
  <1>1. InvestigationInv => CallsAudited
    BY DEF InvestigationInv
  <1> QED
    BY InvestigationInvariance, <1>1, PTL

\* Readiness is recommended only after every required document and mandatory
\* check, whatever fails, hangs or changes during the run.
THEOREM ReadinessIsComplete == Spec => []ReadyIsComplete
  <1>1. InvestigationInv => ReadyIsComplete
    BY DEF InvestigationInv
  <1> QED
    BY InvestigationInvariance, <1>1, PTL

\* Readiness is never recommended over a finding that matters: the weights, the
\* bands and the triggers leave no gap.
THEOREM ReadinessIsUnsuspicious == Spec => []ReadyIsUnsuspicious
  <1>1. InvestigationInv => ReadyIsUnsuspicious
    BY DEF InvestigationInv
  <1> QED
    BY InvestigationInvariance, <1>1, PTL

\* Score and triggers are monotone, for all findings and any number of them: a check
\* that reports something worse, or reports it besides, never makes a case pass.
THEOREM WorseFindingsAreNeverSafer ==
  \A a, b \in FindingSets : WorseIsNeverSafer(a, b)
<1> SUFFICES ASSUME NEW a \in FindingSets, NEW b \in FindingSets, NoBetter(b, a)
             PROVE  Score(a) <= Score(b) /\ (Triggered(a) => Triggered(b))
  BY DEF WorseIsNeverSafer
<1>1. /\ a.compliance.material \in Nat /\ a.compliance.waivable \in Nat
      /\ b.compliance.material \in Nat /\ b.compliance.waivable \in Nat
      /\ a.match \in MatchLevels /\ b.match \in MatchLevels
      /\ a.price \in PriceSignals /\ b.price \in PriceSignals
      /\ \A p \in Parties : a.sanctions[p] \in SanctionsSignals /\ b.sanctions[p] \in SanctionsSignals
  BY DEF FindingSets
<1>2. /\ MatchPoints(a.match) <= MatchPoints(b.match)
      /\ MaterialPoints(a.compliance.material) <= MaterialPoints(b.compliance.material)
      /\ a.compliance.waivable <= b.compliance.waivable
      /\ PricePoints(a.price) <= PricePoints(b.price)
      /\ \A p \in Parties : PartyPoints(a.sanctions[p]) <= PartyPoints(b.sanctions[p])
  BY <1>1, RanksWeigh DEF NoBetter
<1>3. /\ MatchPoints(a.match) \in Nat /\ MatchPoints(b.match) \in Nat
      /\ MaterialPoints(a.compliance.material) \in Nat
      /\ MaterialPoints(b.compliance.material) \in Nat
      /\ PricePoints(a.price) \in Nat /\ PricePoints(b.price) \in Nat
      /\ \A p \in Parties :
           PartyPoints(a.sanctions[p]) \in Nat /\ PartyPoints(b.sanctions[p]) \in Nat
  BY <1>1, PointsType
<1>4. /\ a.vessel = "ANOMALY" => b.vessel = "ANOMALY"
      /\ a.completeness = "INCOMPLETE" => b.completeness = "INCOMPLETE"
      /\ a.dna = "ATTENTION" => b.dna = "ATTENTION"
      /\ a.compliance.material <= b.compliance.material
  BY DEF NoBetter
<1>5. /\ Score(a) \in Nat /\ Score(b) \in Nat
      /\ Score(a) <= Score(b)
  BY <1>1, <1>2, <1>3, <1>4 DEF Score, Parties
<1>6. Band(Score(a)) = "HIGH" => Band(Score(b)) = "HIGH"
  BY <1>5 DEF Band
<1>7. ExternalSignal(a) => ExternalSignal(b)
  BY <1>1, <1>4, RanksWeigh DEF NoBetter, ExternalSignal
<1>8. a.match \in {"EXACT", "NEAR_LIKELY", "NEAR_POSSIBLE"} =>
        b.match \in {"EXACT", "NEAR_LIKELY", "NEAR_POSSIBLE"}
  BY <1>1, RanksWeigh DEF NoBetter
<1> QED
  BY <1>1, <1>4, <1>5, <1>6, <1>7, <1>8 DEF Triggered

\* A run that ended regularly has audited exactly its outcome.
THEOREM OutcomeIsAudited == Spec => []OutcomeAudited
  <1>1. InvestigationInv => OutcomeAudited
    BY DEF InvestigationInv, OutcomeInv, OutcomeAudited, AfterReview
  <1> QED
    BY InvestigationInvariance, <1>1, PTL

\* Every saved hold is explained by a failed step or by cited evidence.
THEOREM HoldsAreExplained == Spec => []HoldIsExplained
  <1>1. ASSUME InvestigationInv, saved, action = HOLD_ACTION, stop \notin Failures
        PROVE  Causes # {} /\ Causes \subseteq cited
    <2>1. TypeOK /\ GateInv /\ BandInv
      BY <1>1 DEF InvestigationInv
    <2>2. Triggered(f) /\ cited = Evidence(f, planned)
      BY <1>1, <2>1 DEF GateInv, BandInv
    <2>3. f \in FindingSets
      BY <2>1 DEF TypeOK
    <2>4. /\ f.compliance.material \in Nat /\ f.compliance.waivable \in Nat
          /\ f.compliance.other \in Nat /\ f.match \in MatchLevels
      BY <2>3 DEF FindingSets
    <2>5. Causes \subseteq Evidence(f, planned)
      BY <2>4 DEF Causes, Evidence, Sources, Discrepancies
    <2>6. Causes # {}
      <3>1. SUFFICES ASSUME Causes = {} PROVE FALSE
        OBVIOUS
      <3>2. /\ f.compliance.material + f.compliance.waivable <= 0 /\ f.dna # "ATTENTION"
            /\ f.match \in {"NOT_RUN", "CONTEXTUAL", "NONE"}
            /\ f.price \in {"NOT_RUN", "NORMAL"} /\ f.vessel # "ANOMALY"
            /\ \A p \in Parties : f.sanctions[p] \in {"NOT_RUN", "UNNAMED", "NO_MATCH"}
        BY <2>4, <3>1 DEF Causes
      <3>3. f.compliance.material = 0 /\ f.compliance.waivable = 0
        BY <2>4, <3>2
      <3>4. Score(f) <= 25
        BY <3>2, <3>3
        DEF Score, MatchPoints, MaterialPoints, PricePoints, PartyPoints, Parties
      <3>5. Band(Score(f)) # "HIGH"
        BY <3>4, <3>2, <3>3
        DEF Band, Score, MatchPoints, MaterialPoints, PricePoints, PartyPoints, Parties
      <3> QED
        BY <2>2, <3>2, <3>3, <3>5 DEF Triggered, ExternalSignal
    <2> QED
      BY <2>2, <2>5, <2>6
  <1>2. InvestigationInv => HoldIsExplained
    BY <1>1 DEF HoldIsExplained
  <1> QED
    BY InvestigationInvariance, <1>2, PTL

\* A run under review stays under review, on hold.
LEMMA ReviewKept ==
  ASSUME InvestigationInv, [Next]_vars, review
  PROVE  review' /\ action' = HOLD_ACTION
  <1>1. TypeOK' /\ GateInv'
    BY TypeStep, GateStep
  <1>2. TypeOK /\ GateInv
    BY DEF InvestigationInv
  <1>3. review'
    <2> USE DEF docVars, stateVars, storeVars, HoldFor
    <2>1. ~CheckCompleteness
      BY <1>2 DEF CheckCompleteness, GateInv
    <2>2. CASE LoadCase \/ FraudTriage \/ CallTool \/ EndToolCalls \/ AggregateEvidence
      BY <2>2 DEF LoadCase, FraudTriage, CallTool, EndToolCalls, AggregateEvidence
    <2>3. CASE RunUcpRules \/ BuildTransactionDna \/ CrossIbuCheck
      BY <2>3 DEF RunUcpRules, BuildTransactionDna, CrossIbuCheck, Unavailable
    <2>4. CASE RiskAssessment \/ HumanReviewGate \/ SettlementReadiness
      BY <2>4 DEF RiskAssessment, HumanReviewGate, SettlementReadiness
    <2>5. CASE Save \/ AuditDecision \/ AuditRisk \/ AuditReview \/ Abort
      BY <2>5 DEF Save, AuditDecision, AuditRisk, AuditReview, AuditRun, Abort
    <2>6. ASSUME NEW t \in Types, ChangeDocument(t) PROVE review'
      BY <2>6 DEF ChangeDocument
    <2>7. CASE UNCHANGED vars
      BY <2>7 DEF vars
    <2> QED
      BY <2>1, <2>2, <2>3, <2>4, <2>5, <2>6, <2>7 DEF Next, Step
  <1> QED
    BY <1>1, <1>3 DEF GateInv

\* No step of any run withdraws the need of a human review.
THEOREM ReviewIsNeverWithdrawn == Spec => ReviewNeverWithdrawn
  <1>1. InvestigationInv /\ [Next]_vars => [review => review' /\ action' = HOLD_ACTION]_vars
    BY ReviewKept
  <1> QED
    BY InvestigationInvariance, <1>1, PTL DEF Spec, ReviewNeverWithdrawn

-------------------------------------------------------------------------------
(* The sanctions screening behind a recommendation *)

\* A recorded call is made from then on.
LEMMA CallMade ==
  ASSUME TypeOK, NEW tool \in Tools \union Mandatory, NEW status \in CallStatuses,
         Record(tool, status)
  PROVE  CallsMade' = CallsMade \union {[tool |-> tool, status |-> status]}
  <1> DEFINE call == [tool |-> tool, status |-> status]
  <1>1. calls \in Seq(Calls) /\ call \in Calls /\ calls' = Append(calls, call)
    BY DEF TypeOK, Calls, Record
  <1> HIDE DEF call
  <1>2. /\ Len(calls') = Len(calls) + 1 /\ calls'[Len(calls) + 1] = call
        /\ \A i \in 1..Len(calls) : calls'[i] = calls[i]
    BY <1>1
  <1>3. DOMAIN calls = 1..Len(calls) /\ DOMAIN calls' = 1..(Len(calls) + 1)
    BY <1>1, <1>2
  <1>4. DOMAIN calls' = DOMAIN calls \union {Len(calls) + 1} /\ Len(calls) \in Nat
    BY <1>1, <1>3
  <1>5. CallsMade' = CallsMade \union {call}
    BY <1>2, <1>3, <1>4 DEF CallsMade
  <1> QED
    BY <1>5 DEF call

\* A mandatory call is not a screening.
LEMMA MandatoryCall ==
  ASSUME TypeOK, NEW tool \in Mandatory, NEW status \in CallStatuses, Record(tool, status)
  PROVE  /\ Screened' = Screened /\ ScreeningCalled' = ScreeningCalled
         /\ ScreeningRefused' = ScreeningRefused
  <1>1. CallsMade' = CallsMade \union {[tool |-> tool, status |-> status]}
    BY CallMade
  <1>2. tool # "sanctions_screening"
    BY DEF Mandatory
  <1>3. [tool |-> tool, status |-> status]
          \notin {[tool |-> "sanctions_screening", status |-> "COMPLETED"],
                  [tool |-> "sanctions_screening", status |-> "BUDGET_EXHAUSTED"]}
    BY <1>2
  <1> QED
    BY <1>1, <1>2, <1>3 DEF Screened, ScreeningCalled, ScreeningRefused, Called

\* A screening that was selected is in the queue.
LEMMA ScreeningQueued ==
  ASSUME NEW selection, "sanctions_screening" \in selection, queue' = Ordered(selection)
  PROVE  "sanctions_screening" \in Selected'
  <1> DEFINE rest == Chosen("price_benchmark", selection)
                       \o Chosen("vessel_verification", selection)
                       \o Chosen("entity_verification", selection)
  <1>1. rest \in Seq(Tools)
    <2>1. \A t \in Tools : Chosen(t, selection) \in Seq(Tools)
      BY DEF Chosen
    <2>2. {"price_benchmark", "vessel_verification", "entity_verification"} \subseteq Tools
      BY DEF Tools
    <2> QED
      BY <2>1, <2>2
  <1>2. queue' = rest \o <<"sanctions_screening">>
    BY DEF Ordered, Chosen
  <1> HIDE DEF rest
  <1>3. /\ Len(rest) + 1 \in DOMAIN queue'
        /\ queue'[Len(rest) + 1] = "sanctions_screening"
    BY <1>1, <1>2
  <1> QED
    BY <1>3 DEF Selected

\* An empty queue has nothing selected in it.
LEMMA NothingQueued == queue = <<>> => Selected = {}
  BY DEF Selected

\* A call takes the head of the queue only.
LEMMA HeadTaken ==
  ASSUME queue \in Seq(Tools), queue # <<>>, queue' = Tail(queue)
  PROVE  Selected \subseteq Selected' \union {Head(queue)}
  <1> SUFFICES ASSUME NEW i \in DOMAIN queue, queue[i] # Head(queue)
               PROVE  queue[i] \in Selected'
    BY DEF Selected
  <1>1. i # 1 /\ i \in 1..Len(queue)
    OBVIOUS
  <1>2. i - 1 \in DOMAIN queue' /\ queue'[i - 1] = queue[i]
    BY <1>1
  <1> QED
    BY <1>2 DEF Selected

\* A screening reports a result for every party the fingerprint names; the other
\* tools leave what it found alone.
LEMMA ScreeningReport ==
  ASSUME TypeOK, dna # NoDna, NEW tool, Report(tool)
  PROVE  /\ tool = "sanctions_screening" =>
              \A p \in dna.named : f'.sanctions[p] \in SanctionsResults
         /\ tool # "sanctions_screening" => UNCHANGED f.sanctions
  <1>1. f \in FindingSets /\ dna.named \subseteq Parties
    BY InvestigationAssumption DEF TypeOK
  <1>2. CASE tool = "sanctions_screening"
    BY <1>1, <1>2 DEF Report, FindingSets
  <1>3. CASE tool # "sanctions_screening"
    BY <1>1, <1>3 DEF Report, FindingSets
  <1> QED
    BY <1>2, <1>3

\* Steps that plan, call and report nothing keep the invariant if the node they
\* go to does.
LEMMA ScreeningKept ==
  ASSUME ScreeningInv, UNCHANGED <<dna, queue, planned, calls, f.sanctions>>,
         \/ node' \in ToolNodes
         \/ ~review' /\ node' \in AfterRiskScored
         \/ action' = READY_ACTION
         => planned,
         planned => node' \in ToolNodes \union AfterRiskScored \union AfterReview
  PROVE  ScreeningInv'
  BY DEF ScreeningInv, Screened, ScreeningCalled, ScreeningRefused, Called, CallsMade, Selected

LEMMA ScreeningStep == InvestigationInv /\ ScreeningInv /\ [Next]_vars => ScreeningInv'
  <1> SUFFICES ASSUME InvestigationInv, ScreeningInv, [Next]_vars PROVE ScreeningInv'
    OBVIOUS
  <1> /\ TypeOK /\ GateInv
    BY DEF InvestigationInv
  <1>f. f \in FindingSets
    BY DEF TypeOK
  <1> USE DEF Goto
  <1>e. ASSUME node \in {"load_case", "check_completeness", "run_ucp_rules",
                         "build_transaction_dna", "cross_ibu_check", "fraud_triage"}
        PROVE  ~planned /\ ~Screened /\ action # READY_ACTION
    BY <1>e DEF ScreeningInv, ToolNodes, AfterRiskScored, AfterReview, GateInv
  <1>m. ASSUME ~planned, ~Screened, ~planned', UNCHANGED queue, action' # READY_ACTION,
               node' \notin ToolNodes, review' \/ node' \notin AfterRiskScored,
               Screened' = Screened /\ ScreeningCalled' = ScreeningCalled,
               ScreeningRefused' = ScreeningRefused
        PROVE  ScreeningInv'
    BY <1>m DEF ScreeningInv
  <1>1. CASE LoadCase \/ CheckCompleteness
    <2>1. /\ node \in {"load_case", "check_completeness"}
          /\ UNCHANGED <<dna, queue, planned, calls, f.sanctions>>
          /\ action' # READY_ACTION
          /\ node' \in {"save", "check_completeness", "run_ucp_rules"}
               \/ (review' /\ node' = "human_review_gate")
      BY <1>1, <1>e, <1>f DEF LoadCase, CheckCompleteness, HoldFor, FindingSets
    <2> QED
      BY <1>e, <2>1, ScreeningKept DEF ToolNodes, AfterRiskScored, AfterReview
  <1>2. CASE RunUcpRules
    <2>1. /\ node = "run_ucp_rules" /\ node' = "build_transaction_dna"
          /\ UNCHANGED <<queue, planned>>
      BY <1>2 DEF RunUcpRules
    <2>2. action' # READY_ACTION
      BY <1>2, <1>e DEF RunUcpRules, Unavailable, HoldFor
    <2>3. \E status \in CallStatuses : Record("ucp_rules", status)
      BY <1>2 DEF RunUcpRules, Unavailable, CallStatuses
    <2> QED
      BY <1>e, <1>m, <2>1, <2>2, <2>3, MandatoryCall DEF Mandatory, ToolNodes, AfterRiskScored
  <1>3. CASE BuildTransactionDna
    <2>1. /\ node = "build_transaction_dna" /\ node' = "cross_ibu_check"
          /\ UNCHANGED <<queue, planned>>
      BY <1>3 DEF BuildTransactionDna
    <2>2. action' # READY_ACTION
      BY <1>3, <1>e DEF BuildTransactionDna, Unavailable, HoldFor
    <2>3. \E status \in CallStatuses : Record("transaction_dna", status)
      BY <1>3 DEF BuildTransactionDna, Unavailable, CallStatuses
    <2> QED
      BY <1>e, <1>m, <2>1, <2>2, <2>3, MandatoryCall DEF Mandatory, ToolNodes, AfterRiskScored
  <1>4. CASE CrossIbuCheck
    <2>1. /\ node = "cross_ibu_check" /\ node' = "fraud_triage"
          /\ UNCHANGED <<queue, planned>>
      BY <1>4 DEF CrossIbuCheck
    <2>2. action' # READY_ACTION
      BY <1>4, <1>e DEF CrossIbuCheck, Unavailable, HoldFor
    <2>3. \/ UNCHANGED calls
          \/ \E status \in CallStatuses : Record("cross_ibu_check", status)
      BY <1>4 DEF CrossIbuCheck, Unavailable, CallStatuses
    <2>4. /\ Screened' = Screened /\ ScreeningCalled' = ScreeningCalled
          /\ ScreeningRefused' = ScreeningRefused
      <3>1. UNCHANGED calls =>
              /\ Screened' = Screened /\ ScreeningCalled' = ScreeningCalled
              /\ ScreeningRefused' = ScreeningRefused
        BY DEF Screened, ScreeningCalled, ScreeningRefused, Called, CallsMade
      <3> QED
        BY <2>3, <3>1, MandatoryCall DEF Mandatory
    <2> QED
      BY <1>e, <1>m, <2>1, <2>2, <2>4 DEF ToolNodes, AfterRiskScored
  <1>5. CASE FraudTriage
    <2>1. /\ node = "fraud_triage" /\ node' = "conditional_tool_calls"
          /\ planned' /\ UNCHANGED calls
      BY <1>5 DEF FraudTriage
    <2>2. ~Bedrock => "sanctions_screening" \in Selected'
      <3>1. PICK selection \in Plans : queue' = Ordered(selection)
        BY <1>5 DEF FraudTriage
      <3>2. ~Bedrock => "sanctions_screening" \in selection
        BY <3>1 DEF Plans, DeterministicPlan, Tools
      <3> QED
        BY <3>1, <3>2, ScreeningQueued
    <2>3. ~Screened' /\ ~ScreeningRefused' /\ (ScreeningCalled' => ScreeningCalled)
      BY <1>e, <2>1
      DEF ScreeningInv, Screened, ScreeningCalled, ScreeningRefused, Called, CallsMade
    <2> QED
      BY <1>e, <2>1, <2>2, <2>3 DEF ScreeningInv, ToolNodes
  <1>6. CASE CallTool
    <2> DEFINE tool == Head(queue)
    <2>1. /\ node = "conditional_tool_calls" /\ node' = node /\ dna # NoDna
          /\ queue # <<>> /\ queue' = Tail(queue) /\ UNCHANGED <<dna, planned, review, action>>
      BY <1>6 DEF CallTool
    <2>2. planned
      BY <2>1 DEF ScreeningInv, ToolNodes
    <2>3. tool \in Tools /\ Selected \subseteq Selected' \union {tool}
      <3>1. queue \in Seq(Tools)
        BY DEF TypeOK
      <3>2. tool \in Tools
        BY <2>1, <3>1
      <3> QED
        BY <2>1, <3>1, <3>2, HeadTaken
    <2>4. PICK status \in {"COMPLETED", "DATA_UNAVAILABLE"} :
            /\ Record(tool, status)
            /\ status = "COMPLETED" => Report(tool)
            /\ status = "DATA_UNAVAILABLE" => MayHang /\ UNCHANGED f
      BY <1>6 DEF CallTool
    <2> HIDE DEF tool
    <2>5. CallsMade' = CallsMade \union {[tool |-> tool, status |-> status]}
      BY <2>3, <2>4, CallMade DEF CallStatuses
    <2>6. Screened' => \A p \in dna.named : f'.sanctions[p] \in SanctionsResults
      <3>1. CASE tool = "sanctions_screening" /\ status = "COMPLETED"
        BY <2>1, <2>4, <3>1, ScreeningReport
      <3>2. CASE ~(tool = "sanctions_screening" /\ status = "COMPLETED")
        <4>1. [tool |-> tool, status |-> status]
                # [tool |-> "sanctions_screening", status |-> "COMPLETED"]
          BY <3>2
        <4>2. Screened' => Screened
          BY <2>5, <4>1 DEF Screened
        <4>3. UNCHANGED f.sanctions
          BY <2>1, <2>4, <3>2, ScreeningReport
        <4> QED
          BY <4>2, <4>3 DEF ScreeningInv
      <3> QED
        BY <3>1, <3>2
    <2>c. ScreeningCalled' <=> ScreeningCalled \/ tool = "sanctions_screening"
      <3> DEFINE call == [tool |-> tool, status |-> status]
      <3>1. call.tool = tool /\ CallsMade' = CallsMade \union {call}
        BY <2>5
      <3> HIDE DEF call
      <3> QED
        BY <3>1 DEF ScreeningCalled, Called
    <2>7. ~Bedrock => ScreeningCalled' \/ "sanctions_screening" \in Selected'
      BY <2>2, <2>3, <2>c DEF ScreeningInv
    <2>8. ~ScreeningRefused'
      <3>1. [tool |-> tool, status |-> status]
              # [tool |-> "sanctions_screening", status |-> "BUDGET_EXHAUSTED"]
        OBVIOUS
      <3> QED
        BY <2>5, <3>1 DEF ScreeningInv, ScreeningRefused
    <2> QED
      BY <2>1, <2>2, <2>6, <2>7, <2>8 DEF ScreeningInv, ToolNodes
  <1>7. CASE EndToolCalls \/ AggregateEvidence \/ RiskAssessment
    <2>1. /\ UNCHANGED <<dna, queue, planned, calls, f.sanctions>> /\ node \in ToolNodes
          /\ node' \in ToolNodes \union AfterRiskScored
      BY <1>7 DEF EndToolCalls, AggregateEvidence, RiskAssessment, ToolNodes, AfterRiskScored
    <2>2. planned
      BY <2>1 DEF ScreeningInv
    <2> QED
      BY <2>1, <2>2, ScreeningKept
  <1>8. CASE HumanReviewGate
    <2>1. /\ UNCHANGED <<dna, queue, planned, calls, f.sanctions, review, action>>
          /\ node = "human_review_gate"
          /\ node' = IF review THEN "save" ELSE "settlement_readiness"
      BY <1>8 DEF HumanReviewGate, stateVars
    <2> QED
      BY <2>1, ScreeningKept DEF ScreeningInv, ToolNodes, AfterRiskScored, AfterReview
  <1>9. CASE SettlementReadiness
    <2>1. /\ UNCHANGED <<dna, queue, planned, calls, f.sanctions, review>>
          /\ node = "settlement_readiness" /\ node' = "save"
      BY <1>9 DEF SettlementReadiness
    <2>2. ~review
      BY <2>1 DEF GateInv
    <2>3. planned
      BY <2>1, <2>2 DEF ScreeningInv, AfterRiskScored
    <2> QED
      BY <2>1, <2>3, ScreeningKept DEF AfterReview
  <1>10. CASE node \in AfterReview
    <2>1. UNCHANGED stateVars /\ node' \in AfterReview
      BY <1>10, GraphStateSettled
    <2>2. UNCHANGED <<dna, queue, planned, calls, f.sanctions, review, action>>
      BY <2>1 DEF stateVars
    <2> QED
      BY <2>1, <2>2, ScreeningKept DEF ScreeningInv, ToolNodes, AfterRiskScored, AfterReview
  <1>11. CASE Abort
    <2>1. /\ UNCHANGED <<dna, queue, planned, calls, f.sanctions, review, action>>
          /\ node' = "dead"
      BY <1>11 DEF Abort, stateVars
    <2> QED
      BY <2>1, ScreeningKept DEF ScreeningInv, ToolNodes, AfterRiskScored, AfterReview
  <1>12. ASSUME UNCHANGED <<dna, queue, planned, calls, f.sanctions, review, action, node>>
         PROVE  ScreeningInv'
    BY <1>12, ScreeningKept DEF ScreeningInv
  <1>13. ASSUME NEW t \in Types, ChangeDocument(t) PROVE ScreeningInv'
    BY <1>12, <1>13 DEF ChangeDocument, stateVars
  <1>14. CASE UNCHANGED vars
    BY <1>12, <1>14 DEF vars
  <1>15. CASE Save \/ AuditDecision \/ AuditRisk \/ AuditReview
    BY <1>10, <1>15 DEF Save, AuditDecision, AuditRisk, AuditReview, AuditRun, AfterReview
  <1> QED
    BY <1>1, <1>2, <1>3, <1>4, <1>5, <1>6, <1>7, <1>8, <1>9, <1>11, <1>13, <1>14, <1>15
    DEF Next, Step

\* Where the screening stands holds in every reachable state.
LEMMA ScreeningInvariance == Spec => []ScreeningInv
  <1>1. Init => ScreeningInv
    <2> SUFFICES ASSUME Init PROVE ScreeningInv
      OBVIOUS
    <2>1. CallsMade = {}
      BY DEF Init, CallsMade
    <2> QED
      BY <2>1
      DEF Init, ScreeningInv, Screened, ScreeningCalled, ScreeningRefused, Called, ToolNodes,
          AfterRiskScored
  <1> QED
    BY <1>1, ScreeningStep, InvestigationInvariance, PTL DEF Spec

\* A screening that answered cleared every named party of a run that recommends
\* readiness, whoever planned the calls and whatever else failed.
THEOREM AnsweredScreeningClears == Spec => []AnsweredScreeningIsClear
  <1>1. ASSUME InvestigationInv, ScreeningInv, action = READY_ACTION, Screened,
               NEW p \in dna.named
        PROVE  f.sanctions[p] = "NO_MATCH"
    <2>1. f.sanctions[p] \in SanctionsResults /\ p \in Parties
      BY <1>1, InvestigationAssumption DEF ScreeningInv, InvestigationInv, TypeOK
    <2>2. f.sanctions[p] \in {"NOT_RUN", "UNNAMED", "NO_MATCH"}
      BY <1>1, <2>1 DEF InvestigationInv, ReadyIsUnsuspicious, Unsuspicious
    <2> QED
      BY <2>1, <2>2, InvestigationAssumption
  <1>2. InvestigationInv /\ ScreeningInv => AnsweredScreeningIsClear
    BY <1>1 DEF AnsweredScreeningIsClear
  <1> QED
    BY <1>2, InvestigationInvariance, ScreeningInvariance, PTL

\* The deterministic planner never lets the screening out.
THEOREM DeterministicPlannerScreens == Spec => []PlannerAlwaysScreens
  <1>1. InvestigationInv /\ ScreeningInv => PlannerAlwaysScreens
    BY NothingQueued DEF InvestigationInv, ReadyIsComplete, ScreeningInv, PlannerAlwaysScreens
  <1> QED
    BY <1>1, InvestigationInvariance, ScreeningInvariance, PTL

\* For every planner, and whatever hangs: a recommendation of readiness that does
\* not rest on a clear screening of every named party shows in the audit trail.
THEOREM UnscreenedReadinessIsOnRecord == Spec => []UnscreenedIsOnRecord
  <1>1. ASSUME InvestigationInv, ScreeningInv, ScreeningCalled, ~Screened
        PROVE  \E i \in DOMAIN audit :
                 audit[i] = Event("TOOL_CALLED",
                   [tool |-> "sanctions_screening", status |-> "DATA_UNAVAILABLE"])
    <2>1. calls \in Seq(Calls) /\ audit \in Seq(Events)
      BY <1>1 DEF InvestigationInv, TypeOK
    <2>2. PICK i \in DOMAIN calls : calls[i].tool = "sanctions_screening"
      BY <1>1 DEF ScreeningCalled, Called, CallsMade
    <2>3. calls[i] \in Calls /\ calls[i] \in CallsMade
      BY <2>1 DEF CallsMade
    <2>4. calls[i].status \in CallStatuses
          /\ calls[i] = [tool |-> calls[i].tool, status |-> calls[i].status]
      BY <2>3 DEF Calls
    <2>5. calls[i].status \notin {"COMPLETED", "BUDGET_EXHAUSTED"}
      BY <1>1, <2>2, <2>3, <2>4 DEF ScreeningInv, Screened, ScreeningRefused
    <2>6. calls[i] = [tool |-> "sanctions_screening", status |-> "DATA_UNAVAILABLE"]
      BY <2>2, <2>4, <2>5 DEF CallStatuses
    <2>7. i \in DOMAIN audit /\ audit[i] = Event("TOOL_CALLED", calls[i])
      BY <1>1, <2>1 DEF InvestigationInv, CallsAudited
    <2> QED
      BY <2>6, <2>7
  <1>2. InvestigationInv /\ ScreeningInv /\ AnsweredScreeningIsClear /\ PlannerAlwaysScreens =>
          UnscreenedIsOnRecord
    BY <1>1 DEF AnsweredScreeningIsClear, PlannerAlwaysScreens, UnscreenedIsOnRecord
  <1> QED
    BY <1>2, InvestigationInvariance, ScreeningInvariance, AnsweredScreeningClears,
       DeterministicPlannerScreens, PTL

-------------------------------------------------------------------------------
(* The two readings of the documents, and the writes of a run *)

\* Before anything changes the engine asks what the completeness check asked, but
\* for documents that are PARTIAL or wanted in several copies.
LEMMA EngineAgrees ==
  ASSUME TypeOK, repo = loaded, EngineMissing(repo) # {},
         \A t \in Required : loaded[t] \in {"PARTIAL", "EXTRACTED"}
  PROVE  \E t \in Required : loaded[t] = "PARTIAL" \/ t \in lc.plural
  <1>1. PICK t \in lc.required : lc.listed /\ (repo[t] # "EXTRACTED" \/ t \in lc.plural)
    BY DEF EngineMissing
  <1>2. t \in Required
    BY <1>1 DEF Required
  <1> QED
    BY <1>1, <1>2

LEMMA RuleVerdictStep ==
  InvestigationInv /\ RuleVerdictInv /\ [Next]_vars => RuleVerdictInv'
  <1> SUFFICES ASSUME InvestigationInv, RuleVerdictInv, [Next]_vars PROVE RuleVerdictInv'
    OBVIOUS
  <1> TypeOK
    BY DEF InvestigationInv
  <1>f. f \in FindingSets /\ docChanges \in 0..MaxDocChanges /\ MaxDocChanges \in Nat
    <2>1. f \in FindingSets /\ docChanges \in 0..MaxDocChanges
      BY DEF TypeOK
    <2> QED
      BY <2>1, InvestigationAssumption
  <1> USE DEF Goto
  <1>k. ASSUME UNCHANGED <<repo, docChanges, lc, loaded, f.compliance>>,
               \/ node \in {"check_completeness"} \union AfterCompleteness
               \/ node' \notin {"check_completeness"} \union AfterCompleteness,
               node' # "run_ucp_rules", node' = "load_case" => node = "load_case"
        PROVE  RuleVerdictInv'
    BY <1>k DEF RuleVerdictInv, IncompleteVerdictExplained, Required
  <1>1. CASE LoadCase
    <2>1. /\ node' \in {"save", "check_completeness"} /\ loaded' = repo
          /\ UNCHANGED <<repo, docChanges, lc, f>>
      BY <1>1 DEF LoadCase, docVars
    <2>2. f.compliance.verdict # "INCOMPLETE"
      BY <1>1 DEF RuleVerdictInv, LoadCase
    <2> QED
      BY <2>1, <2>2 DEF RuleVerdictInv, IncompleteVerdictExplained, AfterCompleteness
  <1>2. CASE CheckCompleteness
    <2>1. /\ node = "check_completeness" /\ UNCHANGED <<repo, docChanges, lc, loaded>>
          /\ f'.compliance = f.compliance
          /\ node' \in {"run_ucp_rules", "human_review_gate"}
      BY <1>2, <1>f DEF CheckCompleteness, docVars, FindingSets
    <2>2. node' = "run_ucp_rules" => CompletenessOf(loaded) = "COMPLETE"
      BY <1>2 DEF CheckCompleteness
    <2>3. CompletenessOf(loaded) = "COMPLETE" =>
            \A t \in Required' : loaded[t] \in {"PARTIAL", "EXTRACTED"}
      BY <2>1 DEF CompletenessOf, Completed, Required
    <2> QED
      BY <2>1, <2>2, <2>3
      DEF RuleVerdictInv, IncompleteVerdictExplained, Required, AfterCompleteness
  <1>3. CASE RunUcpRules
    <2>1. /\ node = "run_ucp_rules" /\ node' = "build_transaction_dna"
          /\ UNCHANGED <<repo, docChanges, lc, loaded>>
      BY <1>3 DEF RunUcpRules, docVars
    <2>2. \/ UNCHANGED f
          \/ \E v \in Verdicts : f' = [f EXCEPT !.compliance = EngineResult(v)]
      BY <1>3 DEF RunUcpRules
    <2>3. ASSUME NEW v \in Verdicts, f' = [f EXCEPT !.compliance = EngineResult(v)],
                 f'.compliance.verdict = "INCOMPLETE", docChanges = 0
          PROVE  \E t \in Required : loaded[t] = "PARTIAL" \/ t \in lc.plural
      <3>1. f'.compliance = EngineResult(v)
        BY <1>f, <2>3 DEF FindingSets
      <3>2. EngineMissing(repo) # {}
        BY <2>3, <3>1 DEF EngineResult
      <3>3. repo = loaded /\ \A t \in Required : loaded[t] \in {"PARTIAL", "EXTRACTED"}
        BY <2>1, <2>3 DEF RuleVerdictInv, AfterCompleteness
      <3> QED
        BY <3>2, <3>3, EngineAgrees
    <2>4. IncompleteVerdictExplained'
      BY <1>f, <2>1, <2>2, <2>3 DEF RuleVerdictInv, IncompleteVerdictExplained, Required
    <2> QED
      BY <2>1, <2>4 DEF RuleVerdictInv, AfterCompleteness
  <1>4. CASE BuildTransactionDna \/ CrossIbuCheck \/ FraudTriage
    <2>1. /\ node \in AfterCompleteness /\ node' \notin {"load_case", "run_ucp_rules"}
          /\ UNCHANGED <<repo, docChanges, lc, loaded>>
      BY <1>4
      DEF BuildTransactionDna, CrossIbuCheck, FraudTriage, docVars, AfterCompleteness,
          AfterRules, AfterDna, AfterMatch
    <2>2. f'.compliance = f.compliance
      BY <1>4, <1>f DEF BuildTransactionDna, CrossIbuCheck, FraudTriage, FindingSets
    <2> QED
      BY <1>k, <2>1, <2>2
  <1>5. CASE CallTool
    <2>1. /\ node = "conditional_tool_calls" /\ UNCHANGED <<node, repo, docChanges, lc, loaded>>
      BY <1>5 DEF CallTool, docVars
    <2>2. f'.compliance = f.compliance
      BY <1>5, <1>f, ReportKeeps DEF CallTool
    <2> QED
      BY <1>k, <2>1, <2>2
      DEF AfterCompleteness, AfterRules, AfterDna, AfterMatch
  <1>6. CASE EndToolCalls \/ AggregateEvidence \/ RiskAssessment
    <2>1. /\ node \in AfterCompleteness /\ node' \notin {"load_case", "run_ucp_rules"}
          /\ UNCHANGED <<repo, docChanges, lc, loaded, f>>
      BY <1>6
      DEF EndToolCalls, AggregateEvidence, RiskAssessment, docVars, AfterCompleteness,
          AfterRules, AfterDna, AfterMatch, AfterTools
    <2> QED
      BY <1>k, <2>1
  <1>7. CASE HumanReviewGate \/ SettlementReadiness
    <2>1. /\ node \in AfterCompleteness /\ node' \notin {"load_case", "run_ucp_rules"}
          /\ UNCHANGED <<repo, docChanges, lc, loaded, f>>
      BY <1>7
      DEF HumanReviewGate, SettlementReadiness, docVars, stateVars, AfterCompleteness,
          AfterRules, AfterDna, AfterMatch, AfterTools, AfterRiskScored
    <2> QED
      BY <1>k, <2>1
  <1>8. CASE Save \/ AuditDecision \/ AuditRisk \/ AuditReview \/ Abort
    <2>1. /\ node' \in AfterReview /\ UNCHANGED <<repo, docChanges, lc, loaded, f>>
      BY <1>8
      DEF Save, AuditDecision, AuditRisk, AuditReview, AuditRun, AfterRisk, Abort, docVars,
          stateVars, AfterReview
    <2>2. node' \notin {"load_case", "check_completeness"} \union AfterCompleteness
      BY <2>1
      DEF AfterReview, AfterCompleteness, AfterRules, AfterDna, AfterMatch, AfterTools,
          AfterRiskScored
    <2> QED
      BY <1>k, <2>1, <2>2 DEF AfterCompleteness
  <1>9. ASSUME NEW t \in Types, ChangeDocument(t) PROVE RuleVerdictInv'
    <2>1. docChanges' > 0 /\ UNCHANGED <<lc, node, loaded, f>>
      BY <1>9, <1>f DEF ChangeDocument, stateVars
    <2> QED
      BY <2>1 DEF RuleVerdictInv, IncompleteVerdictExplained, Required
  <1>10. CASE UNCHANGED vars
    BY <1>10 DEF vars, RuleVerdictInv, IncompleteVerdictExplained, Required
  <1> QED
    BY <1>1, <1>2, <1>3, <1>4, <1>5, <1>6, <1>7, <1>8, <1>9, <1>10 DEF Next, Step

\* A run whose rules were not evaluated although its documents were complete has
\* a document that shows why, or its documents changed.
THEOREM IncompleteVerdictsAreExplained == Spec => []IncompleteVerdictExplained
  <1>1. Init => RuleVerdictInv
    BY DEF Init, RuleVerdictInv, IncompleteVerdictExplained, AfterCompleteness, AfterRules,
           AfterDna, AfterMatch, AfterTools, AfterRiskScored, NoFindings
  <1>2. RuleVerdictInv => IncompleteVerdictExplained
    BY DEF RuleVerdictInv
  <1> QED
    BY <1>1, <1>2, RuleVerdictStep, InvestigationInvariance, PTL DEF Spec

\* A call, once recorded, stays recorded.
LEMMA CallsStay ==
  ASSUME TypeOK, [Next]_vars
  PROVE  CallsMade \subseteq CallsMade'
  <1>1. ASSUME NEW tool \in Tools \union Mandatory, NEW status \in CallStatuses,
               Record(tool, status)
        PROVE  CallsMade \subseteq CallsMade'
    BY <1>1, CallMade
  <1>2. UNCHANGED calls => CallsMade \subseteq CallsMade'
    BY DEF CallsMade
  <1> QED
    BY <1>1, <1>2, CallOrNot

LEMMA WritesStep == InvestigationInv /\ WritesInv /\ [Next]_vars => WritesInv'
  <1> SUFFICES ASSUME InvestigationInv, WritesInv, [Next]_vars PROVE WritesInv'
    OBVIOUS
  <1> TypeOK
    BY DEF InvestigationInv
  <1> USE DEF Goto
  <1>s. stored \in [compliance : ComplianceVerdicts, dna : DnaResults \union {NoDna}]
    BY DEF TypeOK
  <1>c. \A tool : Called(tool) => Called(tool)'
    BY CallsStay DEF Called
  <1>r. ASSUME NEW tool \in Mandatory, NEW status \in CallStatuses, Record(tool, status)
        PROVE  Called(tool)'
    <2>1. [tool |-> tool, status |-> status] \in CallsMade'
      BY <1>r, CallMade
    <2>2. [tool |-> tool, status |-> status].tool = tool
      OBVIOUS
    <2> QED
      BY <2>1, <2>2 DEF Called
  <1>k. ASSUME UNCHANGED stored,
               \/ node' = node \/ node' = "dead"
               \/ /\ node # "dead"
                  /\ node' \notin {"load_case", "check_completeness", "run_ucp_rules",
                                   "build_transaction_dna"}
        PROVE  WritesInv'
    BY <1>c, <1>k DEF WritesInv
  <1>1. CASE LoadCase \/ CheckCompleteness
    <2>1. /\ node \in {"load_case", "check_completeness"} /\ UNCHANGED stored
      BY <1>1 DEF LoadCase, CheckCompleteness, storeVars
    <2> QED
      BY <1>c, <2>1 DEF WritesInv
  <1>2. CASE RunUcpRules
    <2>1. node = "run_ucp_rules" /\ node' = "build_transaction_dna"
      BY <1>2 DEF RunUcpRules
    <2>2. \E status \in CallStatuses : Record("ucp_rules", status)
      BY <1>2 DEF RunUcpRules, Unavailable, CallStatuses
    <2>3. stored'.dna = stored.dna
      BY <1>2, <1>s DEF RunUcpRules, LateWrite
    <2>4. Called("ucp_rules")'
      BY <1>r, <2>2 DEF Mandatory
    <2> QED
      BY <2>1, <2>3, <2>4 DEF WritesInv
  <1>3. CASE BuildTransactionDna
    <2>1. node = "build_transaction_dna" /\ node' = "cross_ibu_check"
      BY <1>3 DEF BuildTransactionDna
    <2>2. \E status \in CallStatuses : Record("transaction_dna", status)
      BY <1>3 DEF BuildTransactionDna, Unavailable, CallStatuses
    <2>3. stored'.compliance = stored.compliance
      BY <1>3, <1>s DEF BuildTransactionDna, LateWrite
    <2>4. Called("transaction_dna")'
      BY <1>r, <2>2 DEF Mandatory
    <2> QED
      BY <1>c, <2>1, <2>3, <2>4 DEF WritesInv
  <1>4. CASE CrossIbuCheck \/ FraudTriage \/ CallTool \/ EndToolCalls
    BY <1>4, <1>k DEF CrossIbuCheck, FraudTriage, CallTool, EndToolCalls, storeVars
  <1>5. CASE AggregateEvidence \/ RiskAssessment \/ HumanReviewGate \/ SettlementReadiness
    BY <1>5, <1>k
    DEF AggregateEvidence, RiskAssessment, HumanReviewGate, SettlementReadiness, storeVars
  <1>6. CASE Save \/ AuditDecision \/ AuditRisk \/ AuditReview
    BY <1>6, <1>k
    DEF Save, AuditDecision, AuditRisk, AuditReview, AuditRun, AfterRisk, storeVars
  <1>7. CASE Abort
    <2>1. node' = "dead" /\ node # "dead"
      BY <1>7 DEF Abort
    <2>2. CASE UNCHANGED stored
      BY <1>k, <2>1, <2>2
    <2>3. CASE node = "run_ucp_rules" /\ LateWrite("compliance", EngineWrites)
      <3>1. stored'.dna = stored.dna /\ stored.dna = NoDna
        BY <1>s, <2>3 DEF LateWrite, WritesInv
      <3> QED
        BY <2>1, <3>1 DEF WritesInv
    <2>4. CASE node = "build_transaction_dna" /\ LateWrite("dna", DnaResults)
      <3>1. stored'.compliance = stored.compliance
        BY <1>s, <2>4 DEF LateWrite
      <3> QED
        BY <1>c, <2>1, <2>4, <3>1 DEF WritesInv
    <2> QED
      BY <1>7, <2>2, <2>3, <2>4 DEF Abort
  <1>8. ASSUME NEW t \in Types, ChangeDocument(t) PROVE WritesInv'
    BY <1>8, <1>k DEF ChangeDocument, storeVars
  <1>9. CASE UNCHANGED vars
    BY <1>9, <1>k DEF vars
  <1> QED
    BY <1>1, <1>2, <1>3, <1>4, <1>5, <1>6, <1>7, <1>8, <1>9 DEF Next, Step

\* Dead or ended, a run's trail holds its calls in order and stands for all it
\* wrote but the write of the call it died in; a regular end is announced.
THEOREM TrailAccountsForEveryRun == Spec => []TrailAccountsForRun
  <1>1. Init => WritesInv
    BY DEF Init, WritesInv
  <1>2. WritesInv => WritesAccounted
    BY DEF WritesInv, WritesAccounted, UnauditedWrites
  <1>3. InvestigationInv => CallsAudited
    BY DEF InvestigationInv
  <1>4. CallsAudited /\ WritesAccounted /\ OutcomeAudited => TrailAccountsForRun
    BY DEF TrailAccountsForRun
  <1> QED
    BY <1>1, <1>2, <1>3, <1>4, WritesStep, InvestigationInvariance, OutcomeIsAudited, PTL
    DEF Spec

-------------------------------------------------------------------------------
(* Investigation implements Recommendation *)

\* The initial states map to the promise's.
LEMMA InitPromise == Init => Promise!Init
  BY DEF Init, Promise!Init, Audited, OutcomeEvents

\* Before the outcome is saved a step gives the recommendation, or nothing.
LEMMA RecommendStep ==
  ASSUME InvestigationInv, InvestigationInv', [Next]_vars, node \notin AfterReview
  PROVE  Promise!Recommend \/ UNCHANGED Promise!vars
  <1>1. /\ TypeOK /\ GateInv /\ OutcomeInv /\ TypeOK'
    BY DEF InvestigationInv
  <1>2. ~saved
    BY <1>1 DEF OutcomeInv
  <1>3. /\ UNCHANGED <<saved, caseStatus>>
        /\ \A e \in OutcomeEvents : Audited(e)' <=> Audited(e)
    BY <1>1, <1>2, OutcomeUntouched DEF OutcomeEvents
  <1>4. action \in {"none", HOLD_ACTION} /\ (action = HOLD_ACTION => action' = HOLD_ACTION)
    BY <1>1, ReviewKept DEF GateInv, TypeOK
  <1>5. action' \in {"none", HOLD_ACTION, READY_ACTION}
    BY <1>1 DEF TypeOK
  <1>6. {e \in OutcomeEvents : Audited(e)'} = {e \in OutcomeEvents : Audited(e)}
    BY <1>3
  <1> QED
    BY <1>2, <1>3, <1>4, <1>5, <1>6 DEF Promise!Recommend, Promise!vars

\* Saving the run records the recommendation; the events about it follow.
LEMMA RecordStep ==
  ASSUME InvestigationInv, Save
  PROVE  Promise!Record
  <1>1. node = "save" /\ ~saved
    BY DEF Save, InvestigationInv, OutcomeInv
  <1> QED
    BY <1>1 DEF Save, stateVars, Promise!Record, Audited

\* An event appended to the trail is announced.
LEMMA AnnounceStep ==
  ASSUME InvestigationInv, AuditDecision \/ AuditRisk \/ AuditReview
  PROVE  Promise!AnnounceDecision \/ Promise!AnnounceRisk \/ Promise!AnnounceReview
  <1> DEFINE announced == {e \in OutcomeEvents : Audited(e)}
  <1>1. audit \in Seq(Events) /\ OutcomeInv
    BY DEF InvestigationInv, TypeOK
  <1>2. UNCHANGED <<action, saved, caseStatus>>
    BY DEF AuditDecision, AuditRisk, AuditReview, AuditRun, stateVars, storeVars
  <1>3. CASE AuditDecision
    <2>1. node = "audit_decision" /\ audit' = Append(audit, Event("AGENT_DECISION", stop))
      BY <1>3 DEF AuditDecision, AuditRun
    <2>2. \A e : Audited(e)' <=> (Audited(e) \/ e = "AGENT_DECISION")
      BY <1>1, <2>1, AuditedAppend
    <2>3. saved /\ announced = {}
      BY <1>1, <2>1 DEF OutcomeInv, OutcomeEvents, AfterReview
    <2>4. announced' = {"AGENT_DECISION"}
      BY <2>2, <2>3 DEF OutcomeEvents
    <2> QED
      BY <1>2, <2>3, <2>4 DEF Promise!AnnounceDecision
  <1>4. CASE AuditRisk
    <2>1. node = "audit_risk" /\ audit' = Append(audit, Event("RISK_SCORED", band))
      BY <1>4 DEF AuditRisk, AuditRun
    <2>2. \A e : Audited(e)' <=> (Audited(e) \/ e = "RISK_SCORED")
      BY <1>1, <2>1, AuditedAppend
    <2>3. announced = {"AGENT_DECISION"}
      BY <1>1, <2>1 DEF OutcomeInv, OutcomeEvents
    <2>4. announced' = announced \union {"RISK_SCORED"}
      BY <2>2 DEF OutcomeEvents
    <2> QED
      BY <1>2, <2>3, <2>4 DEF Promise!AnnounceRisk
  <1>5. CASE AuditReview
    <2>1. node = "audit_review" /\ audit' = Append(audit, Event("HUMAN_REVIEW_REQUIRED", stop))
      BY <1>5 DEF AuditReview, AuditRun
    <2>2. \A e : Audited(e)' <=> (Audited(e) \/ e = "HUMAN_REVIEW_REQUIRED")
      BY <1>1, <2>1, AuditedAppend
    <2>3. /\ "AGENT_DECISION" \in announced /\ "HUMAN_REVIEW_REQUIRED" \notin announced
          /\ caseStatus = HOLD_ACTION
      BY <1>1, <2>1 DEF OutcomeInv, OutcomeEvents, AfterReview
    <2>4. announced' = announced \union {"HUMAN_REVIEW_REQUIRED"}
      BY <2>2 DEF OutcomeEvents
    <2> QED
      BY <1>2, <2>3, <2>4 DEF Promise!AnnounceReview
  <1> QED
    BY <1>3, <1>4, <1>5

\* Every step of a run is a step of the promise, or invisible to it.
LEMMA PromiseStep ==
  InvestigationInv /\ InvestigationInv' /\ [Next]_vars => [Promise!Next]_(Promise!vars)
  <1> SUFFICES ASSUME InvestigationInv, InvestigationInv', [Next]_vars
               PROVE  Promise!Next \/ UNCHANGED Promise!vars
    OBVIOUS
  <1>1. UNCHANGED <<action, saved, caseStatus, audit>> => UNCHANGED Promise!vars
    BY DEF Promise!vars, Audited
  <1>2. CASE node \notin AfterReview
    BY <1>2, RecommendStep DEF Promise!Next
  <1>3. CASE Save
    BY <1>3, RecordStep DEF Promise!Next
  <1>4. CASE AuditDecision \/ AuditRisk \/ AuditReview
    BY <1>4, AnnounceStep DEF Promise!Next
  <1>5. CASE Abort
    BY <1>1, <1>5 DEF Abort, stateVars
  <1>6. ASSUME NEW t \in Types, ChangeDocument(t)
        PROVE  UNCHANGED Promise!vars
    BY <1>1, <1>6 DEF ChangeDocument, stateVars, storeVars
  <1>7. CASE UNCHANGED vars
    BY <1>1, <1>7 DEF vars
  <1>8. CASE node \in AfterReview
    <2>1. /\ ~LoadCase /\ ~CheckCompleteness /\ ~RunUcpRules /\ ~BuildTransactionDna
          /\ ~CrossIbuCheck /\ ~FraudTriage /\ ~CallTool /\ ~EndToolCalls
          /\ ~AggregateEvidence /\ ~RiskAssessment /\ ~HumanReviewGate
          /\ ~SettlementReadiness
      BY <1>8
      DEF LoadCase, CheckCompleteness, RunUcpRules, BuildTransactionDna, CrossIbuCheck,
          FraudTriage, CallTool, EndToolCalls, AggregateEvidence, RiskAssessment,
          HumanReviewGate, SettlementReadiness, AfterReview
    <2> QED
      BY <1>3, <1>4, <1>5, <1>6, <1>7, <2>1 DEF Next, Step
  <1> QED
    BY <1>2, <1>8

\* The investigation implements the promise: whatever is checked, fails, hangs or
\* changes, a recommendation is given once, recorded as given and then announced.
THEOREM RunImplementsPromise == Spec => RecommendationSpec
  BY InitPromise, PromiseStep, InvestigationInvariance, PTL
  DEF Spec, RecommendationSpec, Promise!Spec

-------------------------------------------------------------------------------
(* The end of a run *)

\* At most one call of each of the four tools is selected.
LEMMA OrderedLength ==
  ASSUME NEW selection
  PROVE  Len(Ordered(selection)) \in 0..4
  <1>1. \A t \in Tools : Chosen(t, selection) \in Seq(Tools) /\ Len(Chosen(t, selection)) \in 0..1
    BY DEF Chosen
  <1> DEFINE a == Chosen("price_benchmark", selection)
             b == Chosen("vessel_verification", selection)
             c == Chosen("entity_verification", selection)
             d == Chosen("sanctions_screening", selection)
  <1>2. /\ a \in Seq(Tools) /\ Len(a) \in 0..1 /\ b \in Seq(Tools) /\ Len(b) \in 0..1
        /\ c \in Seq(Tools) /\ Len(c) \in 0..1 /\ d \in Seq(Tools) /\ Len(d) \in 0..1
    BY <1>1 DEF Tools
  <1>3. Ordered(selection) = a \o b \o c \o d
    BY DEF Ordered
  <1> HIDE DEF a, b, c, d
  <1>4. a \o b \in Seq(Tools) /\ Len(a \o b) = Len(a) + Len(b)
    BY <1>2, ConcatProperties
  <1>5. (a \o b) \o c \in Seq(Tools) /\ Len((a \o b) \o c) = Len(a \o b) + Len(c)
    BY <1>2, <1>4, ConcatProperties
  <1>6. Len(((a \o b) \o c) \o d) = Len((a \o b) \o c) + Len(d)
    BY <1>2, <1>5, ConcatProperties
  <1>7. \A i, j, k, l \in 0..1 : ((i + j) + k) + l \in 0..4
    OBVIOUS
  <1>8. Len(((a \o b) \o c) \o d) = ((Len(a) + Len(b)) + Len(c)) + Len(d)
    BY <1>4, <1>5, <1>6, Zenon
  <1>9. Len(((a \o b) \o c) \o d) \in 0..4
    BY <1>2, <1>7, <1>8, Zenon
  <1> QED
    BY <1>3, <1>9

LEMMA ForwardStep ==
  ASSUME TypeOK, Next
  PROVE  \/ StepsLeft' \in 0..StepsLeft - 1
         \/ UNCHANGED <<lc, budget, node, stateVars, storeVars, audit>>
  <1>a. node \in Nodes /\ queue \in Seq(Tools)
    BY DEF TypeOK
  <1>b. Len(queue) \in Nat
    BY <1>a, LenProperties
  <1>1. CASE LoadCase \/ CheckCompleteness \/ RunUcpRules \/ BuildTransactionDna \/ CrossIbuCheck
    BY <1>1 DEF LoadCase, CheckCompleteness, RunUcpRules, BuildTransactionDna, CrossIbuCheck,
                Goto, StepsLeft, StepsAhead
  <1>2. CASE FraudTriage
    <2>1. PICK selection \in Plans : queue' = Ordered(selection)
      BY <1>2 DEF FraudTriage
    <2>2. node = "fraud_triage" /\ node' = "conditional_tool_calls" /\ Len(queue') \in 0..4
      BY <1>2, <2>1, OrderedLength DEF FraudTriage, Goto
    <2>3. StepsLeft = 14 /\ StepsLeft' = 9 + Len(queue')
      BY <2>2 DEF StepsLeft, StepsAhead
    <2>4. \A n \in 0..4 : 9 + n \in 0..14 - 1
      OBVIOUS
    <2> QED
      BY <2>2, <2>3, <2>4, Zenon
  <1>3. CASE CallTool
    <2>1. /\ node = "conditional_tool_calls" /\ node' = node /\ queue # <<>>
          /\ queue' = Tail(queue) /\ queue \in Seq(Tools)
      BY <1>3 DEF CallTool, TypeOK
    <2>2. Len(queue') = Len(queue) - 1 /\ Len(queue) \in Nat \ {0}
      BY <2>1
    <2> QED
      BY <2>1, <2>2 DEF StepsLeft, StepsAhead
  <1>4. CASE EndToolCalls
    <2>1. node = "conditional_tool_calls" /\ node' = "aggregate_evidence"
      BY <1>4 DEF EndToolCalls, Goto
    <2> QED
      BY <1>b, <2>1 DEF StepsLeft, StepsAhead
  <1>5. CASE AggregateEvidence \/ RiskAssessment \/ HumanReviewGate \/ SettlementReadiness \/ Save
    <2>1. \/ node = "aggregate_evidence" /\ node' = "risk_assessment"
          \/ node = "risk_assessment" /\ node' = "human_review_gate"
          \/ node = "human_review_gate" /\ node' \in {"save", "settlement_readiness"}
          \/ node = "settlement_readiness" /\ node' = "save"
          \/ node = "save" /\ node' = "audit_decision"
      BY <1>5 DEF AggregateEvidence, RiskAssessment, HumanReviewGate, SettlementReadiness, Save,
                  Goto
    <2> QED
      BY <2>1 DEF StepsLeft, StepsAhead
  <1>6. CASE AuditDecision \/ AuditRisk \/ AuditReview
    BY <1>6 DEF AuditDecision, AuditRisk, AuditReview, AuditRun, AfterRisk, Goto, StepsLeft,
                StepsAhead
  <1>7. CASE Abort
    <2>1. node' = "dead" /\ node \in Nodes \ {"done", "dead"}
      BY <1>7, <1>a DEF Abort, Goto
    <2> QED
      BY <1>b, <2>1 DEF Nodes, StepsLeft, StepsAhead
  <1>8. ASSUME NEW t \in Types, ChangeDocument(t)
        PROVE  UNCHANGED <<lc, budget, node, stateVars, storeVars, audit>>
    BY <1>8 DEF ChangeDocument
  <1> QED
    BY <1>1, <1>2, <1>3, <1>4, <1>5, <1>6, <1>7, <1>8 DEF Next, Step

\* A run takes at most nineteen steps, for every plan, budget and failure: the half
\* of its end that needs no fairness.
THEOREM RunsGoForward == Spec => RunsForward
  <1>1. TypeOK /\ [Next]_vars =>
          [\/ StepsLeft' \in 0..StepsLeft - 1
           \/ UNCHANGED <<lc, budget, node, stateVars, storeVars, audit>>]_vars
    BY ForwardStep
  <1> QED
    BY <1>1, RunTypeCorrect, PTL DEF Spec, RunsForward
===============================================================================
