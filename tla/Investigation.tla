----------------------------- MODULE Investigation -----------------------------
(***************************************************************************)
(* One run of the investigation agent over one case: the LangGraph of      *)
(* investigation_orchestrator.py, one action per node, with a node that    *)
(* calls tools taking one action per call.  While it runs, the document    *)
(* pipeline may change the stored documents, any tool may fail or hang     *)
(* until its timeout, and the process may die between two steps.           *)
(*                                                                         *)
(* What a check reports is chosen from the CONSTANT sets; what the agent   *)
(* does with it is RiskRules.                                              *)
(***************************************************************************)
EXTENDS RiskRules, Sequences

CONSTANTS
  Types,         \* document types; one document of each at most
  LC,            \* the letter of credit
  DocStates,     \* states a stored document may have
  LcTerms,       \* what the LC asks for: [listed, required, plural]
  Budgets,       \* tool budgets of a run
  Verdicts,      \* findings of the UCP engine: [material, waivable, other]
  DnaResults,    \* fingerprints: [attention, bl, highValue, vesselConflict, named]
  Matches, Prices, Vessels, EntityResults, SanctionsResults,
  NoDna,         \* no fingerprint: None
  Bedrock,       \* TRUE: an LLM plans; FALSE: the deterministic planner
  MayHang,       \* a fraud tool may give no result at all
  MayFail,       \* a store or the registry may fail
  MaxDocChanges  \* bound: documents the pipeline changes during the run

READY_ACTION == "READY FOR BANK SETTLEMENT WORKFLOW"
HOLD_ACTION  == "HOLD - REVIEW REQUIRED"

\* PENDING: any status before the end of extraction.  FAILED_KEPT: a failure
\* after the fields were stored.
AllDocStates == {"ABSENT", "PENDING", "FAILED", "FAILED_KEPT", "PARTIAL", "EXTRACTED"}

Tools == {"price_benchmark", "vessel_verification", "entity_verification",
          "sanctions_screening"}

Mandatory == {"ucp_rules", "transaction_dna", "cross_ibu_check"}

CallStatuses == {"COMPLETED", "DATA_UNAVAILABLE", "BUDGET_EXHAUSTED"}

Calls == [tool : Tools \union Mandatory, status : CallStatuses]

ASSUME InvestigationAssumption ==
  /\ LC \in Types
  /\ DocStates \subseteq AllDocStates
  /\ \A t \in LcTerms : /\ t.listed \in BOOLEAN
                        /\ t.required \subseteq Types
                        /\ t.plural \subseteq t.required
  /\ Budgets \subseteq 0..12
  /\ \A v \in Verdicts : {v.material, v.waivable, v.other} \subseteq Nat
  /\ \A d \in DnaResults : /\ d.named \subseteq Parties
                           /\ {d.attention, d.bl, d.highValue, d.vesselConflict} \subseteq BOOLEAN
                           /\ d.vesselConflict => d.attention
  /\ NoDna \notin DnaResults
  /\ Matches \subseteq MatchLevels \ {"NOT_RUN"}
  /\ Prices \subseteq PriceSignals \ {"NOT_RUN"}
  /\ Vessels \subseteq VesselSignals \ {"NOT_RUN"}
  /\ EntityResults \subseteq EntitySignals \ {"NOT_RUN"}
  /\ SanctionsResults \subseteq SanctionsSignals \ {"NOT_RUN", "UNNAMED"}
  /\ {Bedrock, MayHang, MayFail} \subseteq BOOLEAN
  /\ MaxDocChanges \in Nat

VARIABLES
  repo,        \* repo[t]: the stored document of type t
  docChanges,  \* changes the pipeline made so far
  lc,          \* the terms of the letter of credit
  budget,      \* the tool budget the run was given
  node,        \* the node that runs next
  loaded,      \* loaded[t]: the document as load_case read it
  dna,         \* transaction_dna
  f,           \* the findings (see RiskRules)
  queue,       \* selected tools not called yet, in calling order
  planned,     \* a tool selection plan exists
  remaining,   \* tool_budget_remaining
  calls,       \* tool_calls_made
  cited,       \* sources of the evidence records
  band,        \* risk_band, NONE before risk_assessment
  review,      \* requires_human_review
  action,      \* recommended_action
  stop,        \* stop_reason
  stored,      \* what the compliance and DNA stores hold
  saved,       \* the run's InvestigationResponse is stored
  caseStatus,  \* cases.status
  audit        \* audit events of the run, in order

docVars == <<repo, docChanges, lc, budget>>
stateVars == <<loaded, dna, f, queue, planned, remaining, calls, cited, band, review,
               action, stop>>
storeVars == <<stored, saved, caseStatus>>
vars == <<repo, docChanges, lc, budget, node, loaded, dna, f, queue, planned, remaining,
          calls, cited, band, review, action, stop, stored, saved, caseStatus, audit>>

NoFindings ==
  [completeness |-> "PENDING_LC",
   compliance |-> [verdict |-> "NOT_RUN", material |-> 0, waivable |-> 0, other |-> 0],
   dna |-> "NOT_RUN", match |-> "NOT_RUN", price |-> "NOT_RUN", vessel |-> "NOT_RUN",
   entities |-> [p \in Parties |-> "NOT_RUN"],
   sanctions |-> [p \in Parties |-> "NOT_RUN"]]

Init ==
  /\ repo \in [Types -> DocStates]
  /\ docChanges = 0
  /\ lc \in LcTerms
  /\ budget \in Budgets
  /\ node = "load_case"
  /\ loaded = [t \in Types |-> "ABSENT"]
  /\ dna = NoDna
  /\ f = NoFindings
  /\ queue = <<>>
  /\ planned = FALSE
  /\ remaining = budget
  /\ calls = <<>>
  /\ cited = {}
  /\ band = "NONE"
  /\ review = FALSE
  /\ action = "none"
  /\ stop = "none"
  /\ stored = [compliance |-> "NOT_RUN", dna |-> NoDna]
  /\ saved = FALSE
  /\ caseStatus = "RECEIVED"
  /\ audit = <<>>

-------------------------------------------------------------------------------
(* Documents *)

\* Documents whose extraction is there, and those the state counts as complete.
HasFields(d) == d \in {"PARTIAL", "EXTRACTED", "FAILED_KEPT"}
CompletedWithFields(docs) == {t \in Types : HasFields(docs[t])}  \* mutant

Completed(docs) == {t \in Types : docs[t] \in {"PARTIAL", "EXTRACTED"}}

\* An LC without a list of documents asks for every known type.
Required == IF lc.listed THEN lc.required ELSE Types

\* _completeness over the snapshot.
CompletenessOf(docs) ==
  IF ~HasFields(docs[LC]) THEN "PENDING_LC"
  ELSE IF Required \subseteq Completed(docs) THEN "COMPLETE" ELSE "INCOMPLETE"

\* check_document_completeness of the rule engine: a document counts only once
\* extracted, as one original and no copy.
EngineMissing(docs) ==
  IF lc.listed THEN {t \in lc.required : docs[t] # "EXTRACTED" \/ t \in lc.plural} ELSE {}

\* The pipeline uploads, finishes or fails a document while the agent runs.
ChangeDocument(t) ==
  /\ docChanges < MaxDocChanges
  /\ docChanges' = docChanges + 1
  /\ \E new \in DocStates \ {"ABSENT", repo[t]} : repo' = [repo EXCEPT ![t] = new]
  /\ UNCHANGED <<lc, budget, node, stateVars, storeVars, audit>>

-------------------------------------------------------------------------------
(* _record_tool_call and _failure_update *)

\* An audit event the orchestrator writes: its type and what its payload names.
Event(type, ref) == [event |-> type, payload_ref |-> ref]

\* Mutant: max(0, ...) forgotten.
RecordUnclamped(tool, status) ==
  /\ calls' = Append(calls, [tool |-> tool, status |-> status])
  /\ audit' = Append(audit, Event("TOOL_CALLED", [tool |-> tool, status |-> status]))
  /\ remaining' = remaining - 1

\* Mutant: only a call that gave a result is audited.
RecordAnswered(tool, status) ==
  /\ calls' = Append(calls, [tool |-> tool, status |-> status])
  /\ audit' = IF status = "COMPLETED"
              THEN Append(audit, Event("TOOL_CALLED", [tool |-> tool, status |-> status]))
              ELSE audit
  /\ remaining' = IF remaining > 0 THEN remaining - 1 ELSE 0

\* The call is counted, recorded and audited whatever became of it.
Record(tool, status) ==
  /\ calls' = Append(calls, [tool |-> tool, status |-> status])
  /\ audit' = Append(audit, Event("TOOL_CALLED", [tool |-> tool, status |-> status]))
  /\ remaining' = IF remaining > 0 THEN remaining - 1 ELSE 0

Exhausted == remaining <= 0

HoldFor(reason) ==
  /\ review' = TRUE
  /\ action' = HOLD_ACTION
  /\ stop' = reason

\* A mandatory call that gave no result: the run goes on, under review.
Unavailable(tool, reason) ==
  /\ Record(tool, IF Exhausted THEN "BUDGET_EXHAUSTED" ELSE "DATA_UNAVAILABLE")
  /\ HoldFor(reason)

\* A call that timed out after its store write leaves the write behind.
LateWrite(field, values) ==
  stored' \in {stored} \union
    (IF MayFail /\ ~Exhausted THEN {[stored EXCEPT ![field] = x] : x \in values} ELSE {})

Goto(n) == node' = n

-------------------------------------------------------------------------------
(* The nodes up to the triage *)

LoadCase ==
  /\ node = "load_case"
  /\ loaded' = repo
  /\ IF \A t \in Types : repo[t] = "ABSENT"
     THEN stop' = "NO_DOCUMENTS" /\ Goto("save")
     ELSE UNCHANGED stop /\ Goto("check_completeness")
  /\ UNCHANGED <<docVars, dna, f, queue, planned, remaining, calls, cited, band, review,
                 action, storeVars, audit>>

CheckCompleteness ==
  /\ node = "check_completeness"
  /\ f' = [f EXCEPT !.completeness = CompletenessOf(loaded)]
  /\ IF CompletenessOf(loaded) = "COMPLETE"
     THEN review' = FALSE /\ UNCHANGED <<action, stop>> /\ Goto("run_ucp_rules")
     ELSE HoldFor("INCOMPLETE_DOCUMENT_SET") /\ Goto("human_review_gate")
  /\ UNCHANGED <<docVars, loaded, dna, queue, planned, remaining, calls, cited, band,
                 storeVars, audit>>

\* The facts are built from the stored documents as they are now, not from the
\* snapshot; without a readable LC that raises.
EngineResult(v) ==
  IF EngineMissing(repo) # {}
  THEN [verdict |-> "INCOMPLETE", material |-> 0, waivable |-> 0, other |-> 0]
  ELSE [verdict |-> "EVALUATED", material |-> v.material, waivable |-> v.waivable,
        other |-> v.other]

EngineWrites == IF HasFields(repo[LC]) THEN {EngineResult(v).verdict : v \in Verdicts} ELSE {}

RunUcpRules ==
  /\ node = "run_ucp_rules"
  /\ Goto("build_transaction_dna")
  /\ \/ /\ ~Exhausted /\ HasFields(repo[LC])
        /\ \E v \in Verdicts :
             /\ f' = [f EXCEPT !.compliance = EngineResult(v)]
             /\ stored' = [stored EXCEPT !.compliance = EngineResult(v).verdict]
        /\ Record("ucp_rules", "COMPLETED")
        /\ UNCHANGED <<review, action, stop>>
     \/ /\ Exhausted \/ ~HasFields(repo[LC]) \/ MayFail
        /\ Unavailable("ucp_rules", "RUN_UCP_RULES_UNAVAILABLE")
        /\ LateWrite("compliance", EngineWrites)
        /\ UNCHANGED f
  /\ UNCHANGED <<docVars, loaded, dna, queue, planned, cited, band, saved, caseStatus>>

BuildTransactionDna ==
  /\ node = "build_transaction_dna"
  /\ Goto("cross_ibu_check")
  /\ \/ /\ ~Exhausted
        /\ \E d \in DnaResults :
             /\ dna' = d
             /\ f' = [f EXCEPT !.dna = IF d.attention THEN "ATTENTION" ELSE "CLEAN"]
             /\ stored' = [stored EXCEPT !.dna = d]
        /\ Record("transaction_dna", "COMPLETED")
        /\ UNCHANGED <<review, action, stop>>
     \/ /\ Exhausted \/ MayFail
        /\ Unavailable("transaction_dna", "BUILD_TRANSACTION_DNA_UNAVAILABLE")
        /\ LateWrite("dna", DnaResults)
        /\ UNCHANGED <<dna, f>>
  /\ UNCHANGED <<docVars, loaded, queue, planned, cited, band, saved, caseStatus>>

HasBl == IF dna = NoDna THEN FALSE ELSE dna.bl

\* Skipped, without a call, when there is no bill of lading number.
CrossIbuCheck ==
  /\ node = "cross_ibu_check"
  /\ Goto("fraud_triage")
  /\ \/ /\ ~HasBl
        /\ UNCHANGED <<f, calls, audit, remaining, review, action, stop>>
     \/ /\ HasBl /\ ~Exhausted
        /\ \E m \in Matches : f' = [f EXCEPT !.match = m]
        /\ Record("cross_ibu_check", "COMPLETED")
        /\ UNCHANGED <<review, action, stop>>
     \/ /\ HasBl /\ (Exhausted \/ MayFail)
        /\ Unavailable("cross_ibu_check", "CROSS_IBU_CHECK_UNAVAILABLE")
        /\ UNCHANGED f
  /\ UNCHANGED <<docVars, loaded, dna, queue, planned, cited, band, storeVars>>

-------------------------------------------------------------------------------
(* Triage and the selected tools *)

\* Mutant: sanctions screening is selected by a signal, as the other tools are.
DeterministicPlanOnSignal ==
  {t \in Tools : f.match \notin {"NOT_RUN", "NONE"} \/ (dna # NoDna /\ dna.highValue)}

\* DeterministicTriagePlanner.plan: a match at any level, a high unit value, a
\* vessel conflict or the lack of both parties select the other tools.
DeterministicPlan ==
  {t \in Tools :
     \/ t = "sanctions_screening"
     \/ f.match \notin {"NOT_RUN", "NONE"}
     \/ /\ dna # NoDna
        /\ \/ t = "price_benchmark" /\ dna.highValue
           \/ t = "vessel_verification" /\ dna.vesselConflict
           \/ t = "entity_verification" /\ dna.named = {}}

\* An LLM may plan any selection; one that fails validation, or no answer at
\* all, is replaced by sanctions screening alone.
Plans == IF Bedrock THEN SUBSET Tools ELSE {DeterministicPlan}

\* The selected tools in the order they are called in.
Chosen(tool, selection) == IF tool \in selection THEN <<tool>> ELSE <<>>

Ordered(selection) ==
  Chosen("price_benchmark", selection) \o Chosen("vessel_verification", selection)
    \o Chosen("entity_verification", selection) \o Chosen("sanctions_screening", selection)

FraudTriage ==
  /\ node = "fraud_triage"
  /\ \E selection \in Plans : queue' = Ordered(selection)
  /\ planned' = TRUE
  /\ Goto("conditional_tool_calls")
  /\ UNCHANGED <<docVars, loaded, dna, f, remaining, calls, cited, band, review, action,
                 stop, storeVars, audit>>

\* What a tool may report about the transaction.
Report(tool) ==
  \/ /\ tool = "price_benchmark"
     /\ \E x \in Prices : f' = [f EXCEPT !.price = x]
  \/ /\ tool = "vessel_verification"
     /\ \E x \in Vessels : f' = [f EXCEPT !.vessel = x]
  \/ /\ tool = "entity_verification"
     /\ \E x \in [dna.named -> EntityResults] :
          f' = [f EXCEPT !.entities = [p \in Parties |->
                  IF p \in dna.named THEN x[p] ELSE "NOT_RUN"]]
  \/ /\ tool = "sanctions_screening"
     /\ \E x \in [dna.named -> SanctionsResults] :
          f' = [f EXCEPT !.sanctions = [p \in Parties |->
                  IF p \in dna.named THEN x[p] ELSE "UNNAMED"]]

CallTool ==
  /\ node = "conditional_tool_calls" /\ dna # NoDna
  /\ queue # <<>> /\ ~Exhausted
  /\ queue' = Tail(queue)
  /\ \/ /\ Report(Head(queue))
        /\ Record(Head(queue), "COMPLETED")
     \/ /\ MayHang
        /\ Record(Head(queue), "DATA_UNAVAILABLE")
        /\ UNCHANGED f
  /\ UNCHANGED <<docVars, node, loaded, dna, planned, cited, band, review, action, stop,
                 storeVars>>

\* Mutant: the exhausted flag is not turned into a hold.
EndToolCallsSilently ==
  /\ node = "conditional_tool_calls"
  /\ dna = NoDna \/ queue = <<>> \/ Exhausted
  /\ Goto("aggregate_evidence")
  /\ UNCHANGED <<docVars, loaded, dna, f, queue, planned, remaining, calls, cited, band,
                 review, action, stop, storeVars, audit>>

\* The loop ends when the selection or the budget does; without a fingerprint
\* the node does nothing.
EndToolCalls ==
  /\ node = "conditional_tool_calls"
  /\ \/ /\ dna = NoDna \/ queue = <<>>
        /\ UNCHANGED <<review, action, stop>>
     \/ /\ dna # NoDna /\ queue # <<>> /\ Exhausted
        /\ HoldFor("TOOL_BUDGET_EXHAUSTED")
  /\ Goto("aggregate_evidence")
  /\ UNCHANGED <<docVars, loaded, dna, f, queue, planned, remaining, calls, cited, band,
                 storeVars, audit>>

-------------------------------------------------------------------------------
(* The nodes after the tools, and the end of run *)

AggregateEvidence ==
  /\ node = "aggregate_evidence"
  /\ cited' = Evidence(f, planned)
  /\ Goto("risk_assessment")
  /\ UNCHANGED <<docVars, loaded, dna, f, queue, planned, remaining, calls, band, review,
                 action, stop, storeVars, audit>>

RiskAssessment ==
  /\ node = "risk_assessment"
  /\ band' = Band(Score(f))
  /\ IF review \/ Triggered(f)
     THEN HoldFor(IF stop = "none" THEN "HUMAN_REVIEW_REQUIRED" ELSE stop)
     ELSE UNCHANGED <<review, action, stop>>
  /\ Goto("human_review_gate")
  /\ UNCHANGED <<docVars, loaded, dna, f, queue, planned, remaining, calls, cited,
                 storeVars, audit>>

\* Mutant: the gate asks for the band only.
HumanReviewGateOnBand ==
  /\ node = "human_review_gate"
  /\ Goto(IF band = "HIGH" THEN "save" ELSE "settlement_readiness")
  /\ UNCHANGED <<docVars, stateVars, storeVars, audit>>

\* Mutant: the gate waits for somebody to resume the interrupted graph.
HumanReviewGateWaits ==
  /\ node = "human_review_gate" /\ ~review
  /\ Goto("settlement_readiness")
  /\ UNCHANGED <<docVars, stateVars, storeVars, audit>>

\* The interrupt ends the graph: nothing resumes it.
HumanReviewGate ==
  /\ node = "human_review_gate"
  /\ Goto(IF review THEN "save" ELSE "settlement_readiness")
  /\ UNCHANGED <<docVars, stateVars, storeVars, audit>>

SettlementReadiness ==
  /\ node = "settlement_readiness"
  /\ action' = READY_ACTION
  /\ stop' = "INVESTIGATION_COMPLETE"
  /\ Goto("save")
  /\ UNCHANGED <<docVars, loaded, dna, f, queue, planned, remaining, calls, cited, band,
                 review, storeVars, audit>>

\* The response and the case status are written in one transaction.
Save ==
  /\ node = "save"
  /\ saved' = TRUE
  /\ caseStatus' = IF action = "none" THEN caseStatus ELSE action
  /\ Goto("audit_decision")
  /\ UNCHANGED <<docVars, stateVars, stored, audit>>

AuditRun(here, event, next) ==
  /\ node = here
  /\ audit' = Append(audit, event)
  /\ Goto(next)
  /\ UNCHANGED <<docVars, stateVars, storeVars>>

AfterRisk == IF review THEN "audit_review" ELSE "done"

AuditDecision ==
  AuditRun("audit_decision", Event("AGENT_DECISION", stop),
           IF band # "NONE" THEN "audit_risk" ELSE AfterRisk)

AuditRisk == AuditRun("audit_risk", Event("RISK_SCORED", band), AfterRisk)

AuditReview == AuditRun("audit_review", Event("HUMAN_REVIEW_REQUIRED", stop), "done")

\* An exception no node catches, such as a failing audit record, or the end of
\* the process; a store write of the node may have committed.
Abort ==
  /\ node \notin {"done", "dead"}
  /\ \/ UNCHANGED stored
     \/ node = "run_ucp_rules" /\ LateWrite("compliance", EngineWrites)
     \/ node = "build_transaction_dna" /\ LateWrite("dna", DnaResults)
  /\ Goto("dead")
  /\ UNCHANGED <<docVars, stateVars, saved, caseStatus, audit>>

-------------------------------------------------------------------------------

Step ==
  \/ LoadCase \/ CheckCompleteness \/ RunUcpRules \/ BuildTransactionDna \/ CrossIbuCheck
  \/ FraudTriage \/ CallTool \/ EndToolCalls \/ AggregateEvidence \/ RiskAssessment
  \/ HumanReviewGate \/ SettlementReadiness
  \/ Save \/ AuditDecision \/ AuditRisk \/ AuditReview

Next == Step \/ Abort \/ \E t \in Types : ChangeDocument(t)

Spec == Init /\ [][Next]_vars

\* Every tool call ends by its timeout, so a run that goes on takes its next step.
FairSpec == Spec /\ WF_vars(Step)

-------------------------------------------------------------------------------
(* Properties *)

Nodes ==
  {"load_case", "check_completeness", "run_ucp_rules", "build_transaction_dna",
   "cross_ibu_check", "fraud_triage", "conditional_tool_calls", "aggregate_evidence",
   "risk_assessment", "human_review_gate", "settlement_readiness", "save",
   "audit_decision", "audit_risk", "audit_review", "done", "dead"}

Failures ==
  {"INCOMPLETE_DOCUMENT_SET", "RUN_UCP_RULES_UNAVAILABLE",
   "BUILD_TRANSACTION_DNA_UNAVAILABLE", "CROSS_IBU_CHECK_UNAVAILABLE",
   "TOOL_BUDGET_EXHAUSTED"}

StopReasons ==
  Failures \union {"none", "NO_DOCUMENTS", "HUMAN_REVIEW_REQUIRED", "INVESTIGATION_COMPLETE"}

Events ==
  [event : {"TOOL_CALLED"}, payload_ref : Calls]
    \union [event : {"AGENT_DECISION", "HUMAN_REVIEW_REQUIRED"}, payload_ref : StopReasons]
    \union [event : {"RISK_SCORED"}, payload_ref : Bands]

\* Each variable holds the kind of value the graph state keeps there.
TypeOK ==
  /\ repo \in [Types -> AllDocStates]
  /\ docChanges \in 0..MaxDocChanges
  /\ lc \in LcTerms
  /\ budget \in Budgets
  /\ node \in Nodes
  /\ loaded \in [Types -> AllDocStates]
  /\ dna \in DnaResults \union {NoDna}
  /\ f \in FindingSets
  /\ queue \in Seq(Tools)
  /\ planned \in BOOLEAN
  /\ remaining \in Nat
  /\ calls \in Seq(Calls)
  /\ audit \in Seq(Events)
  /\ cited \subseteq Sources
  /\ band \in Bands \union {"NONE"}
  /\ review \in BOOLEAN
  /\ action \in {"none", READY_ACTION, HOLD_ACTION}
  /\ stop \in StopReasons
  /\ stored \in [compliance : ComplianceVerdicts, dna : DnaResults \union {NoDna}]
  /\ saved \in BOOLEAN
  /\ caseStatus \in {"RECEIVED", READY_ACTION, HOLD_ACTION}

\* A run that recommends settlement readiness found every document the letter of
\* credit requires, got a result from every mandatory check and called every
\* tool it had selected, whatever failed, hung or changed on the way.
ReadyIsComplete ==
  action = READY_ACTION =>
    /\ \A t \in Required : loaded[t] \in {"PARTIAL", "EXTRACTED"}
    /\ f.compliance.verdict # "NOT_RUN"
    /\ dna # NoDna
    /\ HasBl => f.match # "NOT_RUN"
    /\ queue = <<>>

\* The rule engine and the completeness check read the documents at two times and
\* by two rules: a complete case whose rules were not evaluated has a required
\* document that is only PARTIAL or wanted in several copies, or its documents
\* changed during the run.
IncompleteVerdictExplained ==
  f.compliance.verdict = "INCOMPLETE" =>
    docChanges > 0 \/ \E t \in Required : loaded[t] = "PARTIAL" \/ t \in lc.plural

\* What a run may have found and still recommend settlement readiness: up to six
\* waivable discrepancies, a contextual match, no answer about the vessel, and
\* whatever the entity register says.
Unsuspicious ==
  /\ f.compliance.material = 0 /\ f.compliance.waivable <= 6
  /\ f.dna = "CLEAN"
  /\ f.match \in {"NOT_RUN", "CONTEXTUAL", "NONE"}
  /\ f.price \in {"NOT_RUN", "NORMAL"}
  /\ f.vessel # "ANOMALY"
  /\ \A p \in Parties : f.sanctions[p] \in {"NOT_RUN", "UNNAMED", "NO_MATCH"}

\* The score, its band and the triggers together let nothing else pass the gate.
ReadyIsUnsuspicious == action = READY_ACTION => Unsuspicious

\* The tool budget is neither overdrawn nor lost: each call takes one unit, and
\* a call is refused exactly when the budget was used up before it.
BudgetAccounted ==
  /\ remaining = IF Len(calls) < budget THEN budget - Len(calls) ELSE 0
  /\ \A i \in DOMAIN calls : calls[i].status = "BUDGET_EXHAUSTED" <=> i > budget

\* Every call of the run has its audit event, in the order of the calls, before
\* any event about the run as a whole.
CallsAudited ==
  /\ Len(audit) >= Len(calls)
  /\ \A i \in DOMAIN calls : audit[i] = Event("TOOL_CALLED", calls[i])
  /\ ~saved => Len(audit) = Len(calls)

\* The evidence sources behind what may have caused a hold.
Causes ==
  (IF f.compliance.material + f.compliance.waivable > 0 THEN {"UCP_COMPLIANCE"} ELSE {})
  \union (IF f.dna = "ATTENTION" THEN {"transaction_dna"} ELSE {})
  \union (IF f.match \notin {"NOT_RUN", "CONTEXTUAL", "NONE"} THEN {"cross_ibu_check"} ELSE {})
  \union (IF f.price \notin {"NOT_RUN", "NORMAL"} THEN {"price_benchmark"} ELSE {})
  \union (IF f.vessel = "ANOMALY" THEN {"vessel_verification"} ELSE {})
  \union (IF \E p \in Parties : f.sanctions[p] \notin {"NOT_RUN", "UNNAMED", "NO_MATCH"}
          THEN {"sanctions_screening"} ELSE {})

\* A saved hold tells the officer why: its stop reason names the failed step, or
\* there is a cause and every cause is among the cited evidence.
HoldIsExplained ==
  saved /\ action = HOLD_ACTION =>
    stop \in Failures \/ (Causes # {} /\ Causes \subseteq cited)

Audited(event) == \E i \in DOMAIN audit : audit[i].event = event

\* A run that ended regularly has audited its outcome: the risk exactly when it
\* was assessed, the need of a human review exactly when the case is held.
OutcomeAudited ==
  node = "done" =>
    /\ saved /\ Audited("AGENT_DECISION")
    /\ Audited("RISK_SCORED") <=> band # "NONE"
    /\ Audited("HUMAN_REVIEW_REQUIRED") <=> caseStatus = HOLD_ACTION

CallsMade    == {calls[i] : i \in DOMAIN calls}
Called(tool) == \E c \in CallsMade : c.tool = tool

\* Store writes of the run that none of its recorded calls stands for.
UnauditedWrites ==
  {tool \in {"ucp_rules", "transaction_dna"} :
     /\ ~Called(tool)
     /\ IF tool = "ucp_rules" THEN stored.compliance # "NOT_RUN" ELSE stored.dna # NoDna}

\* A run that goes on or ended accounts for all it wrote; one that died, for all
\* but the write of the call it died in.
WritesAccounted ==
  /\ node # "dead" => UnauditedWrites = {}
  /\ \A a, b \in UnauditedWrites : a = b

\* However a run ends, failing audit records included, the audit trail holds its
\* calls in order and accounts for its writes; a regular end is announced.
TrailAccountsForRun == CallsAudited /\ WritesAccounted /\ OutcomeAudited

\* The run implements Recommendation: whatever is checked, fails or hangs, a
\* recommendation is given once, recorded as given, and announced as recorded.
OutcomeEvents == {"AGENT_DECISION", "RISK_SCORED", "HUMAN_REVIEW_REQUIRED"}

Promise == INSTANCE Recommendation WITH
             Undecided <- "none", Hold <- HOLD_ACTION, Ready <- READY_ACTION,
             Before <- "RECEIVED",
             verdict <- action, recorded <- saved, status <- caseStatus,
             announced <- {e \in OutcomeEvents : Audited(e)}

RecommendationSpec == Promise!Spec

\* How many steps a run may still take: the nodes ahead of it, and the tools that it
\* has selected or may select.
StepsAhead ==
  [load_case |-> 19, check_completeness |-> 18, run_ucp_rules |-> 17,
   build_transaction_dna |-> 16, cross_ibu_check |-> 15, fraud_triage |-> 14,
   conditional_tool_calls |-> 9, aggregate_evidence |-> 8, risk_assessment |-> 7,
   human_review_gate |-> 6, settlement_readiness |-> 5, save |-> 4, audit_decision |-> 3,
   audit_risk |-> 2, audit_review |-> 1, done |-> 0, dead |-> 0]

StepsLeft ==
  StepsAhead[node] + (IF node = "conditional_tool_calls" THEN Len(queue) ELSE 0)

\* Each step of a run uses one up, whatever fails and however often the documents
\* change meanwhile: no node is run twice, and no tool is called again.
RunsForward ==
  [][\/ StepsLeft' \in 0..StepsLeft - 1
     \/ UNCHANGED <<lc, budget, node, stateVars, storeVars, audit>>]_vars

\* No step of a run withdraws the need of a human review.
ReviewNeverWithdrawn == [][review => review' /\ action' = HOLD_ACTION]_vars

\* A run ends, under the planner, tools, stores and budget whatever they do.
RunEnds == <>(node \in {"done", "dead"})

\* A run that recommends settlement readiness has screened every named party
\* against the sanctions lists and found nothing.
ReadyIsScreened ==
  action = READY_ACTION => \A p \in dna.named : f.sanctions[p] = "NO_MATCH"

\* The screening was called, and it was called and answered.
ScreeningCalled == Called("sanctions_screening")
Screened == [tool |-> "sanctions_screening", status |-> "COMPLETED"] \in CallsMade

\* A run that recommends readiness without having cleared every named party can
\* be found out: its trail holds a screening that gave no answer, or an LLM
\* planned the tools and the trail holds no screening.  A screening that answered
\* cleared them all.
UnscreenedIsOnRecord ==
  action = READY_ACTION =>
    \/ \A p \in dna.named : f.sanctions[p] = "NO_MATCH"
    \/ \E i \in DOMAIN audit :
         audit[i] = Event("TOOL_CALLED",
                          [tool |-> "sanctions_screening", status |-> "DATA_UNAVAILABLE"])
    \/ Bedrock /\ ~ScreeningCalled

-------------------------------------------------------------------------------
(* The inductive invariant *)

\* The nodes still to be passed after each of the checks.
AfterReview       == {"save", "audit_decision", "audit_risk", "audit_review", "done", "dead"}
AfterRiskScored   == {"human_review_gate", "settlement_readiness"}
AfterTools        == {"aggregate_evidence", "risk_assessment"} \union AfterRiskScored
AfterMatch        == {"fraud_triage", "conditional_tool_calls"} \union AfterTools
AfterDna          == {"cross_ibu_check"} \union AfterMatch
AfterRules        == {"build_transaction_dna"} \union AfterDna
AfterCompleteness == {"run_ucp_rules"} \union AfterRules

\* A run not under review has passed every check before its node.
PassedInv ==
  ~review =>
    /\ node \in AfterCompleteness =>
         \A t \in Required : loaded[t] \in {"PARTIAL", "EXTRACTED"}
    /\ node \in AfterRules => f.compliance.verdict # "NOT_RUN"
    /\ node \in AfterDna => dna # NoDna /\ f.dna # "NOT_RUN"
    /\ node \in AfterMatch => (HasBl => f.match # "NOT_RUN")
    /\ node \in AfterTools => queue = <<>>
    /\ node \in AfterRiskScored => ~Triggered(f)

\* Where a review may be required, and where readiness may be recommended.
GateInv ==
  /\ review <=> action = HOLD_ACTION
  /\ node \in {"load_case", "check_completeness", "settlement_readiness"} => ~review
  /\ action = READY_ACTION => node \in AfterReview

\* The band is set once, from the findings the evidence was drawn from.
BandInv ==
  /\ band # "NONE" => node \in AfterRiskScored \union AfterReview
  /\ node = "risk_assessment" \/ band # "NONE" => cited = Evidence(f, planned)
  /\ review => stop \in Failures \/ (band # "NONE" /\ Triggered(f))

\* What was saved, and which events were written, at each node.
OutcomeInv ==
  /\ saved => node \in AfterReview \ {"save"}
  /\ node \in AfterReview \ {"save", "dead"} =>
       /\ saved
       /\ caseStatus = HOLD_ACTION <=> review
  /\ ~saved => caseStatus = "RECEIVED"
  /\ node \notin AfterReview \ {"save", "audit_decision"} =>
       \A e \in {"AGENT_DECISION", "RISK_SCORED", "HUMAN_REVIEW_REQUIRED"} : ~Audited(e)
  /\ node \in {"audit_risk", "audit_review", "done"} => Audited("AGENT_DECISION")
  /\ node = "audit_risk" => band # "NONE" /\ ~Audited("RISK_SCORED")
  /\ node = "audit_review" => review
  /\ node \in {"audit_review", "done"} => (Audited("RISK_SCORED") <=> band # "NONE")
  /\ node \in {"audit_risk", "audit_review"} => ~Audited("HUMAN_REVIEW_REQUIRED")
  /\ node = "done" => (Audited("HUMAN_REVIEW_REQUIRED") <=> review)

\* Inductive; the properties the theorems state follow from it.
InvestigationInv ==
  /\ TypeOK
  /\ BudgetAccounted
  /\ CallsAudited
  /\ PassedInv
  /\ GateInv
  /\ BandInv
  /\ OutcomeInv
  /\ ReadyIsComplete
  /\ ReadyIsUnsuspicious
-------------------------------------------------------------------------------
(* The sanctions screening behind a recommendation *)

Selected == {queue[i] : i \in DOMAIN queue}

\* The budget is asked before a selected tool is called, never by the call.
ScreeningRefused ==
  [tool |-> "sanctions_screening", status |-> "BUDGET_EXHAUSTED"] \in CallsMade

\* Whoever planned the calls and whatever hung: a run that recommends readiness
\* after a screening that answered found every named party on no list.
AnsweredScreeningIsClear ==
  action = READY_ACTION /\ Screened => \A p \in dna.named : f.sanctions[p] = "NO_MATCH"

\* The deterministic planner lets no run recommend readiness without having
\* called the screening, answered or not.
PlannerAlwaysScreens == ~Bedrock /\ action = READY_ACTION => ScreeningCalled

ToolNodes == {"conditional_tool_calls", "aggregate_evidence", "risk_assessment"}

\* Between the plan and the call the screening waits in the queue; its answer is
\* about the parties of the fingerprint, which does not change any more.
ScreeningInv ==
  /\ \/ node \in ToolNodes
     \/ ~review /\ node \in AfterRiskScored
     \/ action = READY_ACTION
     => planned
  /\ planned => node \in ToolNodes \union AfterRiskScored \union AfterReview
  /\ Screened =>
       /\ planned /\ dna # NoDna
       /\ \A p \in dna.named : f.sanctions[p] \in SanctionsResults
  /\ ~Bedrock /\ planned => ScreeningCalled \/ "sanctions_screening" \in Selected
  /\ ~ScreeningRefused

-------------------------------------------------------------------------------
(* The two readings of the documents, and the writes of a run *)

\* The repository is what the run loaded until a document changes; the engine is
\* asked about complete sets of documents only.
RuleVerdictInv ==
  /\ node = "load_case" => f.compliance.verdict = "NOT_RUN"
  /\ node \in {"check_completeness"} \union AfterCompleteness /\ docChanges = 0 =>
       repo = loaded
  /\ node = "run_ucp_rules" => \A t \in Required : loaded[t] \in {"PARTIAL", "EXTRACTED"}
  /\ IncompleteVerdictExplained

\* Which of the two mandatory writes may exist at each node.
WritesInv ==
  /\ node \in {"load_case", "check_completeness", "run_ucp_rules"} =>
       stored.compliance = "NOT_RUN"
  /\ node \in {"load_case", "check_completeness", "run_ucp_rules", "build_transaction_dna"} =>
       stored.dna = NoDna
  /\ stored.compliance # "NOT_RUN" =>
       Called("ucp_rules") \/ (node = "dead" /\ stored.dna = NoDna)
  /\ stored.dna # NoDna => Called("transaction_dna") \/ node = "dead"
===============================================================================
