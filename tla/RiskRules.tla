------------------------------- MODULE RiskRules -------------------------------
(***************************************************************************)
(* How the investigation turns its findings into a risk score, a band, a   *)
(* review requirement and evidence records: agents/risk.py and the nodes   *)
(* risk_assessment and aggregate_evidence.  A finding set f is a record of *)
(* what each check reported; NOT_RUN stands for the None the state keeps   *)
(* when a check never returned a result.                                   *)
(***************************************************************************)
EXTENDS Integers, FiniteSets

Parties == {"exporter", "importer"}

CompletenessStatus == {"PENDING_LC", "INCOMPLETE", "COMPLETE"}

\* MatchLevel, NEAR split at the similarity 0.85 the score asks about.
MatchLevels == {"NOT_RUN", "EXACT", "NEAR_LIKELY", "NEAR_POSSIBLE", "CONTEXTUAL", "NONE"}
PriceSignals == {"NOT_RUN", "NORMAL", "REVIEW", "SIGNIFICANT_ANOMALY", "DATA_UNAVAILABLE"}
VesselSignals == {"NOT_RUN", "CONSISTENT", "ANOMALY", "DATA_UNAVAILABLE"}
EntitySignals == {"NOT_RUN", "VERIFIED", "UNVERIFIED", "SUSPICIOUS"}

\* One status per screened party; a party the documents do not name is UNNAMED.
SanctionsSignals ==
  {"NOT_RUN", "UNNAMED", "NO_MATCH", "POSSIBLE_MATCH", "CONFIRMED_SOURCE_MATCH",
   "DATA_UNAVAILABLE"}

\* NOT_RUN, or the engine's verdict: INCOMPLETE without findings, or its findings.
ComplianceVerdicts == {"NOT_RUN", "INCOMPLETE", "EVALUATED"}

\* The engine's rules emit MATERIAL and ADVISORY findings; the score also knows
\* POTENTIALLY_WAIVABLE ones.  other counts the severities without points.
FindingSets ==
  [completeness : CompletenessStatus,
   compliance : [verdict : ComplianceVerdicts, material : Nat, waivable : Nat, other : Nat],
   dna : {"NOT_RUN", "CLEAN", "ATTENTION"},   \* low-confidence flags or conflicts
   match : MatchLevels,
   price : PriceSignals,
   vessel : VesselSignals,
   entities : [Parties -> EntitySignals],
   sanctions : [Parties -> SanctionsSignals]]

-------------------------------------------------------------------------------
(* agents/risk.py *)

MatchPoints(m) == IF m = "EXACT" THEN 80 ELSE IF m = "NEAR_LIKELY" THEN 45 ELSE 0

\* Forty points for one material finding, sixty for more.
MaterialPoints(n) == IF 40 * n < 60 THEN 40 * n ELSE 60

PricePoints(p) ==
  IF p = "SIGNIFICANT_ANOMALY" THEN 55 ELSE IF p = "REVIEW" THEN 20 ELSE 0

PartyPoints(s) ==
  IF s = "POSSIBLE_MATCH" THEN 35 ELSE IF s = "CONFIRMED_SOURCE_MATCH" THEN 90 ELSE 0

Score(f) ==
  MatchPoints(f.match)
  + MaterialPoints(f.compliance.material)
  + 10 * f.compliance.waivable
  + PricePoints(f.price)
  + (IF f.vessel = "ANOMALY" THEN 30 ELSE 0)
  + PartyPoints(f.sanctions["exporter"]) + PartyPoints(f.sanctions["importer"])
  + (IF f.completeness = "INCOMPLETE" THEN 25 ELSE 0)

Bands == {"LOW", "MEDIUM", "HIGH"}

Band(score) == IF score <= 29 THEN "LOW" ELSE IF score <= 69 THEN "MEDIUM" ELSE "HIGH"

-------------------------------------------------------------------------------
(* The review triggers of risk_assessment *)

\* Mutant: only a significant price anomaly counts.
ExternalSignalAnomalyOnly(f) ==
  \/ f.price = "SIGNIFICANT_ANOMALY"
  \/ f.vessel = "ANOMALY"
  \/ \E p \in Parties : f.sanctions[p] \notin {"NOT_RUN", "UNNAMED", "NO_MATCH"}

ExternalSignal(f) ==
  \/ f.price \notin {"NOT_RUN", "NORMAL"}
  \/ f.vessel = "ANOMALY"
  \/ \E p \in Parties : f.sanctions[p] \notin {"NOT_RUN", "UNNAMED", "NO_MATCH"}

Triggered(f) ==
  \/ Band(Score(f)) = "HIGH"
  \/ f.compliance.material > 0
  \/ f.match \in {"EXACT", "NEAR_LIKELY", "NEAR_POSSIBLE"}
  \/ f.dna = "ATTENTION"
  \/ ExternalSignal(f)

-------------------------------------------------------------------------------
(* What it means for findings to be worse *)

\* How bad a report is among a bad, a worse and the worst one; others say nothing.
Rank(signal, bad, worse, worst) ==
  IF signal = worst THEN 3 ELSE IF signal = worse THEN 2 ELSE IF signal = bad THEN 1 ELSE 0

MatchRank(m)     == Rank(m, "NEAR_POSSIBLE", "NEAR_LIKELY", "EXACT")
PriceRank(p)     == Rank(p, "DATA_UNAVAILABLE", "REVIEW", "SIGNIFICANT_ANOMALY")
SanctionsRank(s) == Rank(s, "DATA_UNAVAILABLE", "POSSIBLE_MATCH", "CONFIRMED_SOURCE_MATCH")

\* Every check reports in g what it reports in f, or worse.
NoBetter(g, f) ==
  /\ f.completeness = "INCOMPLETE" => g.completeness = "INCOMPLETE"
  /\ f.compliance.material <= g.compliance.material
  /\ f.compliance.waivable <= g.compliance.waivable
  /\ f.dna = "ATTENTION" => g.dna = "ATTENTION"
  /\ MatchRank(f.match) <= MatchRank(g.match)
  /\ PriceRank(f.price) <= PriceRank(g.price)
  /\ f.vessel = "ANOMALY" => g.vessel = "ANOMALY"
  /\ \A p \in Parties : SanctionsRank(f.sanctions[p]) <= SanctionsRank(g.sanctions[p])

\* A worse finding never lowers the score, and never lets a case pass that would
\* have been held without it.
WorseIsNeverSafer(f, g) ==
  NoBetter(g, f) => Score(f) <= Score(g) /\ (Triggered(f) => Triggered(g))

-------------------------------------------------------------------------------
(* _evidence: the sources an officer is shown *)

Sources == {"transaction_dna", "fraud_triage", "UCP_COMPLIANCE", "cross_ibu_check",
            "price_benchmark", "vessel_verification", "entity_verification",
            "sanctions_screening"}

Discrepancies(f) == f.compliance.material + f.compliance.waivable + f.compliance.other

\* Mutant: an unavailable benchmark or screening leaves no record.
EvidenceOfFindings(f, planned) ==
  {s \in Sources :
     \/ s = "transaction_dna" /\ f.dna = "ATTENTION"
     \/ s = "fraud_triage" /\ planned
     \/ s = "UCP_COMPLIANCE" /\ Discrepancies(f) > 0
     \/ s = "cross_ibu_check" /\ f.match # "NOT_RUN"
     \/ s = "price_benchmark" /\ f.price \notin {"NOT_RUN", "DATA_UNAVAILABLE"}
     \/ s = "vessel_verification" /\ f.vessel # "NOT_RUN"
     \/ s = "entity_verification" /\ \E p \in Parties : f.entities[p] # "NOT_RUN"
     \/ s = "sanctions_screening" /\
          \E p \in Parties : f.sanctions[p] \notin {"NOT_RUN", "UNNAMED", "DATA_UNAVAILABLE"}}

Evidence(f, planned) ==
  {s \in Sources :
     \/ s = "transaction_dna" /\ f.dna = "ATTENTION"
     \/ s = "fraud_triage" /\ planned
     \/ s = "UCP_COMPLIANCE" /\ Discrepancies(f) > 0
     \/ s = "cross_ibu_check" /\ f.match # "NOT_RUN"
     \/ s = "price_benchmark" /\ f.price # "NOT_RUN"
     \/ s = "vessel_verification" /\ f.vessel # "NOT_RUN"
     \/ s = "entity_verification" /\ \E p \in Parties : f.entities[p] # "NOT_RUN"
     \/ s = "sanctions_screening" /\
          \E p \in Parties : f.sanctions[p] \notin {"NOT_RUN", "UNNAMED"}}
===============================================================================
