# Verification of TradeSentry

TradeSentry examines trade-finance documents for GIFT City International Banking
Units (IBUs).  A FastAPI service (`apps/api/tradesentry_api`) takes in the
documents of a case, extracts their fields with an OCR service, runs a
deterministic UCP 600 rule engine, builds a fingerprint of the transaction,
compares it with the fingerprints of other IBUs, lets an agent choose fraud
tools, scores the risk, and stops at a human gate.  An officer decides; the
service never settles anything.

This directory holds TLA+ models of that code, TLC configurations that check
them on small instances, and TLAPS proofs for every instance.  Paths in this
document are relative to the repository's root; `API` stands for
`apps/api/tradesentry_api`.

    tlc -workers 2 -config HumanReviewRequests.cfg MCHumanReview.tla
    tlapm HumanReviewProofs.tla

`PROJECT.json` lists the runs with their modules, the source lines each
definition models, one mutant per checked property, and the hazards.

## 1. Inventory

| Component | State | Operations | Hard behaviour | What makes it correct |
|---|---|---|---|---|
| Human review and settlement gate: `API/dashboard_api.py`, `API/review_store.py`, `models/review.py` | `officer_decisions` rows, `cases.status`, audit events | `submit_review`, `list_cases`, `get_case`, `get_report`, `get_settlement_readiness` | five store calls per review, each its own transaction; idempotent retries; the agent writes the same status column | one decision per key, the decision in force changes only by an officer, an answer is true, a saved decision is audited unless its handler dies |
| Investigation agent: `API/investigation_orchestrator.py`, `agents/`, `API/investigation_api.py`, `API/investigation_store.py` | graph state (evidence, budget, action), `investigation_states`, audit events | eleven graph nodes, `_record_tool_call`, `run` | time-outs and failures of every tool, exhausted budget, planner output rejected, stored documents change while the graph runs | a READY recommendation has no open trigger, it is given once and announced as recorded, the budget is spent once per call, every call is audited |
| Document pipeline: `API/api.py`, `API/processor.py`, `API/ocr.py`, `API/repository.py`, `API/malware.py`, `API/s3.py` | `documents` rows, S3 objects, background tasks | upload, process, list, completeness | overlapping uploads of one file, the background task dies, OCR times out | a record has its file, ends in a final state, and no record blocks its case |
| Fraud and TBML tools: `API/fraud_tbml_runner.py`, `fraud_tbml/` | none (calls, audit events) | price, vessel, entity, sanctions | a time-out inside a time-out, one retry | an unavailable tool yields a typed unavailable result, for all parties or none; a listed name is never clear |
| Compliance engine: `rules/engine.py`, `rules/checks.py`, `API/compliance_api.py`, `API/compliance_store.py` | stored result | `evaluate_compliance` and its checks, `POST` of an ADMIN, the agent's own evaluation | boundaries of tolerances and dates, chains of pairwise checks, several writers of one row | COMPLIANT means that the documents examined conform, more documents never lose a finding |
| Transaction DNA: `dna/`, `API/dna_api.py`, `API/dna_store.py` | stored DNA | sources, normalisation, fingerprint, conflicts | a value and its source are chosen apart, documents that cannot be read | a value comes from the document it names, a disagreement is a conflict |
| Cross-IBU registry: `cross_ibu/`, `API/cross_ibu_api.py`, `API/cross_ibu_registry.py` | DynamoDB items with a time to live | register, find candidates, match | check and register race, expiry, overwrite, first page only | an exact duplicate is found, no raw data crosses IBUs |
| Rate limiter: `API/rate_limit.py`, `API/main.py` | counters per key and window, in the process or in Redis | `allow`, the middleware around it | window boundary, INCR without EXPIRE, an INCR that comes late | at most the limit per window, no refusal below it |
| Audit trail: `API/audit_store.py` | append-only `audit_events` | `record`, `list_events` | a record call fails half-way through a handler | appended once, never changed |
| Authentication: `API/auth.py` | none | `authenticate`, role checks | none | the callers of the other modules |
| Web UI: `apps/web` | React state | workflow hook | a cancelled run wakes up in the next one | the steps shown belong to the run shown |
| Second rule library: `rules/completeness.py`, `rules/risk_scoring.py`, `rules/human_review_gate.py`, `rules/ui_state.py`, ... | none | pure functions | none: only `tests/test_determinism.py` calls it | a statement of intent that the service can be compared with |
| Infrastructure and scripts: `db/migrations`, `infra/`, `scripts/` | schema | deployment, seeding | none | keys and constraints, used by the modules |

The components meet in four places.  The review, the investigation and the
dashboard share `cases.status`.  The investigation reads the documents that the
pipeline writes, twice, at different times.  The investigation and the ADMIN endpoints write
the same rows of compliance results and DNA.  All of them append to
`audit_events`, each event in a transaction of its own, after the change it
reports.  Everything runs in one asyncio process (App Runner may run several):
a handler is interrupted at each `await`, and a database call is one
transaction.

## 2. Modules

| Module | What it is |
|---|---|
| `SettlementGate` | what the officer review promises the bank: a book of decisions by key, and the decision in force |
| `HumanReview` | `submit_review` call by call, the agent's status write, the dashboard's reads; implements `SettlementGate` |
| `HumanReviewProofs` | proofs about `HumanReview`, the refinement included |
| `RiskRules` | what the agent computes: triggers, evidence, score, band, the planner's choice of tools |
| `Recommendation` | what a run promises about its recommendation: given once, recorded as given, announced as recorded |
| `Investigation` | one run of the investigation graph over documents that may change; implements `Recommendation` |
| `InvestigationProofs` | proofs about `Investigation` and `RiskRules`, the refinement included |
| `DocumentPipeline` | overlapping uploads and their background tasks |
| `DocumentPipelineProofs` | proofs about `DocumentPipeline` |
| `CrossIBU` | the registry of fingerprints that the units share, and the matcher |
| `CrossIBUProofs` | proofs about `CrossIBU` |
| `ComplianceRules` | the rule engine: every check, completeness and their composition |
| `TransactionDna` | the DNA builder: values, sources and conflicts; extends the rules |
| `CaseAnalysis` | the rows of compliance and DNA with their three kinds of writer, over changing documents |
| `CaseAnalysisProofs` | proofs about `CaseAnalysis` and the operators of the two modules above |
| `FraudTools` | what the four providers answer to a DNA |
| `ToolCall` | what the investigation may take a tool call for: one whole reply or none, then the record |
| `ToolRunner` | one call of a tool: audits, attempts, retries, two time-outs; implements `ToolCall` |
| `ToolRunnerProofs` | proofs about `ToolRunner` and `FraudTools`, the refinement included |
| `RateLimit` | the middleware with both limiters |
| `RateLimitProofs` | proofs about `RateLimit` |
| `MC...` | the sets the configurations choose from, one module per component |

### HumanReview

`pc[r]` names the store call that activation `r` of `submit_review` makes next;
`Lookup`, `Save`, `UpdateStatus`, `AuditDecision` and `AuditStatusChange` are the
five calls in the order of `dashboard_api.py:246-293`, and `Fail` kills the
handler before any of them.  A client retry is another activation with the same
key.  `decisions` is the table; its unique constraint on the key is the guard of
`Save`.  `clock` gives `created_at` its order: the stamp is taken in the step of
the lookup, before the insert, as in the code, so that stamps and inserts may
disagree.  `AgentSave` is the transaction of `PostgresInvestigationStore.save`.
A viewer reads the case, perhaps the list of decisions, and then the decisions
again for the readiness, each in its own step.  `agentSaid` is a history variable: the
actions that investigations have recommended so far.

`SettlementGate` forgets handlers, stamps, status and audit.  `HumanReview`
implements it with `book[k]` as the row stored under key `k` and `inForce` as the
row with the latest stamp; the status column is not part of it, because the
code does not keep it in step (section 6).

### Investigation

`node` is the graph node that runs next.  One action per node; the calls to tools
inside a node share one step, since only the run itself writes its state, and
what others may change under it (`repo`, the stored documents) is read in the
step in which the code reads it.  A tool either gives a result, or raises, or
hangs until the outer time-out: `Outcome` has the three.  `_record_tool_call` is
modelled whole, with its budget check, its status and its audit event.
`Bedrock` chooses between the planner that an LLM drives, which may return any
list of known tools, and the deterministic one.  `Abort` is an uncaught
exception or the end of the process in any node.  Results are values that the
triggers and the score tell apart (`RiskRules`), not texts.

`Recommendation` forgets graph, evidence, tools and budget.  `Investigation` implements
it with the pending action as the verdict, and, once the run is stored, the status it stored
and the three events that follow.

### DocumentPipeline

`pc[u]` is the call that upload `u`, or its background task, makes next.  A record
is keyed by the content of its file, as `deterministic_document_id` does, so two
uploads of one content work on one row.  `SaveDocument` is the upsert: the name of
an existing row stays, everything else is overwritten.  `Raise` makes any call
fail before its effect and follows the exception handlers, whose own save may
fail too; `Restart` kills every request and task of the process.  Extraction
results are three: fields of the type's schema, a raw dict, none.

### CrossIBU

`pc[r]` is the store call that a registration or a query makes next.  `items` is the
DynamoDB table, whose key is the unit and the fingerprint; `keyView` and `indexView`
are what its reads and its indexes return.  The code asks for no consistent read, so
both lag: `CatchUpKeys` and `CatchUpIndexes` bring them up to date key by key, at any time.
`Expire` is the table's time to live, which deletes late; a query filters by its own
clock.  A signal is a function from the seven fields the fingerprint is made of, and
`Fingerprint` drops a missing field without a trace, as joining the values does.
`Similarity` (RapidFuzz) is a parameter.  Weights and thresholds are those of
`matching.json`, in hundredths; both thresholds give NEAR, so one is enough.
`known[r]` is a history variable: what every read returned when query `r` was stamped.

### ComplianceRules, TransactionDna and CaseAnalysis

A check of `rules/checks.py` is an operator that returns a set of findings, and
`evaluate_compliance` their union in the structure of `engine.py`: which checks exist
depends on which documents are there.  Amounts and quantities are integers (a quantity
counts in the smallest unit that appears), percentages are cross-multiplied, dates are
days.  Texts are elements of a set with its normal form `Plain` and the relation
`Similar` of texts the fuzzy threshold accepts as an advisory.  `TransactionDna` chooses a
value and its source by the code's two separate expressions, and compares quantities as
the builder does, each with the first one that can be converted.

`CaseAnalysis` starts from one case file and follows the requests that evaluate it: an ADMIN's
compliance and DNA requests, and an agent, reduced to the steps that touch the two rows
(`Investigation` has the rest).  Each row keeps, beside the result, the facts it was computed
from (a history variable), so that a property can say what the result rests on.  The documents change
under the requests (`Change`): a document is classified, extracted, or stored as FAILED over
its extraction; one whose file two uploads bring at once (`twice`) may be reset, and then be
in any state, because the saves of two tasks may follow each other in any order.

### FraudTools and ToolRunner

`phase` is where the call is: the first audit, the provider, the second audit, the record of
the orchestrator.  Time is in ticks; a tick passes only when no time-out is due, as timers of
one event loop fire, and `inAudit` counts the ticks spent in audit calls.  A provider may answer,
lose its connection (retried), raise anything else (not retried) or stay silent until a
time-out.  `OuterTimeout` cancels the runner wherever it is.  `FraudTools` has the answers: the
price against the P90 of its corridor, the schedule of vessels, the registry, the sanctions list
with its maximum over similarities.  
`Investigation` makes a call in one step and takes its outcome as a choice: a whole result,
none, or a raised error.  `ToolCall` states that view, and `ToolRunner` implements it: the statuses
are those of `RiskRules`, every reply answers for all parties or is unavailable for all,
and what was replied does not change while the runner goes on auditing.

### RateLimit

`stage[r]` is the check a request is at, `step[r]` the Redis command that comes next: `Ask` reads
the clock, `Incr` and `Expire` are the commands, and between any two of them other requests, ticks
and failures come in.  A failing command may have had its effect (the second disjuncts of `Incr`
and `Expire`) or not (`RedisFails`).  The limiter in the process counts in one step, because
`allow` does not await.  `ticket` is a history variable: the window and the number each
request was counted with, and whether its INCR came more than the extra second of the expiry
(`rate_limit.py:37`) after the window.

## 3. Runs

Passing runs, with the number of distinct states:

| Run | Instance | What it shows |
|---|---|---|
| `HumanReviewRequests` (229 thousand) | two requests, two keys, three callers, a viewer, an agent that holds or recommends settlement, one death; fair | bounded loss of audit events, truthful answers, reads, readiness shown on authority, the gate, every saved decision audited |
| `InvestigationFaults` (782 thousand) | two document types in four states, budgets 2 and 5, LLM planner, hangs, failures, one change of a document; fair | completeness of a READY run, when the rules answer INCOMPLETE, calls and writes accounted for however the run ends, the run implements `Recommendation`, progress |
| `InvestigationEvidence` (1.9 million) | every verdict, DNA, match, price, vessel and sanctions result, tools that hang or answer | a READY run is unsuspicious, a missing screening is on record, a hold is explained |
| `DocumentPipelineUploads` (343 thousand) | two uploads, two contents, two names, two raising calls, one restart; fair | records settle, stores and audit agree, injected text is reported, progress |
| `CrossIBURegistry` (1.1 million) | three requests of three units (one not looked up by key), four signals, two days, a time to live of one, one rebuilt DNA, one death | duplicates reported, answers grounded, registrations kept, audit complete but for one event per death |
| `CaseAnalysisRules` (403 thousand) | seven families of case files that vary one group of inputs around its boundaries over a presentation that complies, and nine case files with documents in transition, one of them uploaded twice, under overlapping requests | COMPLIANT means conforming, findings are monotone, sources are true, disagreements are conflicts and, with one unit, discrepancies |
| `ToolRunnerCalls` (449 thousand) | four tools, DNA with and without each field, boundary prices and dates, names at and one below the threshold, four relations of the two time-outs; fair | typed results, a party is clear exactly if no listed name is similar, the runner implements `ToolCall`, every call ends |
| `RateLimitWindows` (1.8 million) | three requests of one client, uploads of one officer or without one, limits 2, 1 and 1, windows of two seconds and four seconds, both limiters; symmetric requests | a window serves at most its limit, nobody is refused below it |

Why these bounds are enough to be interesting.  Two requests on two keys allow
a race on one key, a retry of a finished or dying request, and two decisions that
overtake each other; a retry may come with the same or another decision, and from
another caller.  Budgets 2 and 5 end before, within and after the
tool calls (a run makes two to three calls before them and at most six in
them).  One document may change
at any time, which is what tells the two reads of the repository apart; two
would only repeat it.  Two uploads of one content under two names allow every
overlap of two writers of a row, two raising calls allow a failing handler whose
failure cannot be saved either.  Three requests are the fewest with
two candidates and a query, or a registration, its renewal and a query; the four
signals reach every match level; two days let one registration expire while another is
alive.  In a family of case files all documents but a few
fields agree, so that one finding more or less decides the status; the values stand on both sides
of each tolerance (5 and 10 percent, 110 percent, 21 days) and of each date.  Three requests are the fewest
that overrun a limit of two, and four seconds the fewest in which a counter of the first window
expires.  The time-outs of a tool call are taken equal (the defaults), with
room for every attempt, and with room for the attempts but not for the audit calls.  The proofs remove
the bounds for the safety properties.

What each loss costs is stated as a bound where the code cannot avoid the loss:
`EachCrashLosesOneAudit` and the last conjunct of `AuditComplete` count deaths, and
`WritesAccounted` allows a run that died one write without its event.  Two properties say when a
weakness of the code may show.  `IncompleteVerdictExplained`: a case that the agent found complete
gets INCOMPLETE from the rules only for a PARTIAL document, a document wanted in several copies, or a
change in between.  `UnscreenedIsOnRecord`: readiness without a cleared party leaves a
screening without answer in the trail, or, under an LLM planner, a trail without screening.
`ReadyShownOnAuthority` is the part of `ShownReadyOnlyIfApproved` the code keeps: READY is shown after
a decision only, for an approval or for an investigation that recommended it.

Violations: each checks one property that a document, a comment or a test states
and the code does not keep.  `PROJECT.json` quotes the statement.

| Run | Property | What happens |
|---|---|---|
| `HumanReviewAgentReady` | `ShownReadyOnlyIfApproved` | the agent's READY overwrites the status of an officer's HOLD, and the dashboard shows it |
| `InvestigationHang` | `ReadyIsScreened` | sanctions screening hangs, its result is None, the run recommends readiness |
| `DocumentPipelineMalformed` | `CaseReadable` | a raw dict is stored that no later read can validate |
| `CaseAnalysisHidden` | `InvoiceExamined` | a first invoice without extraction hides a second one that was extracted: COMPLIANT with no check of an invoice |

## 4. Fairness

`HumanReview` and `DocumentPipeline` assume weak fairness of the next call of each
handler that has started: the asyncio loop resumes a coroutine whose await has
completed, and the calls complete because the database driver and the storage
client have time-outs of their own, or raise (`Fail`, `Raise`), which ends the
handler too.  OCR polling is bounded by `wait_for` (120 s).  Nothing is assumed of
clients, viewers or the agent.  `Investigation` assumes weak fairness of the run's
step: every tool call is inside `wait_for` (`config.py:31`).  The planner and the
repository's reads have no time-out of the service's own; progress there rests on
those of the HTTP and database clients.  A run may abort at any time, so no
liveness property claims more than an end.  `ToolRunner` assumes that the clock goes on, that a due timer fires and that the
orchestrator's own audit call returns; nothing of providers and of the runner's audit calls, which
may stay silent for ever.  `CrossIBU`, `CaseAnalysis` and `RateLimit` claim safety only.

## 5. Proofs

Each proof module proves of an inductive invariant `Init => Inv` and
`Inv /\ [Next]_vars => Inv'` with one lemma per group of actions, and derives the
properties from it; several build a second invariant on the first.  The assumptions are those of the modules
(`ReviewAssumption`, `InvestigationAssumption`, `PipelineAssumption`, `RegistryAssumption`,
`RulesAssumption`, `DnaAssumption`, `CasesAssumption`, `ToolsAssumption`, `RunnerAssumption`,
`RateAssumption`): bounds are
natural numbers, the constant sets have the kinds of element the code has, and the
values that stand for None are none of them.  Sets of requests, keys, types or uploads may
be infinite, except the requests of `RateLimit`, which are counted, and the documents of a case.

`HumanReviewProofs`: `ReviewInv`.  One decision per key needs no more than the guard
of `Save`, but truthful answers need to know that a draft belongs to its request and
is the row the request saved (`DraftInv`, `LedgerInv`), and that a handler about to
audit the status change has audited the decision (`HandlerAudited`).  The
refinement `ReviewImplementsGate` needs that stamps of drafts are distinct, so that the
latest row is unique, and that a latest row exists, which for an infinite set of
requests is part of the invariant.  What is known of viewers and of handlers that died is a
second invariant, `OutcomeInv`: a death leaves unaudited at most the decision of its own
handler (`BoundedAuditLoss`), and what a viewer holds was in the ledger when it read it
(`FreshReadiness`, `ReadinessIsAnApproval`).  `ReadyHasAuthority` is for every agent: a case
shown READY has a decision, and an approval or an investigation that recommended it; with
`HumanReviewAgentReady` it says that nothing but the agent's status write shows READY without an approval.

`InvestigationProofs`: `InvestigationInv`.  What a READY run has passed is known node by
node (`PassedInv`): from each node on, a run that is not under review has done the checks
before it.  `GateInv` ties the review flag to the action, `BandInv` the band and the
cited evidence to the findings, `OutcomeInv` the saved status and the last events to
the node.  `RunImplementsPromise` is the refinement of `Recommendation`; that no review is
withdrawn is one of its consequences.  `ScreeningInv` follows the sanctions tool from the planner's queue to
the verdicts: `AnsweredScreeningClears` and `DeterministicPlannerScreens` hold for every run, and
`UnscreenedReadinessIsOnRecord` joins them for both planners and whatever hangs.
`InvestigationHang` shows that no more can be said: readiness without a screening exists.
`IncompleteVerdictsAreExplained` rests on `RuleVerdictInv` (until a document changes, the
repository is what the run loaded), `TrailAccountsForEveryRun` on `WritesInv` (which writes exist at
which node).
`WorseFindingsAreNeverSafer` is about the operators alone: in the order of findings from harmless to
grave, score and triggers are monotone, so that a tool that reports something worse cannot turn a hold
into readiness.

`DocumentPipelineProofs`: `PipelineInv`.  An upload leaves a trail: at each of its
calls the file, the row and the first event are there (`TraceInv`).  Uploads
overwrite each other's rows, so a record that is not final is not the business of
the task that wrote it but of some task on the same content, or of its death
(`SettledInv`, and `ExtractionInv` for the event).  `RecordsOnlyGoForward` says when they do harm: a
record is never deleted, and its status goes back only where a second upload of the file missed it too (or died
at its lookup: the model cannot tell the two apart).  `WriterInv` carries it: a record was written by an upload that entered, and
is no further than the only one that did.

`CrossIBUProofs`: `RegistryInv`.  The table and every read hold at most one item per
key, each put by some handler (`StoreInv`); what has been put is there, itself or a
later one, until it expires (`KeptInv`), and what a query could see when it was stamped stays
visible in the table and in both reads (`KnownInv`), because a view only ever moves to
the table's version.  `DuplicatesAreReported` adds that no candidate is better than an
exact one.  It needs no hypothesis about fingerprints: a unit may replace a registration by one with other
fields and the same fingerprint, and such a key still warns by its fingerprint; a
warning by the B/L alone is promised as long as all that was registered under the key has that B/L
(`KeyKeepsBl`).  `AuditIsComplete` counts the deaths with a second invariant, `DeathInv`.

`CaseAnalysisProofs`: `AnalysisInv`.  Its state part is small: what is held or stored is the
engine's, or the builder's, answer to facts of the right types.  The work is in lemmas about the
operators.  `CompliantMeansConforms` goes from the absence of findings, check by check, to the
agreement of the documents with one another, which no single check compares: the chains of texts
(`GoodsLemma`, `PartiesLemma`, `VoyageLemma`), the cover of 110% of an invoice that is itself bounded by the
credit (`MoneyLemma`), insurance, shipment and presentation in order (`TimeLemma`).
`FaultlessCasesPass` is the other direction: a presentation in which each datum reads the same wherever
it is stated and every number keeps to the credit has no finding, so no check wants what another
forbids.  The two do not meet, because the engine leaves some things unexamined (section 6).
`FindingsStay` and `CompleteStaysComplete` give monotonicity; `DisagreementLemma` shows
that comparing with the first readable quantity is enough; `QuantityConflictLemma` and `OneMeasure`
relate the two components: a quantity conflict of the DNA and no finding of the rules exclude
each other where one unit is used.

`ToolRunnerProofs`: `RunnerInv`.  `Clock` accounts for the time: what was not spent in audit calls
was spent in at most the allowed number of attempts, each within the inner time-out, so that a call
without result has waited out the outer one.  `EndedInv` adds what the refinement of `ToolCall` needs: a
call has its reply before it is recorded.  `ClearedAreDissimilar` rests on `BestIsMostSimilar`: for any
list and any ratio up to 100 the record the code selects is one of the most similar, found by
its distance from 100, so that a party is clear exactly if no record reaches the
threshold; a name that is on the list never is.  That `Threshold` is at most 100 is an assumption.

Two variants prove the half of termination that needs no fairness.  `RunsGoForward`: every step of a
run lowers `StepsLeft`, so it takes at most nineteen, whatever fails and however often documents change.
`CallsRunDown`: every step of a tool call, a tick of the clock included, lowers its `StepsLeft`, which starts at
the ticks of the outer time-out, three steps for each attempt and three more.  What remains
for TLC is that a step is taken, which is what fairness says.

`RateLimitProofs`: `RateInv`.  No counter is ahead of the requests it counted
(`Received`), which gives that a refusal is due.  Until its window has been over for a second a
counter is there and not behind any number it gave out (`Recent`), so these
numbers are distinct (`Distinct`), and distinct numbers up to the limit are at most as many as the
limit.  Both limiters are in one invariant.

The theorems are listed in `PROJECT.json`.  Each invariant, action property and refinement that
a passing run checks is stated by one.  Some state properties that no configuration checks, because the proof
says more: `OneDecisionPerKey`, `AuditNeverAheadOfLedger`, `ReadinessFromLedger`, `BudgetAccounted`,
`CallsAudited`, `OutcomeAudited`, `ReviewNeverWithdrawn`, `AnsweredScreeningIsClear`, `PlannerAlwaysScreens`, `RunsForward`,
`AnswersWhole`, `ListedIsNotClear`, `CallRunsDown`, `RecordHasObject`, `AcceptedIsStored`, `RecordsGoForward`,
`FaultlessIsCompliant` and the inductive invariants.  TLC found no counterexample to any of them on
the instances of section 3 before it was proved.  Only model-checked: the four liveness
properties (`SavedDecisionIsAudited`, `RunEnds`, `EveryUploadEnds`, `CallEnds`), which rest on fairness and are beyond the prover.  What a recursive
definition computes is not needed: no module has one.

## 6. Observations

Met while modelling.  No configuration checks them; some contradict a document, which is
then named.

Review:

- Two reviews that interleave between insert and status write leave the case with the status of
  the earlier decision for good (`API/dashboard_api.py:272`; `tests/unit/test_human_review_dashboard.py:108`
  asserts the status of the latest).
- A review that dies after its insert is answered 201 from the ledger when it is retried, and is
  never audited by the retry (`API/dashboard_api.py:251`; `docs/DEMO_SCRIPT.md:69` says that every step
  generates an audit entry).

Investigation and tools:

- A PARTIAL document satisfies the agent's completeness check and not the engine's: the engine
  returns INCOMPLETE without findings, and a run can recommend readiness with no rule evaluated
  (`API/investigation_orchestrator.py:583`; `rules/completeness.py:48` says of such a check "Never skip this gate").
- With the default time-outs (30 s for an attempt, one retry, 30 s outside) a provider that hangs
  leaves no room for its retry: `TypedUnlessSqueezed` needs an outer time-out longer than
  all attempts and the audit calls.
- The runner's COMPLETED event may be in the trail of a call that is recorded as DATA_UNAVAILABLE.
- A DNA without unit value is asked about as 0 and the price is NORMAL; so is every price up to the P90, far
  below the reference minimum too (`docs/DEMO_SCRIPT.md:65` shows the tool detecting over- and under-invoicing).
- A DNA without shipment date is asked about as 1970-01-01: the vessel is an ANOMALY.
- The runner passes `ocean_star` and the provider compares capitals with `OCEAN STAR`: a vessel of
  several words is found by its IMO number only (`API/fraud_tbml_runner.py:123`,
  `fraud_tbml/vessel_verification.py:41`).

Rules and DNA:

- The agent's evaluation with default inputs overwrites the ADMIN's and has no
  `UCP_RULE_EXECUTED` event; no row is invalidated when a document changes, so the two rows of a
  case may rest on different documents.
- Expiry and presentation period are not checked without the date of shipment or presentation, insurance
  not beside a missing invoice, and the goods of credit and bill of lading not against each other
  when the invoice is silent on them.
- 0 days of presentation is the default of 21, a drawing of 0 is the invoice amount (`rules/engine.py:184`),
  though `checks.py` asks for `None` in the same place.
- The engine compares numbers without units: 5 KG and 5 MT are equal for it and a conflict of the DNA
  (`docs/evaluation_report.md:23`).
- Quantity and unit of the DNA may come from different documents while `sources` names the invoice.
- Texts without Latin letters normalise to nothing and compare equal.
- The fingerprint has not the HS code, weight and container of `README.md:88-93`; two cases of one bill of lading get
  different ones when the credit's port or the invoice's seller differ.
- Postgres lists documents by insertion and the in-memory repository by stamp.

Rate limiter:

- An INCR that reaches Redis more than a second after its window may find the counter expired and
  count from one (`late` in `ServedWithinLimits`).
- Two limits can be spent around a boundary of windows; counters in the process are lost with it.

Pipeline, agent and registry:

- A retried upload that missed the record resets a finished extraction to UPLOADED and processes it
  again (`API/api.py:147`; `tests/unit/test_document_intelligence.py:57` asserts that a second
  upload leaves it EXTRACTED).  `RecordsOnlyGoForward` shows that nothing else resets a record.
- A SUSPICIOUS entity, or a vessel that cannot be verified, never holds a case by
  itself: the two have no trigger and too little weight (`agents/risk.py`).
- The scanner meant for production always answers UNAVAILABLE, and an upload is then
  refused with 503 (`API/malware.py`).
- A record that FAILED is found by its hash and never processed again; so is one whose task was
  lost with the process, which stays unfinished (`API/api.py:124`, `API/api.py:156`).
- A run that dies between saving a hold and its last event is never announced
  (`API/investigation_orchestrator.py:147`).
- Two overlapping uploads under different names classify the file by the name of
  the task that ran last, while the row keeps the first name.
- Two concurrent runs of one case overwrite each other's whole state.
- The fingerprint joins its fields without a separator (`dna/builder.py:342`), so a
  missing field leaves no trace, and two cases in which none of the seven was found
  share the fingerprint of the empty text and match as EXACT.  Two trades of one unit with one
  fingerprint replace each other in the registry, and the B/L of the first is then not found.
- A DNA that is built again leaves the old registration under the old fingerprint.
- A unit outside `simulated_ibus` is found through the indexes only: an exact fingerprint
  without B/L, exporter and dated vessel is not found.
- Two units that both query before either registers both learn of no duplicate.

## 7. Not modelled

The second rule library (`rules/ucp600.py`, `risk_scoring.py`, ...): the service does not call
it.  The web interface: `use-workflow.ts` plays a demonstration over mock data; `startWorkflow` clears
the flag with which a reset cancelled the previous run (line 42), so an old loop may write into
the steps of a new run, which touches nothing the service keeps.  The polling of the OCR client
inside its `wait_for`, health endpoints, case creation and the plain reads of the pipeline, each one transaction;
infrastructure, seeding and migrations.  A restart of the in-process limiter and a clock that goes back.
The production providers of the fraud tools, which are not wired
(`API/services.py:174`): they raise, and are not retried.

DynamoDB answers of more than one page (the code reads the first).  Wording, layout, logging, telemetry, hashing and the JSON formats.  Tenant checks
are modelled where a handler's outcome depends on them (`Begin` of `HumanReview`) and
assumed elsewhere.  One document per type stands for the list of a case in
`Investigation`: the code takes the first of each type.  The fraud runner's own
`TOOL_CALLED` events are not in `audit` of `Investigation`, which has the
orchestrator's.  The engine emits MATERIAL and ADVISORY severities only, so the
third weight of the score is not reached.
