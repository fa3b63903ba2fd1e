------------------------------ MODULE ToolRunner ------------------------------
(***************************************************************************)
(* One call of a fraud tool by the investigation agent: the runner's two   *)
(* audit events around a provider it asks with a time-out and retries      *)
(* (fraud_tbml_runner.py), all of it inside the time-out of                *)
(* _record_tool_call, which records what became of the call.               *)
(*                                                                         *)
(* A provider and the audit store may answer, raise, or stay silent.  Time *)
(* passes in ticks; no tick passes a time-out that is due.                 *)
(***************************************************************************)
EXTENDS FraudTools

CONSTANTS
  Dnas,    \* the DNA a call may be about
  Limits   \* time-outs and retries: [inner, outer, attempts]

Tools == {"price_benchmark", "vessel_verification", "entity_verification",
          "sanctions_screening"}

ASSUME RunnerAssumption ==
  /\ \A d \in Dnas :
       /\ {d.exporter, d.importer, d.vessel} \subseteq Names \cup {None}
       /\ d.shipped \in Days \cup {None}
       /\ d.unitValue \in Int \cup {None}
  /\ \A l \in Limits : l.inner \in Nat \ {0} /\ l.outer \in Nat \ {0} /\ l.attempts \in Nat \ {0}

VARIABLES
  dna, tool, limits,  \* the call
  phase,              \* where the call is
  now,                \* ticks since it was made
  inAudit,            \* of these, ticks spent waiting for the audit store
  attempt, began,     \* which attempt is under way, and since when
  answered,           \* subjects the provider answered for in this attempt
  result,             \* the tool's result, None without one
  status,             \* the status of the call's record
  lost,               \* an audit event of the runner could not be recorded
  trail               \* TOOL_CALLED events

vars == <<dna, tool, limits, phase, now, inAudit, attempt, began, answered, result, status,
          lost, trail>>

call == <<dna, tool, limits>>

Init ==
  /\ dna \in Dnas
  /\ tool \in Tools
  /\ limits \in Limits
  /\ phase = "started"
  /\ now = 0
  /\ inAudit = 0
  /\ attempt = 0
  /\ began = 0
  /\ answered = {}
  /\ result = None
  /\ status = "COMPLETED"
  /\ lost = FALSE
  /\ trail = {}

-------------------------------------------------------------------------------
(* The runner *)

\* The first event is in the trail, and the first attempt begins.
AuditStarted ==
  /\ phase = "started"
  /\ trail' = trail \cup {"STARTED"}
  /\ phase' = "ask"
  /\ attempt' = 1
  /\ began' = now
  /\ UNCHANGED <<call, now, inAudit, answered, result, status, lost>>

\* The audit store raises: _record_tool_call catches it and has no result.
AuditFails ==
  /\ phase \in {"started", "completed"}
  /\ phase' = "record"
  /\ result' = None
  /\ status' = "DATA_UNAVAILABLE"
  /\ lost' = TRUE
  /\ UNCHANGED <<call, now, inAudit, attempt, began, answered, trail>>

\* Entities are asked about one after the other, the exporter first; the other
\* tools ask once.
First(S) == IF "exporter" \in S THEN {"exporter"} ELSE S

AnsweredNext ==
  LET rest == Subjects(tool, dna) \ answered
  IN  IF tool = "entity_verification" THEN answered \cup First(rest) ELSE Subjects(tool, dna)

Answers == [s \in Subjects(tool, dna) |-> Verdict(tool, dna, s)]

ProviderAnswers ==
  /\ phase = "ask"
  /\ answered' = AnsweredNext
  /\ IF answered' = Subjects(tool, dna)
     THEN result' = Answers /\ phase' = "completed"
     ELSE UNCHANGED <<result, phase>>
  /\ UNCHANGED <<call, now, inAudit, attempt, began, status, lost, trail>>

\* Mutant: what was answered before the failure is kept.
KeepAnswered ==
  [s \in Subjects(tool, dna) |->
     IF s \in answered THEN Verdict(tool, dna, s) ELSE Unavailable(tool)]

AllUnavailable == [s \in Subjects(tool, dna) |-> Unavailable(tool)]

\* Mutant: one attempt more than retry_count allows.
OneMoreRetry ==
  IF attempt <= limits.attempts
  THEN attempt' = attempt + 1 /\ began' = now /\ answered' = {} /\ UNCHANGED <<result, phase>>
  ELSE result' = AllUnavailable /\ phase' = "completed" /\ UNCHANGED <<attempt, began, answered>>

\* _execute after a time-out or a lost connection: another attempt, from the first
\* entity on, or the typed result that nothing is available.
RetryOrGiveUp ==
  IF attempt < limits.attempts
  THEN attempt' = attempt + 1 /\ began' = now /\ answered' = {} /\ UNCHANGED <<result, phase>>
  ELSE result' = AllUnavailable /\ phase' = "completed" /\ UNCHANGED <<attempt, began, answered>>

\* ConnectionError or OSError
ProviderLost ==
  /\ phase = "ask"
  /\ RetryOrGiveUp
  /\ UNCHANGED <<call, now, inAudit, status, lost, trail>>

\* Mutant: the runner catches what it retries only.
UncaughtRaises ==
  /\ phase = "ask"
  /\ result' = None
  /\ phase' = "record"
  /\ status' = "DATA_UNAVAILABLE"
  /\ UNCHANGED <<call, now, inAudit, attempt, began, answered, lost, trail>>

\* Any other exception, DataUnavailableError among them, is not retried.
ProviderRaises ==
  /\ phase = "ask"
  /\ result' = AllUnavailable
  /\ phase' = "completed"
  /\ UNCHANGED <<call, now, inAudit, attempt, began, answered, status, lost, trail>>

InnerDue == phase = "ask" /\ now >= began + limits.inner
OuterDue == phase \in {"started", "ask", "completed"} /\ now >= limits.outer

\* The outer timer is the older one: when both are due it comes first.
InnerTimeout ==
  /\ InnerDue
  /\ ~OuterDue
  /\ RetryOrGiveUp
  /\ UNCHANGED <<call, now, inAudit, status, lost, trail>>

\* The result's status is in the trail, and the runner returns.
AuditCompleted ==
  /\ phase = "completed"
  /\ trail' = trail \cup {"COMPLETED"}
  /\ phase' = "record"
  /\ UNCHANGED <<call, now, inAudit, attempt, began, answered, result, status, lost>>

-------------------------------------------------------------------------------
(* _record_tool_call *)

\* Mutant: only the provider is under the outer time-out.
OuterTimeoutAsking ==
  /\ OuterDue
  /\ phase = "ask"
  /\ phase' = "record"
  /\ result' = None
  /\ status' = "DATA_UNAVAILABLE"
  /\ UNCHANGED <<call, now, inAudit, attempt, began, answered, lost, trail>>

\* The runner is cancelled wherever it waits; an event it was recording may be in
\* the trail or not.
OuterTimeout ==
  /\ OuterDue
  /\ phase' = "record"
  /\ result' = None
  /\ status' = "DATA_UNAVAILABLE"
  /\ \/ UNCHANGED trail
     \/ phase = "started" /\ trail' = trail \cup {"STARTED"}
     \/ phase = "completed" /\ trail' = trail \cup {"COMPLETED"}
  /\ UNCHANGED <<call, now, inAudit, attempt, began, answered, lost>>

\* The record of the call is audited; without it the node raises.
Record ==
  /\ phase = "record"
  /\ \/ phase' = "done" /\ trail' = trail \cup {"RECORDED"}
     \/ phase' = "raised" /\ UNCHANGED trail
  /\ UNCHANGED <<call, now, inAudit, attempt, began, answered, result, status, lost>>

Tick ==
  /\ phase \in {"started", "ask", "completed"}
  /\ ~InnerDue
  /\ ~OuterDue
  /\ now' = now + 1
  /\ inAudit' = IF phase = "ask" THEN inAudit ELSE inAudit + 1
  /\ UNCHANGED <<call, phase, attempt, began, answered, result, status, lost, trail>>

Next ==
  \/ AuditStarted \/ AuditFails \/ AuditCompleted
  \/ ProviderAnswers \/ ProviderLost \/ ProviderRaises
  \/ InnerTimeout \/ OuterTimeout
  \/ Record \/ Tick

Spec == Init /\ [][Next]_vars

\* The clock goes on and timers fire; the orchestrator's own audit call returns.
\* The provider and the runner's audit calls owe nothing.
FairSpec == Spec /\ WF_vars(Tick) /\ WF_vars(InnerTimeout \/ OuterTimeout) /\ WF_vars(Record)

-------------------------------------------------------------------------------
(* Properties *)

\* The statuses the agent understands, by tool (models/fraud_tbml.py); it adds those
\* of a check that did not run and of a party nobody named.
Agent == INSTANCE RiskRules

Signals ==
  [price_benchmark     |-> Agent!PriceSignals \ {"NOT_RUN"},
   vessel_verification |-> Agent!VesselSignals \ {"NOT_RUN"},
   entity_verification |-> Agent!EntitySignals \ {"NOT_RUN"},
   sanctions_screening |-> Agent!SanctionsSignals \ {"NOT_RUN", "UNNAMED"}]

Ended == phase \in {"record", "done", "raised"}

\* The tool has a result: the runner is about to return it, or did.
HasResult == phase = "completed" \/ (Ended /\ status = "COMPLETED")

\* The state of one call; a call in progress is within its time-outs, and a record
\* of status COMPLETED has a result with statuses the agent understands.
TypeOK ==
  /\ dna \in Dnas /\ tool \in Tools /\ limits \in Limits
  /\ phase \in {"started", "ask", "completed", "record", "done", "raised"}
  /\ now \in 0..limits.outer
  /\ inAudit \in 0..now
  /\ attempt \in 0..limits.attempts
  /\ began \in 0..now
  /\ answered \subseteq Subjects(tool, dna)
  /\ IF HasResult
     THEN result \in [Subjects(tool, dna) -> [status : Signals[tool], known : BOOLEAN]]
     ELSE result = None
  /\ status \in {"COMPLETED", "DATA_UNAVAILABLE"}
  /\ lost \in BOOLEAN
  /\ trail \subseteq {"STARTED", "COMPLETED", "RECORDED"}

\* Tools degrade to typed unavailable results (fraud_tbml_runner.py:174): whatever a
\* provider does, the call has a result, unless an audit event is lost or the outer
\* time-out leaves no room for the attempts beside the audit calls.
TypedUnlessSqueezed ==
  Ended /\ ~lost /\ inAudit + limits.attempts * limits.inner < limits.outer
    => status = "COMPLETED"

\* A result covers every party of the transaction, either with the provider's
\* answers or with none of them (fraud_tbml_runner.py:151): never some answers of an
\* attempt that failed.
AnswersWhole ==
  HasResult =>
    \/ \A s \in Subjects(tool, dna) : result[s] = Verdict(tool, dna, s)
    \/ \A s \in Subjects(tool, dna) : result[s] = Unavailable(tool)

\* A party is reported clear exactly if the provider answered for it and no record of
\* the sanctions list is as similar as the threshold (sanctions_screening.py:38): the
\* record the answer is taken from stands for the whole list, and an attempt that
\* failed clears nobody.
Similar(form) == {i \in DOMAIN SdnList : Ratio[form][SdnList[i].name] >= Threshold}

ClearExactlyIfDissimilar ==
  tool = "sanctions_screening" /\ HasResult =>
    \A role \in Entities(dna) :
      result[role].status = "NO_MATCH" <=>
        result[role].known /\ Similar(NameForm[dna[role]]) = {}

\* Above all, a party whose name is on the list is never reported clear.
ListedIsNotClear ==
  tool = "sanctions_screening" /\ HasResult =>
    \A role \in Entities(dna) :
      (\E i \in DOMAIN SdnList : SdnList[i].name = NameForm[dna[role]])
        => result[role].status # "NO_MATCH"

\* The call implements ToolCall: the investigation may take it for one question with
\* at most one whole reply, though the runner may already have had a result when the
\* outer time-out took it back.
Reply(answers) == [status |-> "COMPLETED", result |-> answers]

WholeReplies(q) ==
  {Reply([s \in Subjects(q.tool, q.dna) |-> Verdict(q.tool, q.dna, s)]),
   Reply([s \in Subjects(q.tool, q.dna) |-> Unavailable(q.tool)])}

Interface == INSTANCE ToolCall WITH
               Questions <- [tool : Tools, dna : Dnas],
               Replies   <- WholeReplies,
               Pending   <- [status |-> "PENDING", result |-> None],
               Nothing   <- [status |-> "DATA_UNAVAILABLE", result |-> None],
               question  <- [tool |-> tool, dna |-> dna],
               reply     <- [status |-> IF Ended THEN status ELSE "PENDING",
                             result |-> IF Ended THEN result ELSE None],
               record    <- IF phase \in {"done", "raised"} THEN phase ELSE "open"

ToolCallSpec == Interface!Spec

\* How many steps, ticks of the clock included, a call may still take: every attempt
\* may answer for one party after the other, fail, and be followed by another.
Unanswered(parties) == Cardinality(Roles \ parties)

StepsAhead ==
  IF phase = "started"        THEN 3 * limits.attempts + 3
  ELSE IF phase = "ask"       THEN 3 * (limits.attempts - attempt) + Unanswered(answered) + 3
  ELSE IF phase = "completed" THEN 2
  ELSE IF phase = "record"    THEN 1
  ELSE 0

StepsLeft == (limits.outer - now) + StepsAhead

\* Each step of a call uses one up, whatever the provider and the audit store do.
CallRunsDown == [][StepsLeft' \in 0..StepsLeft - 1]_vars

\* The agent gets on: a call ends though its provider or the runner's audit calls
\* never return (investigation_orchestrator.py:534).
CallEnds == <>(phase \in {"done", "raised"})
===============================================================================
