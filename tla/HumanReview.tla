------------------------------ MODULE HumanReview ------------------------------
(***************************************************************************)
(* The human review of one case: the officer decision ledger, the case     *)
(* status, and the audit trail, as the FastAPI handlers of                 *)
(* dashboard_api.py change them over the Postgres stores, with the         *)
(* investigation's own status write and the dashboard's reads interleaved. *)
(*                                                                         *)
(* Every await of a handler is a place where another request runs, so      *)
(* submit_review is one action per store call.  Each store call is one     *)
(* transaction, hence atomic; the handler as a whole is not.  A request    *)
(* may die (storage error, process crash) before any of its calls.         *)
(***************************************************************************)
EXTENDS Integers, FiniteSets

CONSTANTS
  Requests,      \* activations of submit_review: a client retry is another one
  Viewers,       \* concurrent dashboard readers
  Keys,          \* Idempotency-Key header values
  Comments,      \* comments of at least ten characters
  Submitted,     \* the decisions that officers submit
  Principals,    \* authenticated callers: [subject, role, ibu]
  CaseIbu,       \* the IBU that owns the case
  AgentActions,  \* recommended_action values the investigation may save
  NoRow,         \* no decision: None
  MaxAgentRuns,  \* bound: investigations saved during the behaviour
  MaxFailures    \* bound: requests that die half-way

ReviewDecision == {"APPROVE", "HOLD", "ESCALATE", "REQUEST_MORE_EVIDENCE"}

READY_ACTION == "READY FOR BANK SETTLEMENT WORKFLOW"
HOLD_ACTION  == "HOLD - REVIEW REQUIRED"
AWAITING     == "HOLD - AWAITING OFFICER"

\* Mutant: the decision itself is written.
StatusOfRaw(d) == d

\* The status submit_review writes for a decision.
StatusOf(d) ==
  CASE d = "APPROVE"  -> READY_ACTION
    [] d = "HOLD"     -> "HOLD - OFFICER DECISION"
    [] d = "ESCALATE" -> "ESCALATED - SENIOR COMPLIANCE"
    [] OTHER          -> "PENDING - MORE EVIDENCE"

CaseStatuses ==
  {"RECEIVED", READY_ACTION, HOLD_ACTION, "HOLD - OFFICER DECISION",
   "ESCALATED - SENIOR COMPLIANCE", "PENDING - MORE EVIDENCE"}

\* ReviewRequest with the caller and the header it came with.
Inputs == [by : Principals, key : Keys, decision : Submitted, comment : Comments]

\* OfficerDecision: id names the request that created it, at is created_at.
Rows == [id : Requests, key : Keys, decision : Submitted, comment : Comments,
         officer : Principals, at : Nat]

Events == [type : {"OFFICER_DECISION", "SETTLEMENT_STATUS_CHANGED"}, id : Requests]

\* 201 with a new decision, 201 with the stored one, and the refusals.
Codes == {"none", "created", "existing", "forbidden", "conflict", "error"}

ASSUME ReviewAssumption ==
  /\ Submitted \subseteq ReviewDecision
  /\ AgentActions \subseteq {READY_ACTION, HOLD_ACTION, "none"}
  /\ MaxAgentRuns \in Nat
  /\ MaxFailures \in Nat
  /\ NoRow \notin Rows
  /\ NoRow \notin Inputs
  /\ \A p \in Principals : {"role", "ibu"} \subseteq DOMAIN p

VARIABLES
  decisions,   \* officer_decisions rows of the case
  caseStatus,  \* cases.status
  audit,       \* audit_events of the review: insert only (database trigger)
  clock,       \* time of the last created_at stamp
  pc,          \* pc[r]: the store call request r makes next
  req,         \* req[r]: what the client sent, or NoRow
  draft,       \* draft[r]: the OfficerDecision the handler built, or NoRow
  reply,       \* reply[r]: status code and body
  view,        \* view[v]: what dashboard reader v has read so far
  agentRuns,   \* investigations saved
  agentSaid,   \* history: the actions those investigations recommended
  failures     \* requests that died

ledgerVars == <<decisions, caseStatus, audit>>
requestVars == <<clock, pc, req, draft, reply>>
vars == <<decisions, caseStatus, audit, clock, pc, req, draft, reply, view,
          agentRuns, agentSaid, failures>>

\* Mutant: the rows are ordered by created_at descending.
LatestDescending(rows) ==
  IF rows = {} THEN NoRow
  ELSE CHOOSE row \in rows : \A other \in rows : row.at <= other.at

\* list_for_case(...)[-1]: the row with the greatest created_at.
Latest(rows) ==
  IF rows = {} THEN NoRow
  ELSE CHOOSE row \in rows : \A other \in rows : other.at <= row.at

Approved(rows) == rows # {} /\ Latest(rows).decision = "APPROVE"

\* display_status of a case whose record was read as status.
Display(status, rows) ==
  IF rows = {} THEN AWAITING
  ELSE IF Approved(rows) THEN READY_ACTION ELSE status

IdleView == [pc |-> "idle", status |-> "RECEIVED", listed |-> {},
             shown |-> AWAITING, approved |-> FALSE, latest |-> NoRow]

Init ==
  /\ decisions = {}
  /\ caseStatus = "RECEIVED"
  /\ audit = {}
  /\ clock = 0
  /\ pc = [r \in Requests |-> "idle"]
  /\ req = [r \in Requests |-> NoRow]
  /\ draft = [r \in Requests |-> NoRow]
  /\ reply = [r \in Requests |-> [code |-> "none", body |-> NoRow]]
  /\ view = [v \in Viewers |-> IdleView]
  /\ agentRuns = 0
  /\ agentSaid = {}
  /\ failures = 0

-------------------------------------------------------------------------------
(* submit_review, one action per store call *)

Goto(r, label) == pc' = [pc EXCEPT ![r] = label]

Answer(r, code, row) ==
  /\ Goto(r, "done")
  /\ reply' = [reply EXCEPT ![r] = [code |-> code, body |-> row]]

\* Mutants of the definitions below: the decision is not compared; only the last
\* row saved is kept; the IntegrityError is swallowed.
SamePayloadNoDecision(row, in) == row.comment = in.comment
InsertReplaces(row) == decisions' = {row}
LostInsertSwallowed(r) == Goto(r, "status") /\ UNCHANGED reply

\* get_by_idempotency.
ByKey(key) == {row \in decisions : row.key = key}

\* What the handler compares when it finds its key in the ledger.
SamePayload(row, in) == row.decision = in.decision /\ row.comment = in.comment

\* INSERT under UNIQUE (case_id, idempotency_key_hash): the loser of a race
\* gets an IntegrityError, which no handler catches.
KeyTaken(r) == \E row \in decisions : row.key = draft[r].key
Insert(row) == decisions' = decisions \union {row}
LostInsert(r) == Answer(r, "error", NoRow)

\* require_officer, then the case is read and its IBU compared.
Begin(r, in) ==
  /\ pc[r] = "idle"
  /\ req' = [req EXCEPT ![r] = in]
  /\ IF in.by.role = "OFFICER" /\ in.by.ibu = CaseIbu
     THEN Goto(r, "lookup") /\ UNCHANGED reply
     ELSE Answer(r, "forbidden", NoRow)
  /\ UNCHANGED <<ledgerVars, clock, draft, view, agentRuns, agentSaid, failures>>

\* get_by_idempotency; the new decision is stamped in the same step, before it
\* is saved.
Lookup(r) ==
  LET found == ByKey(req[r].key) IN
  /\ pc[r] = "lookup"
  /\ \/ /\ found = {}
        /\ clock' = clock + 1
        /\ draft' = [draft EXCEPT ![r] =
             [id |-> r, key |-> req[r].key, decision |-> req[r].decision,
              comment |-> req[r].comment, officer |-> req[r].by, at |-> clock + 1]]
        /\ Goto(r, "save")
        /\ UNCHANGED reply
     \/ /\ \E row \in found :
             IF SamePayload(row, req[r])
             THEN Answer(r, "existing", row)
             ELSE Answer(r, "conflict", NoRow)
        /\ UNCHANGED <<clock, draft>>
  /\ UNCHANGED <<ledgerVars, req, view, agentRuns, agentSaid, failures>>

Save(r) ==
  /\ pc[r] = "save"
  /\ IF KeyTaken(r)
     THEN LostInsert(r) /\ UNCHANGED decisions
     ELSE Insert(draft[r]) /\ Goto(r, "status") /\ UNCHANGED reply
  /\ UNCHANGED <<caseStatus, audit, clock, req, draft, view, agentRuns, agentSaid, failures>>

\* Mutant: returns early when the status does not change.
UpdateStatusEarlyReturn(r) ==
  /\ pc[r] = "status"
  /\ caseStatus' = StatusOf(draft[r].decision)
  /\ IF caseStatus' = caseStatus
     THEN Answer(r, "created", draft[r])
     ELSE Goto(r, "audit_decision") /\ UNCHANGED reply
  /\ UNCHANGED <<decisions, audit, clock, req, draft, view, agentRuns, agentSaid, failures>>

UpdateStatus(r) ==
  /\ pc[r] = "status"
  /\ caseStatus' = StatusOf(draft[r].decision)
  /\ Goto(r, "audit_decision")
  /\ UNCHANGED <<decisions, audit, clock, req, draft, reply, view, agentRuns, agentSaid, failures>>

AuditDecision(r) ==
  /\ pc[r] = "audit_decision"
  /\ audit' = audit \union {[type |-> "OFFICER_DECISION", id |-> r]}
  /\ Goto(r, "audit_status")
  /\ UNCHANGED <<decisions, caseStatus, clock, req, draft, reply, view, agentRuns, agentSaid,
                 failures>>

AuditStatusChange(r) ==
  /\ pc[r] = "audit_status"
  /\ audit' = audit \union {[type |-> "SETTLEMENT_STATUS_CHANGED", id |-> r]}
  /\ Answer(r, "created", draft[r])
  /\ UNCHANGED <<decisions, caseStatus, clock, req, draft, view, agentRuns, agentSaid, failures>>

\* A store call raises, or the process dies before the call commits.
Fail(r) ==
  /\ failures < MaxFailures
  /\ pc[r] \notin {"idle", "done", "dead"}
  /\ failures' = failures + 1
  /\ Goto(r, "dead")
  /\ UNCHANGED <<ledgerVars, clock, req, draft, reply, view, agentRuns, agentSaid>>

-------------------------------------------------------------------------------
(* The investigation's save, and the dashboard *)

\* PostgresInvestigationStore.save: the state and cases.status in one transaction.
AgentSave(action) ==
  /\ agentRuns < MaxAgentRuns
  /\ agentRuns' = agentRuns + 1
  /\ agentSaid' = agentSaid \union {action}
  /\ caseStatus' = IF action = "none" THEN caseStatus ELSE action
  /\ UNCHANGED <<decisions, audit, requestVars, view, failures>>

\* get_case or list_cases: the case record is read first.
ReadCase(v) ==
  /\ view[v].pc = "idle"
  /\ view' = [view EXCEPT ![v] = [IdleView EXCEPT !.pc = "case", !.status = caseStatus]]
  /\ UNCHANGED <<ledgerVars, requestVars, agentRuns, agentSaid, failures>>

\* _report lists the decisions before it builds the case summary.
ReadDecisions(v) ==
  /\ view[v].pc = "case"
  /\ view' = [view EXCEPT ![v].pc = "listed", ![v].listed = decisions]
  /\ UNCHANGED <<ledgerVars, requestVars, agentRuns, agentSaid, failures>>

\* _dashboard_case: the decisions are read again for the readiness, and the
\* status shown may be the one read earlier.
ShowCase(v) ==
  /\ view[v].pc \in {"case", "listed"}
  /\ view' = [view EXCEPT ![v] =
       [@ EXCEPT !.pc = "shown", !.shown = Display(view[v].status, decisions),
                 !.approved = Approved(decisions), !.latest = Latest(decisions)]]
  /\ UNCHANGED <<ledgerVars, requestVars, agentRuns, agentSaid, failures>>

CloseView(v) ==
  /\ view[v].pc = "shown"
  /\ view' = [view EXCEPT ![v] = IdleView]
  /\ UNCHANGED <<ledgerVars, requestVars, agentRuns, agentSaid, failures>>

-------------------------------------------------------------------------------

Step(r) ==
  Lookup(r) \/ Save(r) \/ UpdateStatus(r) \/ AuditDecision(r) \/ AuditStatusChange(r)

Next ==
  \/ \E r \in Requests, in \in Inputs : Begin(r, in)
  \/ \E r \in Requests : Step(r) \/ Fail(r)
  \/ \E action \in AgentActions : AgentSave(action)
  \/ \E v \in Viewers : ReadCase(v) \/ ReadDecisions(v) \/ ShowCase(v) \/ CloseView(v)

Spec == Init /\ [][Next]_vars

\* A handler that has started is scheduled again by the event loop until it ends.
FairSpec == Spec /\ \A r \in Requests : WF_vars(Step(r))

-------------------------------------------------------------------------------
(* Properties *)

Payload(x) == <<x.decision, x.comment>>

Labels == {"idle", "lookup", "save", "status", "audit_decision", "audit_status",
           "done", "dead"}

Replies == [code : Codes, body : Rows \union {NoRow}]

Views == [pc : {"idle", "case", "listed", "shown"}, status : CaseStatuses,
          listed : SUBSET Rows, shown : CaseStatuses \union {AWAITING},
          approved : BOOLEAN, latest : Rows \union {NoRow}]

\* Each variable holds the kind of value the stores and handlers keep there.
TypeOK ==
  /\ decisions \subseteq Rows
  /\ caseStatus \in CaseStatuses
  /\ audit \subseteq Events
  /\ clock \in Nat
  /\ pc \in [Requests -> Labels]
  /\ req \in [Requests -> Inputs \union {NoRow}]
  /\ draft \in [Requests -> Rows \union {NoRow}]
  /\ reply \in [Requests -> Replies]
  /\ view \in [Viewers -> Views]
  /\ agentRuns \in 0..MaxAgentRuns
  /\ agentSaid \subseteq AgentActions
  /\ failures \in 0..MaxFailures

\* However requests with the same key race between the lookup and the insert,
\* the ledger holds at most one decision per idempotency key.
OneDecisionPerKey ==
  \A a, b \in decisions : a.key = b.key => a = b

\* The audit trail never claims what the ledger does not hold: a status change
\* is audited after the decision that caused it, and that after its row was saved.
AuditNeverAheadOfLedger ==
  \A e \in audit :
    /\ \E row \in decisions : row.id = e.id
    /\ e.type = "SETTLEMENT_STATUS_CHANGED" =>
         [type |-> "OFFICER_DECISION", id |-> e.id] \in audit

\* A client is told the truth: 201 carries a stored decision with the payload
\* it sent under the key it sent, a decision it created has both audit events,
\* and 409 is answered only when the key belongs to another payload.
ReplyMatches(r) ==
  /\ reply[r].code \in {"created", "existing"} =>
       /\ reply[r].body \in decisions
       /\ reply[r].body.key = req[r].key
       /\ Payload(reply[r].body) = Payload(req[r])
  /\ reply[r].code = "created" =>
       /\ reply[r].body.id = r
       /\ [type |-> "OFFICER_DECISION", id |-> r] \in audit
       /\ [type |-> "SETTLEMENT_STATUS_CHANGED", id |-> r] \in audit
  /\ reply[r].code = "conflict" =>
       \E row \in decisions : row.key = req[r].key /\ Payload(row) # Payload(req[r])

RepliesMatchLedger == \A r \in Requests : ReplyMatches(r)

ApprovedOnce == \E row \in decisions : row.decision = "APPROVE"

\* A case is shown as ready for settlement only if an officer approved it at
\* some time; the investigation's status write alone must not show it so.
ShownReadyOnlyIfApproved ==
  \A v \in Viewers :
    view[v].pc = "shown" /\ view[v].shown = READY_ACTION => ApprovedOnce

\* A case is shown as ready for settlement only after an officer decided it, and
\* only on the authority of an approval or of an investigation that recommended
\* settlement: no race, retry, crash or reader between two writes shows it so.
ReadyShownOnAuthority ==
  \A v \in Viewers :
    view[v].pc = "shown" /\ view[v].shown = READY_ACTION =>
      /\ view[v].latest \in decisions
      /\ ApprovedOnce \/ READY_ACTION \in agentSaid

\* A report never shows a settlement readiness older than the decisions it
\* lists, although the two are read apart.
ReadinessNotOlderThanList ==
  \A v \in Viewers :
    view[v].pc = "shown" =>
      \A row \in view[v].listed :
        view[v].latest # NoRow /\ row.at <= view[v].latest.at

\* Both events of a decision are in the audit trail.
FullyAudited(r) ==
  /\ [type |-> "OFFICER_DECISION", id |-> r] \in audit
  /\ [type |-> "SETTLEMENT_STATUS_CHANGED", id |-> r] \in audit

\* A decision in the ledger, which a retry may have been answered with already,
\* gets both audit events unless the handler that saved it dies first.
SavedDecisionIsAudited ==
  \A r \in Requests :
    (\E row \in decisions : row.id = r) ~> FullyAudited(r) \/ pc[r] = "dead"

\* The ledger seen through the keys implements the settlement gate: neither a
\* race, nor a retry, nor the investigation moves it.
StampedAfter(a, b) == a.at > b.at

BookedUnder(k) ==
  IF \E row \in decisions : row.key = k
  THEN CHOOSE row \in decisions : row.key = k ELSE NoRow

Gate == INSTANCE SettlementGate WITH
          Newer <- StampedAfter,
          book <- [k \in Keys |-> BookedUnder(k)],
          inForce <- Latest(decisions)

GateSpec == Gate!Spec

-------------------------------------------------------------------------------
(* The inductive invariant *)

InFlight == {"status", "audit_decision", "audit_status"}

\* A draft is stamped once, by its own request, with that request's input, and
\* no two drafts carry the same stamp.
DraftInv ==
  /\ \A r \in Requests :
       /\ pc[r] \notin {"idle", "done", "dead"} => req[r] \in Inputs
       /\ pc[r] = "save" \/ pc[r] \in InFlight => draft[r] # NoRow
       /\ pc[r] \in {"idle", "lookup"} => draft[r] = NoRow
       /\ reply[r].code # "none" => pc[r] = "done"
       /\ draft[r] # NoRow =>
            /\ draft[r].id = r
            /\ draft[r].key = req[r].key
            /\ Payload(draft[r]) = Payload(req[r])
            /\ draft[r].at <= clock
  /\ \A r, s \in Requests :
       r # s /\ draft[r] # NoRow /\ draft[s] # NoRow => draft[r].at # draft[s].at

\* The ledger holds drafts, all those of the handlers past their insert, and
\* one of its rows is the latest.
LedgerInv ==
  /\ \A row \in decisions : draft[row.id] = row
  /\ \A r \in Requests : pc[r] \in InFlight => draft[r] \in decisions
  /\ decisions # {} => \E row \in decisions : \A other \in decisions : other.at <= row.at

\* A handler about to audit the status change has audited its decision.
HandlerAudited ==
  \A r \in Requests :
    pc[r] = "audit_status" => [type |-> "OFFICER_DECISION", id |-> r] \in audit

\* What the four invariants rest on: it is preserved by every step.
ReviewInv ==
  /\ TypeOK
  /\ DraftInv
  /\ LedgerInv
  /\ HandlerAudited
  /\ OneDecisionPerKey
  /\ AuditNeverAheadOfLedger
  /\ RepliesMatchLedger
-------------------------------------------------------------------------------
(* What crashes and readers may see *)

Dead == {r \in Requests : pc[r] = "dead"}

\* Decisions that no handler will audit any more, by the request that made them.
LostAudits ==
  {r \in Requests :
     /\ \E row \in decisions : row.id = r
     /\ ~FullyAudited(r)
     /\ pc[r] \notin InFlight}

\* Row, status and audit are written in separate transactions, so a crash loses
\* audit events; but each crash loses those of one decision at most, and as long
\* as no request dies every decision is audited when its handler ends.
EachCrashLosesOneAudit ==
  IsFiniteSet(LostAudits) /\ Cardinality(LostAudits) <= failures

\* The readiness a report shows as approved is the last decision of the ledger
\* and an approval, whatever status the investigation saved meanwhile.
ReadinessFromLedger ==
  \A v \in Viewers :
    view[v].pc = "shown" /\ view[v].approved =>
      view[v].latest \in decisions /\ view[v].latest.decision = "APPROVE"

\* A row in the ledger belongs to a handler that is past its insert; it is
\* either still auditing, done with both events, or dead; and there are as many
\* dead requests as failures.
AuditInv ==
  /\ \A row \in decisions : pc[row.id] \in InFlight \union {"done", "dead"}
  /\ \A row \in decisions : pc[row.id] = "done" => FullyAudited(row.id)
  /\ IsFiniteSet(Dead) /\ Cardinality(Dead) = failures

\* Readers hold rows of the ledger, which only grows, and see another status than
\* the wait for an officer only beside such a row.
ReaderInv ==
  /\ \A v \in Viewers :
       /\ view[v].listed \subseteq decisions
       /\ view[v].pc = "shown" /\ view[v].shown # AWAITING => view[v].latest \in decisions
  /\ ReadinessNotOlderThanList
  /\ ReadinessFromLedger

\* The ready status, in the case and in what its readers hold, was written for
\* an approval or recommended by an investigation.
ReadyInv ==
  READY_ACTION \notin agentSaid =>
    /\ caseStatus = READY_ACTION => ApprovedOnce
    /\ \A v \in Viewers :
         view[v].status = READY_ACTION \/ view[v].shown = READY_ACTION => ApprovedOnce

\* The inductive invariant of the crash and reader properties.
OutcomeInv == AuditInv /\ ReaderInv /\ ReadyInv
===============================================================================
