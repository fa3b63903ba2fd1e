--------------------------- MODULE HumanReviewProofs ---------------------------
(***************************************************************************)
(* Proofs about HumanReview for any number of requests, viewers and keys,  *)
(* and any number of agent runs and failures.                              *)
(***************************************************************************)
EXTENDS HumanReview, FiniteSetTheorems, TLAPS

-------------------------------------------------------------------------------
(* Type correctness *)

\* The decision the gate obeys is a row of the ledger, or none.
LEMMA LatestIsRow ==
  ASSUME NEW rows \in SUBSET Rows,
         rows # {} => \E row \in rows : \A other \in rows : other.at <= row.at
  PROVE  /\ rows # {} => /\ Latest(rows) \in rows
                         /\ \A other \in rows : other.at <= Latest(rows).at
         /\ Latest(rows) \in Rows \union {NoRow}
         /\ rows = {} => Latest(rows) = NoRow
BY DEF Latest

\* What a dashboard case shows is a status the case can have, or the wait for
\* an officer.
LEMMA DisplayIsStatus ==
  ASSUME NEW status \in CaseStatuses, NEW rows
  PROVE  Display(status, rows) \in CaseStatuses \union {AWAITING}
BY DEF Display, CaseStatuses

\* Every decision's status is a case status.
LEMMA StatusOfIsStatus ==
  ASSUME NEW d
  PROVE  StatusOf(d) \in CaseStatuses
BY DEF StatusOf, CaseStatuses

\* Answering a request keeps pc and reply well typed.
LEMMA AnswerType ==
  ASSUME TypeOK, NEW r \in Requests, NEW code \in Codes,
         NEW row \in Rows \union {NoRow}, Answer(r, code, row)
  PROVE  pc' \in [Requests -> Labels] /\ reply' \in [Requests -> Replies]
<1>1. [code |-> code, body |-> row] \in Replies
  BY DEF Replies
<1> QED
  BY <1>1 DEF Answer, Goto, TypeOK, Labels

\* So does moving it to another label.
LEMMA GotoType ==
  ASSUME TypeOK, NEW r \in Requests, NEW label \in Labels, Goto(r, label)
  PROVE  pc' \in [Requests -> Labels]
BY DEF Goto, TypeOK

LEMMA InitReviewInv == Init => ReviewInv
<1> SUFFICES ASSUME Init PROVE ReviewInv
  OBVIOUS
<1> USE DEF Init
<1>1. TypeOK
  BY ReviewAssumption
  DEF TypeOK, CaseStatuses, Codes, IdleView, Labels, Replies, Views, ReviewAssumption
<1>2. DraftInv
  BY DEF DraftInv, InFlight
<1>3. LedgerInv /\ HandlerAudited
  BY DEF LedgerInv, HandlerAudited, InFlight
<1>4. OneDecisionPerKey /\ AuditNeverAheadOfLedger /\ RepliesMatchLedger
  BY DEF OneDecisionPerKey, AuditNeverAheadOfLedger, RepliesMatchLedger, ReplyMatches
<1> QED
  BY <1>1, <1>2, <1>3, <1>4 DEF ReviewInv

\* Every step keeps the types.
LEMMA TypeStep == ReviewInv /\ [Next]_vars => TypeOK'
<1> SUFFICES ASSUME ReviewInv, [Next]_vars PROVE TypeOK'
  OBVIOUS
<1> USE DEF ReviewInv, TypeOK
<1>1. ASSUME NEW r \in Requests, NEW in \in Inputs, Begin(r, in)
      PROVE  TypeOK'
  <2>1. pc' \in [Requests -> Labels] /\ reply' \in [Requests -> Replies]
    <3>1. CASE Answer(r, "forbidden", NoRow)
      BY <3>1, AnswerType DEF Codes
    <3>2. CASE Goto(r, "lookup") /\ UNCHANGED reply
      BY <3>2, GotoType DEF Labels
    <3> QED
      BY <1>1, <3>1, <3>2 DEF Begin
  <2> QED
    BY <1>1, <2>1 DEF Begin, ledgerVars
<1>2. ASSUME NEW r \in Requests, Lookup(r)
      PROVE  TypeOK'
  <2> DEFINE found == {row \in decisions : row.key = req[r].key}
             new == [id |-> r, key |-> req[r].key, decision |-> req[r].decision,
                     comment |-> req[r].comment, officer |-> req[r].by, at |-> clock + 1]
  <2>1. CASE /\ clock' = clock + 1
             /\ draft' = [draft EXCEPT ![r] = new]
             /\ Goto(r, "save")
             /\ UNCHANGED reply
    <3>1. req[r] \in Inputs
      BY <1>2 DEF DraftInv, Lookup
    <3>2. new \in Rows
      BY <3>1 DEF Inputs, Rows
    <3>3. pc' \in [Requests -> Labels]
      BY <2>1, GotoType DEF Labels
    <3>4. UNCHANGED <<ledgerVars, req, view, agentRuns, agentSaid, failures>>
      BY <1>2 DEF Lookup
    <3> HIDE DEF new
    <3>5. clock' \in Nat /\ draft' \in [Requests -> Rows \union {NoRow}]
      BY <2>1, <3>2
    <3> QED
      BY <2>1, <3>3, <3>4, <3>5 DEF ledgerVars
  <2>2. CASE /\ UNCHANGED <<clock, draft>>
             /\ \E row \in found :
                  Answer(r, "existing", row) \/ Answer(r, "conflict", NoRow)
    <3>1. PICK row \in found : Answer(r, "existing", row) \/ Answer(r, "conflict", NoRow)
      BY <2>2
    <3>2. row \in Rows
      OBVIOUS
    <3>3. pc' \in [Requests -> Labels] /\ reply' \in [Requests -> Replies]
      BY <3>1, <3>2, AnswerType DEF Codes
    <3> QED
      BY <1>2, <2>2, <3>3 DEF Lookup, ledgerVars
  <2> QED
    BY <1>2, <2>1, <2>2 DEF Lookup, ByKey
<1>3. ASSUME NEW r \in Requests, Save(r)
      PROVE  TypeOK'
  <2>1. pc' \in [Requests -> Labels] /\ reply' \in [Requests -> Replies]
    <3>1. CASE Answer(r, "error", NoRow)
      BY <3>1, AnswerType DEF Codes
    <3>2. CASE Goto(r, "status") /\ UNCHANGED reply
      BY <3>2, GotoType DEF Labels
    <3> QED
      BY <1>3, <3>1, <3>2 DEF Save, LostInsert
  <2>2. draft[r] \in Rows
    BY <1>3 DEF DraftInv, Save
  <2>3. decisions' \subseteq Rows
    BY <1>3, <2>2 DEF Save, Insert
  <2> QED
    BY <1>3, <2>1, <2>3 DEF Save
<1>4. ASSUME NEW r \in Requests, UpdateStatus(r)
      PROVE  TypeOK'
  BY <1>4, StatusOfIsStatus, GotoType DEF UpdateStatus, Labels
<1>5. ASSUME NEW r \in Requests, AuditDecision(r)
      PROVE  TypeOK'
  BY <1>5, GotoType DEF AuditDecision, Events, Labels
<1>6. ASSUME NEW r \in Requests, AuditStatusChange(r)
      PROVE  TypeOK'
  BY <1>6, AnswerType DEF AuditStatusChange, Events, Codes
<1>7. ASSUME NEW r \in Requests, Fail(r)
      PROVE  TypeOK'
  BY <1>7, ReviewAssumption, GotoType DEF Fail, Labels, ledgerVars, ReviewAssumption
<1>8. ASSUME NEW action \in AgentActions, AgentSave(action)
      PROVE  TypeOK'
  <2>1. caseStatus' \in CaseStatuses
    BY <1>8, ReviewAssumption DEF AgentSave, CaseStatuses, ReviewAssumption
  <2>2. agentRuns' \in 0..MaxAgentRuns
    BY <1>8, ReviewAssumption DEF AgentSave, ReviewAssumption
  <2> QED
    BY <1>8, <2>1, <2>2 DEF AgentSave, requestVars
<1>9. ASSUME NEW v \in Viewers, ReadCase(v) \/ ReadDecisions(v) \/ ShowCase(v) \/ CloseView(v)
      PROVE  TypeOK'
  <2>1. view' \in [Viewers -> Views]
    <3>1. CASE ReadCase(v)
      <4>1. [IdleView EXCEPT !.pc = "case", !.status = caseStatus] \in Views
        BY DEF IdleView, Views
      <4> QED
        BY <3>1, <4>1 DEF ReadCase
    <3>2. CASE ReadDecisions(v)
      <4>1. [view[v] EXCEPT !.pc = "listed", !.listed = decisions] \in Views
        BY DEF Views
      <4> QED
        BY <3>2, <4>1 DEF ReadDecisions
    <3>3. CASE ShowCase(v)
      <4>1. view[v].status \in CaseStatuses
        BY DEF Views
      <4>2. Display(view[v].status, decisions) \in CaseStatuses \union {AWAITING}
        BY <4>1, DisplayIsStatus
      <4>3. Approved(decisions) \in BOOLEAN
        BY DEF Approved
      <4>4. Latest(decisions) \in Rows \union {NoRow}
        BY LatestIsRow DEF LedgerInv
      <4>5. [view[v] EXCEPT !.pc = "shown", !.shown = Display(view[v].status, decisions),
               !.approved = Approved(decisions), !.latest = Latest(decisions)] \in Views
        BY <4>2, <4>3, <4>4 DEF Views
      <4> QED
        BY <3>3, <4>5 DEF ShowCase
    <3>4. CASE CloseView(v)
      <4>1. IdleView \in Views
        BY DEF IdleView, Views, CaseStatuses
      <4> QED
        BY <3>4, <4>1 DEF CloseView
    <3> QED
      BY <1>9, <3>1, <3>2, <3>3, <3>4
  <2> QED
    BY <1>9, <2>1 DEF ReadCase, ReadDecisions, ShowCase, CloseView, ledgerVars, requestVars
<1>10. CASE UNCHANGED vars
  BY <1>10 DEF vars
<1> QED
  BY <1>1, <1>2, <1>3, <1>4, <1>5, <1>6, <1>7, <1>8, <1>9, <1>10 DEF Next, Step

-------------------------------------------------------------------------------
(* The inductive invariant *)

SafetyInv ==
  DraftInv /\ LedgerInv /\ HandlerAudited /\ OneDecisionPerKey
    /\ AuditNeverAheadOfLedger /\ RepliesMatchLedger

\* A lookup stamps a draft later than every other, or answers from the ledger.
LEMMA LookupStep ==
  ASSUME ReviewInv, NEW r \in Requests, Lookup(r)
  PROVE  SafetyInv'
<1> USE DEF ReviewInv
<1> DEFINE found == {row \in decisions : row.key = req[r].key}
           new == [id |-> r, key |-> req[r].key, decision |-> req[r].decision,
                   comment |-> req[r].comment, officer |-> req[r].by, at |-> clock + 1]
<1>1. /\ pc[r] = "lookup" /\ draft[r] = NoRow /\ req[r] \in Inputs
      /\ UNCHANGED <<decisions, audit, req>>
  BY DEF Lookup, DraftInv, ledgerVars
<1>2. new \in Rows /\ new # NoRow
  BY <1>1, ReviewAssumption DEF Rows, Inputs, TypeOK, ReviewAssumption
<1>3. \A row \in decisions : row.id # r
  BY <1>1, ReviewAssumption DEF LedgerInv, TypeOK, ReviewAssumption
<1>4. CASE /\ clock' = clock + 1
           /\ draft' = [draft EXCEPT ![r] = new]
           /\ Goto(r, "save")
           /\ UNCHANGED reply
  <2>1. pc' = [pc EXCEPT ![r] = "save"] /\ pc \in [Requests -> Labels]
    BY <1>4 DEF Goto, TypeOK
  <2>2. draft'[r] = new /\ \A s \in Requests : s # r => draft'[s] = draft[s]
    BY <1>4 DEF TypeOK
  <2>3. \A s \in Requests : draft[s] # NoRow => draft[s] \in Rows /\ draft[s].at \in Nat
    BY DEF TypeOK, Rows
  <2>4. DraftInv'
    <3>1. \A s, t \in Requests :
            s # t /\ draft'[s] # NoRow /\ draft'[t] # NoRow => draft'[s].at # draft'[t].at
      BY <2>2, <2>3 DEF DraftInv, TypeOK
    <3>2. ASSUME NEW s \in Requests, s # r, draft'[s] # NoRow
          PROVE  /\ draft'[s].id = s /\ draft'[s].key = req'[s].key
                 /\ Payload(draft'[s]) = Payload(req'[s]) /\ draft'[s].at <= clock'
      BY <1>1, <1>4, <2>2, <2>3, <3>2 DEF DraftInv, TypeOK
    <3>3. /\ draft'[r].id = r /\ draft'[r].key = req'[r].key
          /\ Payload(draft'[r]) = Payload(req'[r]) /\ draft'[r].at <= clock'
      BY <1>1, <1>4, <2>2 DEF Payload, TypeOK
    <3>4. ASSUME NEW s \in Requests
          PROVE  /\ pc'[s] \notin {"idle", "done", "dead"} => req'[s] \in Inputs
                 /\ pc'[s] = "save" \/ pc'[s] \in InFlight => draft'[s] # NoRow
                 /\ pc'[s] \in {"idle", "lookup"} => draft'[s] = NoRow
                 /\ reply'[s].code # "none" => pc'[s] = "done"
      BY <1>1, <1>2, <1>4, <2>1, <2>2 DEF DraftInv, InFlight
    <3> QED
      BY <3>1, <3>2, <3>3, <3>4 DEF DraftInv
  <2>5. LedgerInv'
    BY <1>1, <1>3, <2>1, <2>2 DEF LedgerInv, InFlight, Rows, TypeOK
  <2>6. HandlerAudited'
    BY <1>1, <2>1 DEF HandlerAudited
  <2>7. OneDecisionPerKey' /\ AuditNeverAheadOfLedger' /\ RepliesMatchLedger'
    BY <1>1, <1>4
    DEF OneDecisionPerKey, AuditNeverAheadOfLedger, RepliesMatchLedger, ReplyMatches, Payload
  <2> QED
    BY <2>4, <2>5, <2>6, <2>7 DEF SafetyInv
<1>5. CASE /\ UNCHANGED <<clock, draft>>
           /\ \E row \in found :
                IF SamePayload(row, req[r])
                THEN Answer(r, "existing", row)
                ELSE Answer(r, "conflict", NoRow)
  <2>1. PICK row \in found :
               IF SamePayload(row, req[r])
               THEN Answer(r, "existing", row)
               ELSE Answer(r, "conflict", NoRow)
    BY <1>5
  <2>2. row \in decisions /\ row.key = req[r].key
    OBVIOUS
  <2>3. pc' = [pc EXCEPT ![r] = "done"] /\ pc \in [Requests -> Labels]
    BY <2>1 DEF Answer, Goto, TypeOK
  <2>4. /\ \A s \in Requests : s # r => reply'[s] = reply[s]
        /\ \/ /\ SamePayload(row, req[r])
              /\ reply'[r].code = "existing" /\ reply'[r].body = row
           \/ ~SamePayload(row, req[r]) /\ reply'[r].code = "conflict"
    BY <2>1 DEF Answer, TypeOK
  <2>5. DraftInv' /\ LedgerInv' /\ HandlerAudited'
    BY <1>1, <1>5, <2>3, <2>4 DEF DraftInv, LedgerInv, HandlerAudited, InFlight, Payload
  <2>6. OneDecisionPerKey' /\ AuditNeverAheadOfLedger'
    BY <1>1 DEF OneDecisionPerKey, AuditNeverAheadOfLedger
  <2>7. RepliesMatchLedger'
    <3>1. reply'[r].code = "existing" =>
            reply'[r].body \in decisions' /\ reply'[r].body.key = req'[r].key
              /\ Payload(reply'[r].body) = Payload(req'[r])
      BY <1>1, <2>2, <2>4 DEF Payload, SamePayload
    <3>2. reply'[r].code = "conflict" =>
            \E other \in decisions' :
              other.key = req'[r].key /\ Payload(other) # Payload(req'[r])
      BY <1>1, <2>2, <2>4 DEF Payload, SamePayload
    <3>3. reply'[r].code # "created"
      BY <2>4
    <3>4. ReplyMatches(r)'
      BY <3>1, <3>2, <3>3 DEF ReplyMatches
    <3>5. ASSUME NEW s \in Requests, s # r
          PROVE  ReplyMatches(s)'
      BY <1>1, <2>4, <3>5 DEF RepliesMatchLedger, ReplyMatches
    <3> QED
      BY <3>4, <3>5 DEF RepliesMatchLedger
  <2> QED
    BY <2>5, <2>6, <2>7 DEF SafetyInv
<1> QED
  BY <1>4, <1>5 DEF Lookup, ByKey

\* An insert adds one row under a key that no other row has.
LEMMA SaveStep ==
  ASSUME ReviewInv, NEW r \in Requests, Save(r)
  PROVE  SafetyInv'
<1> USE DEF ReviewInv
<1>1. /\ pc[r] = "save" /\ draft[r] \in Rows /\ draft[r].id = r /\ draft[r].key = req[r].key
      /\ reply[r].code = "none"
      /\ UNCHANGED <<audit, clock, req, draft>>
  BY DEF Save, DraftInv, TypeOK
<1>2. pc \in [Requests -> Labels] /\ decisions \subseteq Rows
  BY DEF TypeOK
<1>3. CASE KeyTaken(r) /\ LostInsert(r) /\ UNCHANGED decisions
  <2>1. pc' = [pc EXCEPT ![r] = "done"]
    BY <1>3 DEF LostInsert, Answer, Goto
  <2>2. reply'[r].code = "error" /\ \A s \in Requests : s # r => reply'[s] = reply[s]
    BY <1>3 DEF LostInsert, Answer, TypeOK
  <2>3. DraftInv' /\ LedgerInv' /\ HandlerAudited'
    BY <1>1, <1>2, <1>3, <2>1, <2>2 DEF DraftInv, LedgerInv, HandlerAudited, InFlight, Payload
  <2>4. OneDecisionPerKey' /\ AuditNeverAheadOfLedger'
    BY <1>1, <1>3 DEF OneDecisionPerKey, AuditNeverAheadOfLedger
  <2>5. ASSUME NEW s \in Requests
        PROVE  ReplyMatches(s)'
    BY <1>1, <1>3, <2>2 DEF RepliesMatchLedger, ReplyMatches, Payload
  <2> QED
    BY <2>3, <2>4, <2>5 DEF SafetyInv, RepliesMatchLedger
<1>4. CASE ~KeyTaken(r) /\ Insert(draft[r]) /\ Goto(r, "status") /\ UNCHANGED reply
  <2>1. pc' = [pc EXCEPT ![r] = "status"] /\ decisions' = decisions \union {draft[r]}
    BY <1>4 DEF Goto, Insert
  <2>2. DraftInv'
    BY <1>1, <1>2, <1>4, <2>1 DEF DraftInv, InFlight, Payload
  <2>3. LedgerInv'
    <3>1. \E row \in decisions' : \A other \in decisions' : other.at <= row.at
      <4>1. draft[r].at \in Nat /\ \A row \in decisions : row.at \in Nat
        BY <1>1, <1>2 DEF Rows
      <4>2. CASE decisions = {}
        BY <2>1, <4>1, <4>2
      <4>3. CASE decisions # {}
        <5>1. PICK top \in decisions : \A other \in decisions : other.at <= top.at
          BY <4>3 DEF LedgerInv
        <5>2. CASE draft[r].at <= top.at
          BY <2>1, <4>1, <5>1, <5>2
        <5>3. CASE ~(draft[r].at <= top.at)
          <6>1. \A other \in decisions' : other.at <= draft[r].at
            BY <2>1, <4>1, <5>1, <5>3
          <6> QED
            BY <2>1, <6>1
        <5> QED
          BY <5>2, <5>3
      <4> QED
        BY <4>2, <4>3
    <3>2. \A row \in decisions' : draft'[row.id] = row
      BY <1>1, <2>1 DEF LedgerInv
    <3>3. \A s \in Requests : pc'[s] \in InFlight => draft'[s] \in decisions'
      BY <1>1, <1>2, <2>1 DEF LedgerInv, InFlight
    <3> QED
      BY <3>1, <3>2, <3>3 DEF LedgerInv
  <2>4. HandlerAudited'
    BY <1>1, <1>2, <2>1 DEF HandlerAudited
  <2>5. OneDecisionPerKey'
    BY <1>4, <2>1 DEF OneDecisionPerKey, KeyTaken
  <2>6. AuditNeverAheadOfLedger'
    BY <1>1, <2>1 DEF AuditNeverAheadOfLedger
  <2>7. ASSUME NEW s \in Requests
        PROVE  ReplyMatches(s)'
    BY <1>1, <1>4, <2>1 DEF RepliesMatchLedger, ReplyMatches, Payload
  <2> QED
    BY <2>2, <2>3, <2>4, <2>5, <2>6, <2>7 DEF SafetyInv, RepliesMatchLedger
<1> QED
  BY <1>3, <1>4 DEF Save

\* The status write and the two audit records of a request whose row is saved.
LEMMA AfterSaveStep ==
  ASSUME ReviewInv, NEW r \in Requests,
         UpdateStatus(r) \/ AuditDecision(r) \/ AuditStatusChange(r)
  PROVE  SafetyInv'
<1> USE DEF ReviewInv
<1>1. /\ draft[r] \in decisions /\ draft[r].id = r /\ draft[r].key = req[r].key
      /\ Payload(draft[r]) = Payload(req[r])
      /\ pc[r] \in InFlight /\ reply[r].code = "none"
      /\ UNCHANGED <<decisions, clock, req, draft>>
  BY ReviewAssumption
  DEF UpdateStatus, AuditDecision, AuditStatusChange, DraftInv, LedgerInv, InFlight, TypeOK,
      ReviewAssumption
<1>2. pc \in [Requests -> Labels] /\ audit \subseteq Events
  BY DEF TypeOK
<1>3. OneDecisionPerKey'
  BY <1>1 DEF OneDecisionPerKey
<1>4. CASE UpdateStatus(r)
  <2>1. pc' = [pc EXCEPT ![r] = "audit_decision"] /\ UNCHANGED <<audit, reply>>
    BY <1>4 DEF UpdateStatus, Goto
  <2>2. DraftInv' /\ LedgerInv' /\ HandlerAudited' /\ AuditNeverAheadOfLedger'
    BY <1>1, <1>2, <2>1
    DEF DraftInv, LedgerInv, HandlerAudited, AuditNeverAheadOfLedger, InFlight, Payload
  <2>3. RepliesMatchLedger'
    BY <1>1, <2>1 DEF RepliesMatchLedger, ReplyMatches, Payload
  <2> QED
    BY <1>3, <2>2, <2>3 DEF SafetyInv
<1>5. CASE AuditDecision(r)
  <2>1. /\ pc' = [pc EXCEPT ![r] = "audit_status"] /\ UNCHANGED reply
        /\ audit' = audit \union {[type |-> "OFFICER_DECISION", id |-> r]}
    BY <1>5 DEF AuditDecision, Goto
  <2>2. DraftInv' /\ LedgerInv' /\ HandlerAudited'
    BY <1>1, <1>2, <2>1 DEF DraftInv, LedgerInv, HandlerAudited, InFlight, Payload
  <2>3. AuditNeverAheadOfLedger'
    <3>1. ASSUME NEW e \in audit
          PROVE  /\ \E row \in decisions' : row.id = e.id
                 /\ e.type = "SETTLEMENT_STATUS_CHANGED" =>
                      [type |-> "OFFICER_DECISION", id |-> e.id] \in audit'
      BY <1>1, <2>1 DEF AuditNeverAheadOfLedger
    <3>2. \E row \in decisions' : row.id = r
      BY <1>1
    <3> DEFINE event == [type |-> "OFFICER_DECISION", id |-> r]
    <3>3. event.type = "OFFICER_DECISION" /\ event.id = r /\ audit' = audit \union {event}
      BY <2>1
    <3>4. [type |-> "OFFICER_DECISION", id |-> r] \in audit'
      BY <2>1
    <3> HIDE DEF event
    <3> QED
      BY <3>1, <3>2, <3>3, <3>4 DEF AuditNeverAheadOfLedger
  <2>4. RepliesMatchLedger'
    BY <1>1, <2>1 DEF RepliesMatchLedger, ReplyMatches, Payload
  <2> QED
    BY <1>3, <2>2, <2>3, <2>4 DEF SafetyInv
<1>6. CASE AuditStatusChange(r)
  <2>1. /\ pc[r] = "audit_status" /\ pc' = [pc EXCEPT ![r] = "done"]
        /\ audit' = audit \union {[type |-> "SETTLEMENT_STATUS_CHANGED", id |-> r]}
    BY <1>6 DEF AuditStatusChange, Answer, Goto
  <2>2. /\ reply'[r] = [code |-> "created", body |-> draft[r]]
        /\ \A s \in Requests : s # r => reply'[s] = reply[s]
    BY <1>6 DEF AuditStatusChange, Answer, TypeOK
  <2>3. [type |-> "OFFICER_DECISION", id |-> r] \in audit
    BY <2>1 DEF HandlerAudited
  <2>4. DraftInv' /\ LedgerInv' /\ HandlerAudited'
    BY <1>1, <1>2, <2>1, <2>2 DEF DraftInv, LedgerInv, HandlerAudited, InFlight, Payload
  <2>5. AuditNeverAheadOfLedger'
    <3>1. ASSUME NEW e \in audit
          PROVE  /\ \E row \in decisions' : row.id = e.id
                 /\ e.type = "SETTLEMENT_STATUS_CHANGED" =>
                      [type |-> "OFFICER_DECISION", id |-> e.id] \in audit'
      BY <1>1, <2>1 DEF AuditNeverAheadOfLedger
    <3>2. \E row \in decisions' : row.id = r
      BY <1>1
    <3> DEFINE event == [type |-> "SETTLEMENT_STATUS_CHANGED", id |-> r]
    <3>3. event.type = "SETTLEMENT_STATUS_CHANGED" /\ event.id = r /\ audit' = audit \union {event}
      BY <2>1
    <3>4. [type |-> "OFFICER_DECISION", id |-> r] \in audit'
      BY <2>1, <2>3
    <3> HIDE DEF event
    <3> QED
      BY <3>1, <3>2, <3>3, <3>4 DEF AuditNeverAheadOfLedger
  <2>6. ReplyMatches(r)'
    BY <1>1, <2>1, <2>2, <2>3 DEF ReplyMatches, Payload
  <2>7. ASSUME NEW s \in Requests, s # r
        PROVE  ReplyMatches(s)'
    BY <1>1, <2>1, <2>2, <2>7 DEF RepliesMatchLedger, ReplyMatches
  <2> QED
    BY <1>3, <2>4, <2>5, <2>6, <2>7 DEF SafetyInv, RepliesMatchLedger
<1> QED
  BY <1>4, <1>5, <1>6

\* A request that starts, is refused, or dies leaves the ledger as it was.
LEMMA EdgeStep ==
  ASSUME ReviewInv, NEW r \in Requests, Fail(r) \/ \E in \in Inputs : Begin(r, in)
  PROVE  SafetyInv'
<1> USE DEF ReviewInv
<1>1. UNCHANGED <<decisions, audit, clock, draft>> /\ pc \in [Requests -> Labels]
  BY DEF Fail, Begin, ledgerVars, TypeOK
<1>2. OneDecisionPerKey' /\ AuditNeverAheadOfLedger'
  BY <1>1 DEF OneDecisionPerKey, AuditNeverAheadOfLedger
<1>3. CASE Fail(r)
  <2>1. pc' = [pc EXCEPT ![r] = "dead"] /\ reply[r].code = "none" /\ UNCHANGED <<req, reply>>
    BY <1>3 DEF Fail, Goto, DraftInv
  <2>2. DraftInv' /\ LedgerInv' /\ HandlerAudited'
    BY <1>1, <2>1 DEF DraftInv, LedgerInv, HandlerAudited, InFlight, Payload
  <2>3. RepliesMatchLedger'
    BY <1>1, <2>1 DEF RepliesMatchLedger, ReplyMatches, Payload
  <2> QED
    BY <1>2, <2>2, <2>3 DEF SafetyInv
<1>4. ASSUME NEW in \in Inputs, Begin(r, in)
      PROVE  SafetyInv'
  <2>1. /\ pc[r] = "idle" /\ draft[r] = NoRow /\ reply[r].code = "none"
        /\ req'[r] = in /\ \A s \in Requests : s # r => req'[s] = req[s]
    BY <1>4 DEF Begin, DraftInv, TypeOK
  <2>2. /\ \E label \in {"lookup", "done"} : pc' = [pc EXCEPT ![r] = label]
        /\ \A s \in Requests : s # r => reply'[s] = reply[s]
        /\ reply'[r].code \in {"none", "forbidden"}
        /\ reply'[r].code # "none" => pc'[r] = "done"
    BY <1>4, <2>1 DEF Begin, Answer, Goto, TypeOK
  <2>3. DraftInv' /\ LedgerInv' /\ HandlerAudited'
    BY <1>1, <2>1, <2>2 DEF DraftInv, LedgerInv, HandlerAudited, InFlight, Payload
  <2>4. ASSUME NEW s \in Requests
        PROVE  ReplyMatches(s)'
    BY <1>1, <2>1, <2>2 DEF RepliesMatchLedger, ReplyMatches, Payload
  <2> QED
    BY <1>2, <2>3, <2>4 DEF SafetyInv, RepliesMatchLedger
<1> QED
  BY <1>3, <1>4

\* The investigation's save and the dashboard touch neither ledger nor requests.
LEMMA OtherStep ==
  ASSUME ReviewInv, UNCHANGED <<decisions, audit, requestVars>>
  PROVE  SafetyInv'
<1>1. DraftInv' /\ LedgerInv' /\ HandlerAudited'
  BY DEF ReviewInv, DraftInv, LedgerInv, HandlerAudited, InFlight, Payload, requestVars
<1>2. OneDecisionPerKey' /\ AuditNeverAheadOfLedger' /\ RepliesMatchLedger'
  BY DEF ReviewInv, OneDecisionPerKey, AuditNeverAheadOfLedger, RepliesMatchLedger,
         ReplyMatches, Payload, requestVars
<1> QED
  BY <1>1, <1>2 DEF SafetyInv

LEMMA StepReviewInv == ReviewInv /\ [Next]_vars => ReviewInv'
<1> SUFFICES ASSUME ReviewInv, [Next]_vars PROVE ReviewInv'
  OBVIOUS
<1>1. TypeOK'
  BY TypeStep
<1>2. SafetyInv'
  <2>1. ASSUME NEW r \in Requests, Step(r)
        PROVE  SafetyInv'
    BY <2>1, LookupStep, SaveStep, AfterSaveStep DEF Step
  <2>2. ASSUME NEW r \in Requests, Fail(r) \/ \E in \in Inputs : Begin(r, in)
        PROVE  SafetyInv'
    BY <2>2, EdgeStep
  <2>3. CASE UNCHANGED <<decisions, audit, requestVars>>
    BY <2>3, OtherStep
  <2>4. ASSUME NEW action \in AgentActions, AgentSave(action)
        PROVE  UNCHANGED <<decisions, audit, requestVars>>
    BY <2>4 DEF AgentSave
  <2>5. ASSUME NEW v \in Viewers, ReadCase(v) \/ ReadDecisions(v) \/ ShowCase(v) \/ CloseView(v)
        PROVE  UNCHANGED <<decisions, audit, requestVars>>
    BY <2>5 DEF ReadCase, ReadDecisions, ShowCase, CloseView, ledgerVars
  <2>6. CASE UNCHANGED vars
    BY <2>6, <2>3 DEF vars, requestVars
  <2> QED
    BY <2>1, <2>2, <2>3, <2>4, <2>5, <2>6 DEF Next
<1> QED
  BY <1>1, <1>2 DEF ReviewInv, SafetyInv

-------------------------------------------------------------------------------
(* The theorems *)

\* Every reachable state satisfies the inductive invariant.
THEOREM ReviewInvariance == Spec => []ReviewInv
<1> QED
  BY InitReviewInv, StepReviewInv, PTL DEF Spec

\* Type correctness of the review.
THEOREM TypeCorrect == Spec => []TypeOK
<1>1. ReviewInv => TypeOK
  BY DEF ReviewInv
<1> QED
  BY <1>1, ReviewInvariance, PTL

\* However many officers and retries race, a key books at most one decision.
THEOREM IdempotentReview == Spec => []OneDecisionPerKey
<1>1. ReviewInv => OneDecisionPerKey
  BY DEF ReviewInv
<1> QED
  BY <1>1, ReviewInvariance, PTL

\* The audit trail never runs ahead of the decision ledger.
THEOREM AuditFollowsLedger == Spec => []AuditNeverAheadOfLedger
<1>1. ReviewInv => AuditNeverAheadOfLedger
  BY DEF ReviewInv
<1> QED
  BY <1>1, ReviewInvariance, PTL

\* Every answer a client got agrees with the ledger and stays so.
THEOREM TruthfulReplies == Spec => []RepliesMatchLedger
<1>1. ReviewInv => RepliesMatchLedger
  BY DEF ReviewInv
<1> QED
  BY <1>1, ReviewInvariance, PTL

-------------------------------------------------------------------------------
(* HumanReview implements SettlementGate *)

\* The initial states map to the gate's.
LEMMA InitGate == Init => Gate!Init
BY DEF Init, Gate!Init, BookedUnder, Latest

\* An insert books the row under its key and puts it in force unless a later
\* decision is.
LEMMA SaveBooks ==
  ASSUME ReviewInv, ReviewInv', NEW r \in Requests, pc[r] = "save",
         ~KeyTaken(r), decisions' = decisions \union {draft[r]}
  PROVE  Gate!Next
<1>1. PICK new \in Rows, k \in Keys : new = draft[r] /\ k = new.key
  BY DEF ReviewInv, TypeOK, DraftInv, Rows
<1>2. decisions' = decisions \union {new} /\ \A row \in decisions : row.key # k
  BY <1>1 DEF KeyTaken
<1>3. BookedUnder(k) = NoRow
  BY <1>2 DEF BookedUnder
<1>4. BookedUnder(k)' = new
  <2>1. new \in decisions' /\ \A row \in decisions' : row.key = k => row = new
    BY <1>1, <1>2
  <2> QED
    BY <1>1, <2>1 DEF BookedUnder
<1>5. \A j \in Keys : j # k => BookedUnder(j)' = BookedUnder(j)
  <2> SUFFICES ASSUME NEW j \in Keys, j # k
               PROVE  BookedUnder(j)' = BookedUnder(j)
    OBVIOUS
  <2>1. {row \in decisions' : row.key = j} = {row \in decisions : row.key = j}
    BY <1>1, <1>2
  <2>2. CASE \E row \in decisions : row.key = j
    <3>1. PICK row \in decisions : row.key = j
      BY <2>2
    <3>2. BookedUnder(j) = row
      BY <3>1 DEF BookedUnder, ReviewInv, OneDecisionPerKey
    <3>3. BookedUnder(j)' = row
      BY <1>1, <1>2, <3>1 DEF BookedUnder, ReviewInv, OneDecisionPerKey
    <3> QED
      BY <3>2, <3>3
  <2>3. CASE ~\E row \in decisions : row.key = j
    BY <2>1, <2>3 DEF BookedUnder
  <2> QED
    BY <2>2, <2>3
<1>6. Latest(decisions)' =
        IF Latest(decisions) = NoRow \/ StampedAfter(new, Latest(decisions))
        THEN new ELSE Latest(decisions)
  <2>1. /\ decisions' # {} /\ Latest(decisions)' \in decisions'
        /\ \A other \in decisions' : other.at <= Latest(decisions)'.at
    BY <1>2 DEF ReviewInv, LedgerInv, Latest
  <2>2. \A a, b \in decisions' : a.at = b.at => a = b
    <3>1. \A row \in decisions' : row \in Rows /\ row.id \in Requests /\ draft'[row.id] = row
      BY DEF ReviewInv, LedgerInv, TypeOK, Rows
    <3> QED
      BY <3>1, ReviewAssumption DEF ReviewInv, DraftInv, ReviewAssumption
  <2>3. \A row \in decisions' : row.at \in Nat
    BY DEF ReviewInv, TypeOK, Rows
  <2>4. CASE decisions = {}
    BY <1>2, <2>1, <2>4 DEF Latest
  <2>5. CASE decisions # {}
    <3>1. /\ Latest(decisions) \in decisions
          /\ \A other \in decisions : other.at <= Latest(decisions).at
          /\ Latest(decisions) # NoRow
      BY <2>5, LatestIsRow, ReviewAssumption DEF ReviewInv, LedgerInv, TypeOK, ReviewAssumption
    <3>2. CASE StampedAfter(new, Latest(decisions))
      <4>1. \A other \in decisions' : other.at <= new.at
        BY <1>2, <2>3, <3>1, <3>2 DEF StampedAfter
      <4>2. PICK top \in decisions' : /\ top = Latest(decisions)'
                                     /\ \A other \in decisions' : other.at <= top.at
        BY <2>1
      <4>3. new \in decisions' /\ top.at \in Nat /\ new.at \in Nat
        BY <1>2, <2>3
      <4>4. top.at <= new.at /\ new.at <= top.at
        BY <4>1, <4>2, <4>3
      <4>5. top = new
        BY <2>2, <4>3, <4>4
      <4> QED
        BY <3>2, <4>2, <4>5
    <3>3. CASE ~StampedAfter(new, Latest(decisions))
      <4>1. \A other \in decisions' : other.at <= Latest(decisions).at
        BY <1>2, <2>3, <3>1, <3>3 DEF StampedAfter
      <4>2. PICK top \in decisions' : /\ top = Latest(decisions)'
                                     /\ \A other \in decisions' : other.at <= top.at
        BY <2>1
      <4>3. PICK old \in decisions : old = Latest(decisions)
        BY <3>1
      <4>4. old \in decisions' /\ top.at \in Nat /\ old.at \in Nat
        BY <1>2, <2>3
      <4>5. top.at <= old.at /\ old.at <= top.at
        BY <4>1, <4>2, <4>3, <4>4
      <4>6. top = old
        BY <2>2, <4>4, <4>5
      <4> QED
        BY <3>1, <3>3, <4>2, <4>3, <4>6
    <3> QED
      BY <3>2, <3>3
  <2> QED
    BY <2>4, <2>5
<1> DEFINE book == [j \in Keys |-> BookedUnder(j)]
<1>7. book' = [book EXCEPT ![k] = new] /\ book[k] = NoRow /\ book'[k] = new
  BY <1>1, <1>3, <1>4, <1>5
<1>8. Gate!Book(k)
  <2> HIDE DEF book
  <2> QED
    BY <1>1, <1>6, <1>7 DEF Gate!Book, book
<1> QED
  BY <1>1, <1>8 DEF Gate!Next

\* Every other step leaves the gate where it is.
LEMMA GateStep == ReviewInv /\ ReviewInv' /\ [Next]_vars => [Gate!Next]_(Gate!vars)
<1> SUFFICES ASSUME ReviewInv, ReviewInv', [Next]_vars
             PROVE  Gate!Next \/ UNCHANGED Gate!vars
  OBVIOUS
<1>1. UNCHANGED decisions => UNCHANGED Gate!vars
  BY DEF Gate!vars, BookedUnder, Latest
<1>2. ASSUME NEW r \in Requests, Save(r)
      PROVE  Gate!Next \/ UNCHANGED decisions
  BY <1>2, SaveBooks DEF Save, Insert
<1>3. ASSUME NEW r \in Requests, Step(r) \/ Fail(r) \/ \E in \in Inputs : Begin(r, in), ~Save(r)
      PROVE  UNCHANGED decisions
  BY <1>3
  DEF Step, Lookup, UpdateStatus, AuditDecision, AuditStatusChange, Fail, Begin, ledgerVars
<1>4. ASSUME NEW action \in AgentActions, AgentSave(action)
      PROVE  UNCHANGED decisions
  BY <1>4 DEF AgentSave
<1>5. ASSUME NEW v \in Viewers, ReadCase(v) \/ ReadDecisions(v) \/ ShowCase(v) \/ CloseView(v)
      PROVE  UNCHANGED decisions
  BY <1>5 DEF ReadCase, ReadDecisions, ShowCase, CloseView, ledgerVars
<1>6. ASSUME UNCHANGED vars
      PROVE  UNCHANGED decisions
  BY <1>6 DEF vars
<1> QED
  BY <1>1, <1>2, <1>3, <1>4, <1>5, <1>6 DEF Next, Step

\* The review implements the settlement gate: no race, retry, crash or agent
\* run books a second decision under a key or moves the decision in force.
THEOREM ReviewImplementsGate == Spec => GateSpec
<1> QED
  BY InitGate, GateStep, ReviewInvariance, PTL DEF Spec, GateSpec, Gate!Spec

-------------------------------------------------------------------------------
(* What crashes and readers may see *)

\* The ledger is append only: a step leaves it alone or inserts a draft.
LEMMA LedgerStep ==
  ASSUME ReviewInv, [Next]_vars
  PROVE  \/ UNCHANGED decisions
         \/ \E r \in Requests :
              Save(r) /\ ~KeyTaken(r) /\ decisions' = decisions \union {draft[r]}
<1>1. ASSUME NEW r \in Requests, Save(r)
      PROVE  \/ UNCHANGED decisions
             \/ Save(r) /\ ~KeyTaken(r) /\ decisions' = decisions \union {draft[r]}
  BY <1>1 DEF Save, Insert
<1>2. ASSUME NEW r \in Requests, Step(r) \/ Fail(r) \/ \E in \in Inputs : Begin(r, in), ~Save(r)
      PROVE  UNCHANGED decisions
  BY <1>2
  DEF Step, Lookup, UpdateStatus, AuditDecision, AuditStatusChange, Fail, Begin, ledgerVars
<1>3. ASSUME NEW action \in AgentActions, AgentSave(action)
      PROVE  UNCHANGED decisions
  BY <1>3 DEF AgentSave
<1>4. ASSUME NEW v \in Viewers, ReadCase(v) \/ ReadDecisions(v) \/ ShowCase(v) \/ CloseView(v)
      PROVE  UNCHANGED decisions
  BY <1>4 DEF ReadCase, ReadDecisions, ShowCase, CloseView, ledgerVars
<1>5. ASSUME UNCHANGED vars
      PROVE  UNCHANGED decisions
  BY <1>5 DEF vars
<1> QED
  BY <1>1, <1>2, <1>3, <1>4, <1>5 DEF Next, Step

\* A step of request r that is not its death leaves the dead requests as they were.
LEMMA DeadStep ==
  ASSUME ReviewInv, NEW r \in Requests, NEW label \in Labels \ {"dead"},
         pc[r] # "dead", Goto(r, label)
  PROVE  Dead' = Dead
BY DEF Dead, Goto, ReviewInv, TypeOK

\* The handlers' labels, the audit trail and the count of failures move together.
LEMMA AuditStep == ReviewInv /\ ReviewInv' /\ AuditInv /\ [Next]_vars => AuditInv'
<1> SUFFICES ASSUME ReviewInv, ReviewInv', AuditInv, [Next]_vars PROVE AuditInv'
  OBVIOUS
<1>0. /\ pc \in [Requests -> Labels] /\ audit \subseteq Events
      /\ \A row \in decisions : row.id \in Requests
  BY DEF ReviewInv, TypeOK, Rows
<1>1. ASSUME NEW r \in Requests, NEW in \in Inputs, Begin(r, in)
      PROVE  AuditInv'
  <2>1. /\ pc[r] = "idle" /\ UNCHANGED <<decisions, audit, failures>>
        /\ \E label \in {"lookup", "done"} : Goto(r, label)
    BY <1>1 DEF Begin, Answer, ledgerVars
  <2>2. \A row \in decisions : row.id # r
    BY <2>1 DEF AuditInv, InFlight
  <2>3. Dead' = Dead
    BY <2>1, DeadStep DEF Labels
  <2> QED
    BY <1>0, <2>1, <2>2, <2>3 DEF AuditInv, FullyAudited, Goto, InFlight
<1>2. ASSUME NEW r \in Requests, Lookup(r)
      PROVE  AuditInv'
  <2>1. /\ pc[r] = "lookup" /\ UNCHANGED <<decisions, audit, failures>>
        /\ \E label \in {"save", "done"} : Goto(r, label)
    BY <1>2 DEF Lookup, Answer, ledgerVars
  <2>2. \A row \in decisions : row.id # r
    BY <2>1 DEF AuditInv, InFlight
  <2>3. Dead' = Dead
    BY <2>1, DeadStep DEF Labels
  <2> QED
    BY <1>0, <2>1, <2>2, <2>3 DEF AuditInv, FullyAudited, Goto, InFlight
<1>3. ASSUME NEW r \in Requests, Save(r)
      PROVE  AuditInv'
  <2>1. /\ pc[r] = "save" /\ UNCHANGED <<audit, failures>>
        /\ \A row \in decisions : row.id # r
    BY <1>3 DEF Save, AuditInv, InFlight
  <2>2. CASE Goto(r, "done") /\ UNCHANGED decisions
    <3>1. Dead' = Dead
      BY <2>1, <2>2, DeadStep DEF Labels
    <3> QED
      BY <1>0, <2>1, <2>2, <3>1 DEF AuditInv, FullyAudited, Goto, InFlight
  <2>3. CASE Goto(r, "status") /\ decisions' = decisions \union {draft[r]}
    <3>1. Dead' = Dead
      BY <2>1, <2>3, DeadStep DEF Labels
    <3>2. draft[r].id = r
      BY <2>1 DEF ReviewInv, DraftInv
    <3> QED
      BY <1>0, <2>1, <2>3, <3>1, <3>2 DEF AuditInv, FullyAudited, Goto, InFlight
  <2> QED
    BY <1>3, <2>2, <2>3 DEF Save, LostInsert, Answer, Insert
<1>4. ASSUME NEW r \in Requests, UpdateStatus(r)
      PROVE  AuditInv'
  <2>1. /\ pc[r] = "status" /\ Goto(r, "audit_decision")
        /\ UNCHANGED <<decisions, audit, failures>>
    BY <1>4 DEF UpdateStatus
  <2>2. Dead' = Dead
    BY <2>1, DeadStep DEF Labels
  <2> QED
    BY <1>0, <2>1, <2>2 DEF AuditInv, FullyAudited, Goto, InFlight
<1>5. ASSUME NEW r \in Requests, AuditDecision(r)
      PROVE  AuditInv'
  <2>1. /\ pc[r] = "audit_decision" /\ Goto(r, "audit_status")
        /\ UNCHANGED <<decisions, failures>> /\ audit \subseteq audit'
    BY <1>5 DEF AuditDecision
  <2>2. Dead' = Dead
    BY <2>1, DeadStep DEF Labels
  <2> QED
    BY <1>0, <2>1, <2>2 DEF AuditInv, FullyAudited, Goto, InFlight
<1>6. ASSUME NEW r \in Requests, AuditStatusChange(r)
      PROVE  AuditInv'
  <2>1. /\ pc[r] = "audit_status" /\ Goto(r, "done") /\ UNCHANGED <<decisions, failures>>
        /\ audit' = audit \union {[type |-> "SETTLEMENT_STATUS_CHANGED", id |-> r]}
    BY <1>6 DEF AuditStatusChange, Answer
  <2>2. Dead' = Dead
    BY <2>1, DeadStep DEF Labels
  <2>3. FullyAudited(r)'
    BY <2>1 DEF FullyAudited, ReviewInv, HandlerAudited
  <2> QED
    BY <1>0, <2>1, <2>2, <2>3 DEF AuditInv, FullyAudited, Goto, InFlight
<1>7. ASSUME NEW r \in Requests, Fail(r)
      PROVE  AuditInv'
  <2>1. /\ pc[r] \notin {"idle", "done", "dead"} /\ pc' = [pc EXCEPT ![r] = "dead"]
        /\ failures' = failures + 1 /\ UNCHANGED <<decisions, audit>>
    BY <1>7 DEF Fail, Goto, ledgerVars
  <2>2. r \notin Dead /\ Dead' = Dead \union {r}
    BY <1>0, <2>1 DEF Dead
  <2>3. IsFiniteSet(Dead') /\ Cardinality(Dead') = failures'
    BY <2>1, <2>2, FS_AddElement DEF AuditInv
  <2> QED
    BY <1>0, <2>1, <2>3 DEF AuditInv, FullyAudited, InFlight
<1>8. CASE UNCHANGED <<decisions, audit, pc, failures>>
  BY <1>8 DEF AuditInv, FullyAudited, Dead
<1>9. ASSUME NEW action \in AgentActions, AgentSave(action)
      PROVE  UNCHANGED <<decisions, audit, pc, failures>>
  BY <1>9 DEF AgentSave, requestVars
<1>10. ASSUME NEW v \in Viewers, ReadCase(v) \/ ReadDecisions(v) \/ ShowCase(v) \/ CloseView(v)
       PROVE  UNCHANGED <<decisions, audit, pc, failures>>
  BY <1>10 DEF ReadCase, ReadDecisions, ShowCase, CloseView, ledgerVars, requestVars
<1>11. UNCHANGED vars => UNCHANGED <<decisions, audit, pc, failures>>
  BY DEF vars
<1> QED
  BY <1>1, <1>2, <1>3, <1>4, <1>5, <1>6, <1>7, <1>8, <1>9, <1>10, <1>11 DEF Next, Step

\* The requests whose audit events are lost are among the dead ones.
LEMMA LostAuditsAreDead ==
  ASSUME ReviewInv, AuditInv
  PROVE  EachCrashLosesOneAudit
<1>1. LostAudits \subseteq Dead
  BY DEF LostAudits, Dead, AuditInv, InFlight
<1> QED
  BY <1>1, FS_Subset DEF EachCrashLosesOneAudit, AuditInv

\* What a step may do to a reader: nothing, or one of its reads.
LEMMA ReaderStep ==
  ASSUME ReviewInv, [Next]_vars, NEW v \in Viewers
  PROVE  \/ UNCHANGED view[v]
         \/ /\ UNCHANGED <<decisions, caseStatus, agentSaid>>
            /\ ReadCase(v) \/ ReadDecisions(v) \/ ShowCase(v) \/ CloseView(v)
<1>1. view \in [Viewers -> Views]
  BY DEF ReviewInv, TypeOK
<1>2. ASSUME NEW r \in Requests, Step(r) \/ Fail(r) \/ \E in \in Inputs : Begin(r, in)
      PROVE  UNCHANGED view
  BY <1>2
  DEF Step, Lookup, Save, UpdateStatus, AuditDecision, AuditStatusChange, Fail, Begin
<1>3. ASSUME NEW action \in AgentActions, AgentSave(action)
      PROVE  UNCHANGED view
  BY <1>3 DEF AgentSave
<1>4. ASSUME NEW w \in Viewers, ReadCase(w) \/ ReadDecisions(w) \/ ShowCase(w) \/ CloseView(w)
      PROVE  /\ UNCHANGED <<decisions, caseStatus, agentSaid>>
             /\ w # v => UNCHANGED view[v]
  BY <1>1, <1>4 DEF ReadCase, ReadDecisions, ShowCase, CloseView, ledgerVars
<1>5. UNCHANGED vars => UNCHANGED view
  BY DEF vars
<1> QED
  BY <1>2, <1>3, <1>4, <1>5 DEF Next

\* A reader's list stays part of the ledger, and a readiness it is shown is
\* computed from a ledger that holds the list.
LEMMA ReaderInvStep == ReviewInv /\ ReaderInv /\ [Next]_vars => ReaderInv'
<1> SUFFICES ASSUME ReviewInv, ReaderInv, [Next]_vars, NEW v \in Viewers
             PROVE  /\ view'[v].listed \subseteq decisions'
                    /\ view'[v].pc = "shown" /\ view'[v].shown # AWAITING =>
                         view'[v].latest \in decisions'
                    /\ view'[v].pc = "shown" =>
                         \A row \in view'[v].listed :
                           view'[v].latest # NoRow /\ row.at <= view'[v].latest.at
                    /\ view'[v].pc = "shown" /\ view'[v].approved =>
                         /\ view'[v].latest \in decisions'
                         /\ view'[v].latest.decision = "APPROVE"
  BY DEF ReaderInv, ReadinessNotOlderThanList, ReadinessFromLedger
<1> USE DEF ReaderInv, ReadinessNotOlderThanList, ReadinessFromLedger
<1>1. decisions \subseteq decisions'
  BY LedgerStep
<1>2. view \in [Viewers -> Views] /\ decisions \subseteq Rows
  BY DEF ReviewInv, TypeOK
<1>3. CASE UNCHANGED view[v]
  BY <1>1, <1>3
<1>4. CASE UNCHANGED decisions /\ (ReadCase(v) \/ CloseView(v))
  <2>1. view'[v].listed = {} /\ view'[v].pc # "shown"
    <3>1. CASE ReadCase(v)
      BY <1>2, <3>1 DEF ReadCase, IdleView
    <3>2. CASE CloseView(v)
      BY <1>2, <3>2 DEF CloseView, IdleView
    <3> QED
      BY <1>4, <3>1, <3>2
  <2> QED
    BY <2>1
<1>5. CASE UNCHANGED decisions /\ ReadDecisions(v)
  BY <1>2, <1>5 DEF ReadDecisions, Views
<1>6. CASE UNCHANGED decisions /\ ShowCase(v)
  <2>1. /\ view'[v].listed = view[v].listed /\ view'[v].latest = Latest(decisions)
        /\ view'[v].approved = Approved(decisions)
        /\ view'[v].shown = Display(view[v].status, decisions)
    BY <1>2, <1>6 DEF ShowCase, Views
  <2>2. decisions # {} =>
          /\ Latest(decisions) \in decisions /\ Latest(decisions) # NoRow
          /\ \A row \in decisions : row.at <= Latest(decisions).at
    BY <1>2, LatestIsRow, ReviewAssumption DEF ReviewInv, LedgerInv, ReviewAssumption
  <2> QED
    BY <1>6, <2>1, <2>2 DEF Approved, Display
<1> QED
  BY <1>3, <1>4, <1>5, <1>6, ReaderStep

\* The status of a case becomes ready by an approval in the ledger, or by an
\* investigation that may recommend it.
LEMMA ReadyStatusStep ==
  ASSUME ReviewInv, ReviewInv', [Next]_vars, caseStatus' = READY_ACTION
  PROVE  \/ caseStatus = READY_ACTION
         \/ ApprovedOnce'
         \/ READY_ACTION \in agentSaid'
<1>1. ASSUME NEW r \in Requests, UpdateStatus(r)
      PROVE  ApprovedOnce'
  <2>1. draft[r].decision = "APPROVE"
    BY <1>1 DEF UpdateStatus, StatusOf, READY_ACTION
  <2>2. draft[r] \in decisions /\ decisions' = decisions
    BY <1>1 DEF UpdateStatus, ReviewInv, LedgerInv, InFlight
  <2> QED
    BY <2>1, <2>2 DEF ApprovedOnce
<1>2. ASSUME NEW action \in AgentActions, AgentSave(action)
      PROVE  \/ caseStatus = READY_ACTION
             \/ READY_ACTION \in agentSaid'
  BY <1>2 DEF AgentSave, ReviewInv, TypeOK
<1>3. ASSUME NEW r \in Requests,
             \/ Lookup(r) \/ Save(r) \/ AuditDecision(r) \/ AuditStatusChange(r) \/ Fail(r)
             \/ \E in \in Inputs : Begin(r, in)
      PROVE  UNCHANGED caseStatus
  BY <1>3 DEF Lookup, Save, AuditDecision, AuditStatusChange, Fail, Begin, ledgerVars
<1>4. ASSUME NEW v \in Viewers, ReadCase(v) \/ ReadDecisions(v) \/ ShowCase(v) \/ CloseView(v)
      PROVE  UNCHANGED caseStatus
  BY <1>4 DEF ReadCase, ReadDecisions, ShowCase, CloseView, ledgerVars
<1>5. UNCHANGED vars => UNCHANGED caseStatus
  BY DEF vars
<1> QED
  BY <1>1, <1>2, <1>3, <1>4, <1>5 DEF Next, Step

\* What an investigation recommended stays recommended.
LEMMA AgentSaidStep == [Next]_vars => agentSaid \subseteq agentSaid'
<1> SUFFICES ASSUME [Next]_vars PROVE agentSaid \subseteq agentSaid'
  OBVIOUS
<1>1. ASSUME NEW r \in Requests, Step(r) \/ Fail(r) \/ \E in \in Inputs : Begin(r, in)
      PROVE  UNCHANGED agentSaid
  BY <1>1
  DEF Step, Lookup, Save, UpdateStatus, AuditDecision, AuditStatusChange, Fail, Begin
<1>2. ASSUME NEW action \in AgentActions, AgentSave(action)
      PROVE  agentSaid \subseteq agentSaid'
  BY <1>2 DEF AgentSave
<1>3. ASSUME NEW v \in Viewers, ReadCase(v) \/ ReadDecisions(v) \/ ShowCase(v) \/ CloseView(v)
      PROVE  UNCHANGED agentSaid
  BY <1>3 DEF ReadCase, ReadDecisions, ShowCase, CloseView
<1>4. UNCHANGED vars => UNCHANGED agentSaid
  BY DEF vars
<1> QED
  BY <1>1, <1>2, <1>3, <1>4 DEF Next

LEMMA ReadyInvStep == ReviewInv /\ ReviewInv' /\ ReadyInv /\ [Next]_vars => ReadyInv'
<1> SUFFICES ASSUME ReviewInv, ReviewInv', ReadyInv, [Next]_vars,
                    READY_ACTION \notin agentSaid'
             PROVE  /\ caseStatus' = READY_ACTION => ApprovedOnce'
                    /\ \A v \in Viewers :
                         view'[v].status = READY_ACTION \/ view'[v].shown = READY_ACTION =>
                           ApprovedOnce'
  BY DEF ReadyInv
<1>1. READY_ACTION \notin agentSaid
  BY AgentSaidStep
<1>2. ApprovedOnce => ApprovedOnce'
  BY LedgerStep DEF ApprovedOnce
<1>3. caseStatus' = READY_ACTION => ApprovedOnce'
  BY <1>1, <1>2, ReadyStatusStep DEF ReadyInv
<1>4. ASSUME NEW v \in Viewers,
             view'[v].status = READY_ACTION \/ view'[v].shown = READY_ACTION
      PROVE  ApprovedOnce'
  <2>1. view \in [Viewers -> Views] /\ decisions \subseteq Rows
    BY DEF ReviewInv, TypeOK
  <2>2. CASE UNCHANGED view[v]
    BY <1>1, <1>2, <1>4, <2>2 DEF ReadyInv
  <2>3. CASE ReadCase(v)
    BY <1>1, <1>2, <1>4, <2>1, <2>3 DEF ReadyInv, ReadCase, IdleView, AWAITING, READY_ACTION
  <2>4. CASE ReadDecisions(v)
    BY <1>1, <1>2, <1>4, <2>1, <2>4 DEF ReadyInv, ReadDecisions, Views
  <2>5. CASE ShowCase(v)
    <3>1. /\ view'[v].status = view[v].status
          /\ view'[v].shown = Display(view[v].status, decisions)
      BY <2>1, <2>5 DEF ShowCase, Views
    <3>2. Approved(decisions) => ApprovedOnce
      BY <2>1, LatestIsRow DEF Approved, ApprovedOnce, ReviewInv, LedgerInv
    <3> QED
      BY <1>1, <1>2, <1>4, <3>1, <3>2 DEF ReadyInv, Display, AWAITING, READY_ACTION
  <2>6. CASE CloseView(v)
    BY <1>4, <2>1, <2>6 DEF CloseView, IdleView, AWAITING, READY_ACTION
  <2> QED
    BY <2>2, <2>3, <2>4, <2>5, <2>6, ReaderStep
<1> QED
  BY <1>3, <1>4

\* The initial states satisfy what the crash and reader properties rest on.
LEMMA InitOutcomeInv == Init => OutcomeInv
<1> SUFFICES ASSUME Init PROVE OutcomeInv
  OBVIOUS
<1>1. AuditInv
  <2>1. Dead = {}
    BY DEF Init, Dead
  <2> QED
    BY <2>1, FS_EmptySet DEF Init, AuditInv
<1>2. ReaderInv
  BY DEF Init, ReaderInv, ReadinessNotOlderThanList, ReadinessFromLedger, IdleView
<1>3. ReadyInv
  BY DEF Init, ReadyInv, IdleView, AWAITING, READY_ACTION
<1> QED
  BY <1>1, <1>2, <1>3 DEF OutcomeInv

\* Crash and reader invariants hold in every reachable state.
THEOREM OutcomeInvariance == Spec => []OutcomeInv
<1>1. ReviewInv /\ ReviewInv' /\ OutcomeInv /\ [Next]_vars => OutcomeInv'
  BY AuditStep, ReaderInvStep, ReadyInvStep DEF OutcomeInv
<1> QED
  BY <1>1, InitOutcomeInv, ReviewInvariance, PTL DEF Spec

\* Each request that dies leaves at most one decision without its audit events,
\* and none is lost while no request has died.
THEOREM BoundedAuditLoss == Spec => []EachCrashLosesOneAudit
<1>1. ReviewInv /\ OutcomeInv => EachCrashLosesOneAudit
  BY LostAuditsAreDead DEF OutcomeInv
<1> QED
  BY <1>1, ReviewInvariance, OutcomeInvariance, PTL

\* Although list and readiness are two reads, the readiness is the newer one.
THEOREM FreshReadiness == Spec => []ReadinessNotOlderThanList
<1>1. OutcomeInv => ReadinessNotOlderThanList
  BY DEF OutcomeInv, ReaderInv
<1> QED
  BY <1>1, OutcomeInvariance, PTL

\* An approved readiness is always backed by an approval in the ledger, whatever
\* the investigation may recommend.
THEOREM ReadinessIsAnApproval == Spec => []ReadinessFromLedger
<1>1. OutcomeInv => ReadinessFromLedger
  BY DEF OutcomeInv, ReaderInv
<1> QED
  BY <1>1, OutcomeInvariance, PTL

\* A case is shown as ready only beside a decision of an officer, and only when
\* one approved it or an investigation recommended it, for any recommendations
\* the investigation may make.
THEOREM ReadyHasAuthority == Spec => []ReadyShownOnAuthority
<1>1. OutcomeInv => ReadyShownOnAuthority
  BY DEF OutcomeInv, ReaderInv, ReadyInv, ReadyShownOnAuthority, AWAITING, READY_ACTION
<1> QED
  BY <1>1, OutcomeInvariance, PTL

===============================================================================
