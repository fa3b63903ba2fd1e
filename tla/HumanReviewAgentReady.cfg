SPECIFICATION Spec
CONSTANTS
  Requests = {r1}
  Viewers = {v1}
  Keys = {k1}
  Comments = {c1}
  Submitted <- TwoDecisions
  Principals <- OneOfficer
  CaseIbu = "ibu1"
  AgentActions <- HoldOrReady
  NoRow = NoRow
  MaxAgentRuns = 1
  MaxFailures = 0
INVARIANT ShownReadyOnlyIfApproved
