SPECIFICATION FairSpec
CONSTANTS
  Requests = {r1, r2}
  Viewers = {v1}
  Keys = {k1, k2}
  Comments = {c1}
  Submitted <- TwoDecisions
  Principals <- MCPrincipals
  CaseIbu = "ibu1"
  AgentActions <- HoldOrReady
  NoRow = NoRow
  MaxAgentRuns = 1
  MaxFailures = 1
INVARIANTS TypeOK EachCrashLosesOneAudit RepliesMatchLedger ReadyShownOnAuthority ReadinessNotOlderThanList
PROPERTIES GateSpec SavedDecisionIsAudited
