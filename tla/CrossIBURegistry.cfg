SPECIFICATION Spec
CHECK_DEADLOCK FALSE  \* requests end
CONSTANTS
  Units = {"A", "B", "D"}
  Simulated = {"A", "B"}
  Cases = {"ca", "cb", "cd"}
  UnitOf <- MCUnitOf
  Signals <- Trades
  NoValue = NoValue
  Similarity <- MCSimilarity
  DaysBetween <- MCDays
  StartDna <- MCStartDna
  Requests = {r1, r2, r3}
  Inputs <- MCInputs
  NoSignal = NoSignal
  Ttl = 1
  MaxTime = 1
  MaxBuilds = 1
  MaxFailures = 1
INVARIANTS TypeOK ExactDuplicateReported AnswerIsGrounded RegistrationKept AuditComplete
SYMMETRY Interchangeable
