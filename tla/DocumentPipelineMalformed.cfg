SPECIFICATION Spec
CHECK_DEADLOCK FALSE  \* uploads end
CONSTANTS
  Uploads = {u1}
  Contents = {"invoice", "notes"}
  Names = {"lc_1.pdf", "scan.pdf"}
  HintOf <- MCHintOf
  TextOf <- MCTextOf
  Injected <- Instructing
  NoRow = NoRow
  MaxFailures = 0
  MaxRestarts = 0
INVARIANT CaseReadable
