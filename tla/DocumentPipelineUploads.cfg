SPECIFICATION FairSpec
CHECK_DEADLOCK FALSE  \* uploads end
CONSTANTS
  Uploads = {u1, u2}
  Contents = {"invoice", "notes"}
  Names = {"lc_1.pdf", "scan.pdf"}
  HintOf <- MCHintOf
  TextOf <- MCTextOf
  Injected <- Instructing
  NoRow = NoRow
  MaxFailures = 2
  MaxRestarts = 1
INVARIANTS TypeOK SettledIsFinal ExtractionAudited InjectionReported
PROPERTIES EveryUploadEnds
