CONSTANTS
  None = None
  Texts <- AllTexts
  Plain <- PlainForm
  Similar <- Near
  EntityName <- EntityForm
  Port <- PortForm
  FreeText <- TextForm
  Close <- Near
  Dollar <- Dollars
  File <- AllFiles
  Requests <- AllRequests
  Kind <- KindOf
SPECIFICATION Spec
INVARIANTS TypeOK CompliantConforms SourceHoldsValue DisagreementReported ConflictIsDiscrepancy
PROPERTIES MoreDocumentsMoreFindings
CHECK_DEADLOCK FALSE
