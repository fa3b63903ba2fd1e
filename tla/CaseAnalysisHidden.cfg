CONSTANTS
  None = None
  Texts <- AllTexts
  Plain <- PlainForm
  Similar <- Near
  EntityName <- EntityForm
  Port <- PortForm
  FreeText <- TextForm
  Close <- Near
  Dollar <- Dollars
  File <- SecondFiles
  Requests <- AllRequests
  Kind <- KindOf
SPECIFICATION Spec
INVARIANT InvoiceExamined
CHECK_DEADLOCK FALSE
