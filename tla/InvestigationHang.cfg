\* Every fingerprint and every answer of the sanctions lists, with tools that may hang.
SPECIFICATION Spec
CHECK_DEADLOCK FALSE  \* a run ends
CONSTANTS
  Types = {"LC", "BL"}
  LC = "LC"
  DocStates <- Ready
  LcTerms <- BothRequired
  Budgets <- Plenty
  Verdicts <- NoVerdict
  DnaResults <- AllDna
  Matches <- NoMatch
  Prices <- NormalPrice
  Vessels <- Consistent
  EntityResults <- Verified
  SanctionsResults <- AllSanctions
  NoDna = NoDna
  Bedrock = FALSE
  MayHang = TRUE
  MayFail = FALSE
  MaxDocChanges = 0
INVARIANTS ReadyIsScreened
