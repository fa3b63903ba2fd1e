\* Every finding of every check; the deterministic planner and tools that may hang.
SPECIFICATION Spec
CHECK_DEADLOCK FALSE  \* a run ends
CONSTANTS
  Types = {"LC", "BL"}
  LC = "LC"
  DocStates <- Ready
  LcTerms <- BothRequired
  Budgets <- Plenty
  Verdicts <- AllVerdicts
  DnaResults <- AllDna
  Matches <- AllMatches
  Prices <- AllPrices
  Vessels <- AllVessels
  EntityResults <- Verified
  SanctionsResults <- AllSanctions
  NoDna = NoDna
  Bedrock = FALSE
  MayHang = TRUE
  MayFail = FALSE
  MaxDocChanges = 0
INVARIANTS HoldIsExplained ReadyIsUnsuspicious UnscreenedIsOnRecord
